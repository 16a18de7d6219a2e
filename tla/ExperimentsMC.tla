----------------------------- MODULE ExperimentsMC -----------------------------
(* What employees ask the agent, and what the repository measures offline: the   *)
(* retrieval experiments, the contract of a semantic parser, and the data sets of *)
(* request facets.  They share no state: a behaviour is one of its part only.     *)
EXTENDS AgentRequests, RetrievalEvaluation, SemanticContract, FacetSets

VARIABLE part

-----------------------------------------------------------------------------
(* Messages on either side of every threshold, drafts of every type, and      *)
(* amendments that touch every kind of field                                  *)

Asks(phrases) == [NoMessage EXCEPT !.says = Words(phrases)]
AskedTotal(phrases, total) == [Asks(phrases) EXCEPT !.total = total]

TestQuestions ==
    {AskedTotal({"buy"} \cup more, total) :
        more \in SUBSET {"it", "urgentPurchase", "majorProject"},
        total \in {None, 5000, 5001, 50000, 50001, 200000, 200001, 1000000, 1000001}}
    \cup {[AskedTotal({"trip"} \cup more, total) EXCEPT !.days = days] :
        more \in {{}, {"claim"}, {"overseas"}, {"advance"}, {"overStandard"}},
        total \in {None, 5000, 5001, 20000, 20001, 30000, 30001}, days \in {None, 30, 31}}
    \cup {AskedTotal({"expenseClaim"} \cup more, total) :
        more \in {{}, {"noInvoice"}, {"entertainment"}, {"venue"}},
        total \in {None, 1000, 1001, 5000, 5001, 20000, 20001, 100000, 100001}}
    \cup {[Asks({"leave"} \cup more) EXCEPT !.leave = type, !.days = days] :
        more \in SUBSET {"departmentHead", "balanceDisputed"},
        type \in {{}, {"sick"}, {"annual"}, {"marriage"}, {"parental", "annual"}},
        days \in {None, 1, 2, 3, 6, 7, 10, 11, 30, 31}}
    \cup {Asks({}), Asks({"claim"})}

Purchase ==
    [Asks({"buy", "it", "goods", "plainPurchase", "purchaseDetails", "compares"})
        EXCEPT !.quantity = 3, !.unit = 2000, !.quotes = 2,
               !.has = {"technicalRequirement", "itReview", "productSpecification",
                        "quotation"}]
Chairs ==
    [Asks({"buy", "goods", "noData", "plainPurchase", "purchaseDetails", "compares"})
        EXCEPT !.quantity = 3, !.unit = 500, !.has = {"productSpecification"}]
Leave ==
    [Asks({"leave", "urgent", "leaveDetails"})
        EXCEPT !.leave = {"annual"}, !.days = 6, !.dates = "ordered"]
Expense ==
    [AskedTotal({"expenseClaim", "buy", "meeting", "expenseDetails", "compares"}, 3000)
        EXCEPT !.has = ExpenseMaterials \cup CategoryMaterials["meeting"]]
Travel ==
    [AskedTotal({"tripClaim", "travelDetails", "compares"}, 3000)
        EXCEPT !.dates = "ordered", !.has = TravelMaterials]

TestRequests ==
    {Purchase, Chairs, Leave, Expense, Travel, Asks({}),
     [Purchase EXCEPT !.grouped = {"unit"}],
     [Purchase EXCEPT !.unit = None],
     [Purchase EXCEPT !.total = 7000],
     [Purchase EXCEPT !.says = @ \cup {"trip"}],
     [Purchase EXCEPT !.has = {"itReview"}, !.lacks = {"quotation"}],
     [Purchase EXCEPT !.says = Words((@ \ {"plainPurchase"}) \cup {"notUrgentPurchase"})],
     [Leave EXCEPT !.leave = {"sick"}],
     [Leave EXCEPT !.leave = {"sick"}, !.days = 1, !.dayWord = "ban"],
     [Travel EXCEPT !.dates = "reversed"],
     [Expense EXCEPT !.says = @ \ {"compares"}]}

Change == [NoMessage EXCEPT !.changes = TRUE]

TestAmendments ==
    {[Change EXCEPT !.unit = 30000],
     [Change EXCEPT !.quantity = 30],
     [Change EXCEPT !.total = 6000],
     [NoMessage EXCEPT !.unit = 2000],
     [NoMessage EXCEPT !.total = 90000],
     [Asks({"compares"}) EXCEPT !.has = {"quotation", "comparisonRecord"}, !.quotes = 3],
     Asks({"urgentPurchase"}),
     Asks({"trip"}),
     [Asks({"tripClaim"}) EXCEPT !.dates = "reversed"],
     [NoMessage EXCEPT !.days = 10],
     [NoMessage EXCEPT !.leave = {"annual"}],
     [NoMessage EXCEPT !.dates = "ordered"]}

-----------------------------------------------------------------------------
(* Three families of inputs, each to an application of its own directory: files *)
(* of every layout, which nobody asks about; corpora of two or three documents  *)
(* that differ in what restricts them, with questions of two askers; and the    *)
(* messages above, put to an application with a plain corpus.                   *)

-----------------------------------------------------------------------------
(* Files                                                                    *)

Open == [status |-> "effective", from |-> 1, until |-> Absent, level |-> "internal",
         departments |-> {"ALL"}, roles |-> {}, region |-> Absent]

TextLine(word) == Line("text", word)
Empty == Line("blank", Absent)
Scan(lines, confidence, engine) ==
    [lines |-> lines, confidence |-> confidence, engine |-> engine]
Native(lines) == [lines |-> lines, scans |-> <<>>]
Scanned(lines, confidence, engine) ==
    [lines |-> <<TextLine("a")>>, scans |-> <<Scan(lines, confidence, engine)>>]
Image(lines, confidence) ==
    [lines |-> <<>>, scans |-> <<Scan(lines, confidence, "e")>>]

Opening == <<Line("chapter", Absent), Line("article", "1"), TextLine("a"), Empty>>
Continued == <<TextLine("b"), Line("runInArticle", "2")>>
Spaced == <<Empty, TextLine("c"), Empty, Empty, TextLine("d"), Empty>>
Unmarked == <<Line("plainChapter", Absent), TextLine("e"), Line("plainArticle", "3"), TextLine("a")>>
Repeated == <<Line("article", "1"), TextLine("b")>>

Pages ==
    {Native(Opening), Native(Continued), Native(Spaced), Native(Unmarked), Native(Repeated),
     Scanned(Continued, 90, "e"), Scanned(Spaced, 80, "e"), Scanned(Unmarked, 79, "e"),
     Scanned(Spaced, 95, "other"), Scanned(<<Empty>>, 99, "e")}
Blocks ==
    {Native(Opening), Native(Continued), Native(Spaced), Native(Unmarked), Native(<<Empty>>),
     Image(Unmarked, 90), Image(Continued, 79),
     [lines |-> <<>>, scans |-> <<Scan(Spaced, 90, "e"), Scan(Spaced, 80, "e")>>],
     [lines |-> <<TextLine("a")>>, scans |-> <<Scan(Spaced, 90, "e")>>]}

Numbered(units) ==
    LET Placed(lines, u) == [i \in DOMAIN lines |-> [lines[i] EXCEPT !.at = u]]
    IN  [u \in DOMAIN units |->
            [lines |-> Placed(units[u].lines, u),
             scans |-> [s \in DOMAIN units[u].scans |->
                           [units[u].scans[s] EXCEPT !.lines = Placed(@, u)]]]]

File(format, document, meta, units) ==
    [format |-> format, document |-> document, described |-> TRUE, meta |-> meta,
     units |-> Numbered(units)]

Layouts(format, units) ==
    {<<File(format, 1, Open, s)>> : s \in UNION {[1..n -> units] : n \in 1..3}}

-----------------------------------------------------------------------------
(* Corpora                                                                  *)

Article(label, words) ==
    <<Line("article", label)>> \o [i \in DOMAIN words |-> TextLine(words[i])]
Policy1(document, meta, articles) ==
    File("markdown", document, meta,
         <<Native(<<Line("chapter", Absent)>> \o FlattenSeq(articles))>>)

Instructing(lines) == [lines EXCEPT ![Len(lines)].instructs = TRUE]

Limits == Article("1", <<"limit", "trip">>)
Prices == Article("2", <<"price", "price", "trip">>)
Others == Article("3", <<"leave">>)

Plain == <<Policy1(1, Open, <<Limits, Prices, Others>>)>>
Corpora ==
    {Plain,
     <<Policy1(1, [Open EXCEPT !.until = 1], <<Limits, Others>>),
       Policy1(2, [Open EXCEPT !.from = 2], <<Limits, Others>>)>>,
     <<Policy1(1, Open, <<Limits, Article("3", <<"leave", "leave">>)>>),
       Policy1(2, [Open EXCEPT !.level = "sensitive", !.roles = {"hr"}],
               <<Others, Article("4", <<"leave", "price">>)>>)>>,
     <<Policy1(1, [Open EXCEPT !.until = 1], <<Instructing(Limits)>>)>>,
     <<Policy1(1, Open, <<Prices>>),
       Policy1(2, [Open EXCEPT !.departments = {"finance"}], <<Limits>>),
       Policy1(3, [Open EXCEPT !.region = "north"], <<Others, Limits>>)>>,
     <<Policy1(1, Open, <<Instructing(Prices), Limits, Others>>),
       Policy1(2, [Open EXCEPT !.status = "superseded"], <<Limits>>)>>}

Refused1 ==
    {<<File("markdown", 1, Open, <<Native(<<>>)>>)>>,
     <<File("markdown", 1, Open, <<Native(Repeated)>>)>>,
     <<[Plain[1] EXCEPT !.described = FALSE]>>,
     Plain \o Plain}

TestDeployments ==
    {[files |-> f, ocr |-> TRUE] :
        f \in Layouts("pdf", Pages) \cup Layouts("docx", Blocks)}
    \cup {[files |-> f, ocr |-> FALSE] :
        f \in Layouts("pdf", Pages) \cup Layouts("docx", Blocks) \cup Corpora \cup Refused1}

-----------------------------------------------------------------------------
(* Questions                                                                *)

TestAskers ==
    {[clearance |-> "internal", department |-> "finance", roles |-> {"clerk"}, region |-> "south"],
     [clearance |-> "core", department |-> "staff", roles |-> {"hr"}, region |-> "north"]}

Query(terms) == [terms |-> terms, instructs |-> FALSE, web |-> FALSE]
TestQueries ==
    {Query({"trip", "price"}), Query({"limit", "leave"}), [Query({"price"}) EXCEPT !.web = TRUE],
     Query({"trip", "limit", "leave"}), [Query({"price"}) EXCEPT !.instructs = TRUE]}

\* The embedding model knows that a limit is a price.
Near == [limit |-> {"limit", "price"}, price |-> {"limit", "price"}, trip |-> {"trip"},
         leave |-> {"leave"}]
TestSimilarity(query, lines) ==
    LET near == UNION {Near[t] : t \in query.terms}
    IN  Cardinality({i \in DOMAIN lines : lines[i].what \in near})

TestLn == <<0, 693, 1099, 1386, 1609, 1792, 1946, 2079, 2197, 2303, 2398, 2485>>

TestRelevances == {Absent, [id \in (1..3) \X (1..3) |-> (2 * id[1] + id[2]) % 4]}
TestPayloads == {Absent, <<>>, <<"u", "u", "v">>, <<"u", "v", "w">>}

Said(text) == [text |-> text, query |-> Query({})]
Asked(query) == [text |-> NoMessage, query |-> query]

TestResearchQuestions(directory) == IF directory \in Corpora THEN TestQueries ELSE {}
TestMessages(directory) ==
    IF directory = Plain
    THEN {Said(m) : m \in TestQuestions \cup TestRequests} \cup {Asked(Query({"trip"})), Asked([Query({"trip"}) EXCEPT !.instructs = TRUE])}
    ELSE {}

Reply1(understood, confidence) ==
    [form |-> "object", intent |-> understood, confidence |-> confidence]
TestReplies(m) ==
    IF m.text = NoMessage
    THEN {Reply1("policyQuery", 60), Reply1("policyQuery", 59), Reply1("unknown", 90)}
    ELSE IF m.text \in TestRequests
    THEN {Reply1("draftGeneration", 90), Reply1("materialCheck", 90),
          Reply1("draftUpdate", 90), [Reply1("draftGeneration", 90) EXCEPT !.form = "other"]}
    ELSE {Reply1("approvalQuery", 60)}

-----------------------------------------------------------------------------
(* Two queries, or one whose judgments are wrong                            *)

Chunk(d, n, title, words) == [id |-> <<d, n>>, title |-> title, words |-> words]
TestChunks ==
    {Chunk(1, 1, {"price", "limits"}, {"limit"}), Chunk(1, 2, {"price"}, {"price"}),
     Chunk(1, 3, {"committee"}, {"board"}), Chunk(2, 1, {"leave"}, {"leave"}),
     Chunk(2, 2, {"committee"}, {"board"}), Chunk(2, 3, {"leave"}, {"trip"})}
TestVisible == {<<1, 1>>, <<1, 2>>, <<1, 3>>, <<2, 1>>, <<2, 3>>}
TestRules ==
    <<[title |-> "price", words |-> {}, targetTitle |-> {"committee"}, targetWords |-> {"board"}]>>
TestWindows == <<3, 4>>

Preferring(best) == [id \in {chunk.id : chunk \in TestChunks} |-> IF id = best THEN 2 ELSE 1]
Case1 ==
    [vector |-> <<<<1, 1>>, <<2, 1>>, <<2, 3>>, <<1, 2>>, <<1, 3>>>>,
     keyword |-> <<<<1, 2>>, <<1, 1>>, <<1, 3>>>>,
     relevance |-> Preferring(<<1, 2>>), judgments |-> (<<1, 2>> :> 3) @@ (<<1, 3>> :> 1)]
Case2 ==
    [vector |-> <<<<2, 1>>, <<1, 1>>, <<2, 3>>, <<1, 3>>, <<1, 2>>>>, keyword |-> <<<<2, 1>>>>,
     relevance |-> Preferring(<<1, 1>>), judgments |-> (<<2, 1>> :> 2)]
\* Judged is a chunk that nobody may see.
Case3 == [Case2 EXCEPT !.judgments = (<<2, 2>> :> 2)]
TestCases == {<<Case1, Case2>>, <<Case2, Case1>>, <<Case3>>}

-----------------------------------------------------------------------------
(* Records: every graph of three relations or scopes, and single faults     *)

Quote(from, to) == [start |-> from, end |-> to, text |-> SubSeq(<<"a", "b">>, from + 1, to)]
ANode(id, type, act, scope) ==
    [node_id |-> id, node_type |-> type, text |-> <<"a">>, source_spans |-> <<Quote(0, 1)>>,
     act |-> act, scope_id |-> scope]
AnEdge(id, source, target) ==
    [edge_id |-> id, source |-> source, target |-> target, relation |-> "TARGETS", source_spans |-> <<>>]
AScope(id, nodes, parent) ==
    [scope_id |-> id, scope_type |-> "QUERY", source_spans |-> <<Quote(0, 2)>>, node_ids |-> nodes,
     parent_scope_id |-> parent]
AnOutput == [output_type |-> <<"a">>, reason |-> <<"b">>, source_spans |-> <<Quote(1, 2)>>]
SoundRecord ==
    [schema_version |-> "1.0", query |-> <<"a", "b">>, status |-> "COMPLETE", parser_id |-> Null,
     parser_revision |-> "r", missing_outputs |-> <<>>,
     nodes |-> <<ANode(1, "REPORTED_ASSERTION", "REPORT_ASSERTION", 1), ANode(2, "USER_REQUEST", "VERIFY_ASSERTION", 2)>>,
     edges |-> <<AnEdge(1, 2, 1)>>,
     scopes |-> <<AScope(1, <<1>>, 2), AScope(2, <<2>>, Null)>>]

\* Every graph of three relations or scopes.
Entities == [i \in 1..3 |-> ANode(i, "ENTITY", Null, Null)]
Pairs == [k \in 1..9 |-> <<1 + ((k - 1) % 3), 3 - ((k - 1) \div 3)>>]
Related(pairs) ==
    LET chosen == SelectSeq(Pairs, LAMBDA p : p \in pairs)
    IN  [SoundRecord EXCEPT !.nodes = Entities, !.scopes = <<>>,
            !.edges = [i \in DOMAIN chosen |-> AnEdge(i, chosen[i][1], chosen[i][2])]]
Nested(parent) == [SoundRecord EXCEPT !.scopes = [i \in 1..3 |-> AScope(i, <<>>, parent[i])], !.nodes[1].scope_id = Null, !.nodes[2].scope_id = Null]

WithSpan(span) ==
    {[SoundRecord EXCEPT !.nodes[1].source_spans = Append(@, span)],
     [SoundRecord EXCEPT !.edges[1].source_spans = <<span>>],
     [SoundRecord EXCEPT !.scopes[2].source_spans = <<span>>],
     [SoundRecord EXCEPT !.status = "PARTIAL", !.missing_outputs = <<[AnOutput EXCEPT !.source_spans = <<span>>]>>]}
SpanCases ==
    UNION {WithSpan([start |-> from, end |-> to, text |-> text]) :
              from \in {-1, 0, 1, 2}, to \in 0..3, text \in {<<"a">>, <<"b">>, <<"a", "b">>}}
ActCases ==
    {[SoundRecord EXCEPT !.nodes[1].node_type = type, !.nodes[1].act = act] :
        type \in DOMAIN Allowed, act \in UNION Range(Allowed)}
IdCases ==
    {[SoundRecord EXCEPT !.nodes[2].node_id = id, !.nodes[2].scope_id = scope, !.edges[1].source = source,
         !.scopes[2].scope_id = other, !.scopes[2].parent_scope_id = parent] :
        id \in 0..2, scope \in {Null} \cup 0..2, source \in 0..3, other \in 0..2, parent \in {Null} \cup 0..3}
StatusCases ==
    {[SoundRecord EXCEPT !.status = status, !.missing_outputs = outputs] :
        status \in {"COMPLETE", "PARTIAL", "FAILED"},
        outputs \in {<<>>, <<AnOutput>>, <<AnOutput, [AnOutput EXCEPT !.reason = <<>>]>>,
                     <<[AnOutput EXCEPT !.output_type = <<>>]>>}}
OtherCases ==
    {[SoundRecord EXCEPT !.schema_version = "2.0"], [SoundRecord EXCEPT !.query = <<>>],
     [SoundRecord EXCEPT !.nodes[1].text = <<>>], [SoundRecord EXCEPT !.nodes[1].source_spans = <<>>],
     [SoundRecord EXCEPT !.scopes[1].source_spans = <<>>], [SoundRecord EXCEPT !.scopes[1].node_ids = <<1, 1>>],
     [SoundRecord EXCEPT !.scopes[1].node_ids = <<1, 0, 3>>], [SoundRecord EXCEPT !.edges = Append(@, AnEdge(1, 2, 1))],
     [SoundRecord EXCEPT !.edges[1].edge_id = 0]}
Lacking(object, field) == [f \in DOMAIN object \ {field} |-> object[f]]
Undecodable ==
    {Lacking(SoundRecord, "nodes"), [f \in DOMAIN SoundRecord \cup {"note"} |-> IF f = "note" THEN Null ELSE SoundRecord[f]],
     Wrong, [SoundRecord EXCEPT !.nodes = Wrong], [SoundRecord EXCEPT !.query = Null],
     [SoundRecord EXCEPT !.status = Wrong], [SoundRecord EXCEPT !.parser_id = Wrong],
     [SoundRecord EXCEPT !.nodes[2] = Lacking(@, "act")], [SoundRecord EXCEPT !.nodes[2].act = Wrong],
     [SoundRecord EXCEPT !.nodes[1].source_spans[1].start = Wrong], [SoundRecord EXCEPT !.edges[1].relation = Wrong],
     [SoundRecord EXCEPT !.edges[1].source_spans = Wrong], [SoundRecord EXCEPT !.scopes[1] = Lacking(@, "parent_scope_id")],
     [SoundRecord EXCEPT !.scopes[1].node_ids = <<Wrong>>], [SoundRecord EXCEPT !.missing_outputs = <<Lacking(AnOutput, "reason")>>]}
Several ==
    {<<>>, <<Blank>>, <<Unparsable, Blank, SoundRecord>>, <<Wrong, Related({<<1, 2>>, <<2, 1>>}), SoundRecord>>,
     <<SoundRecord, Blank, SoundRecord>>, <<[SoundRecord EXCEPT !.query = <<>>], SoundRecord>>}
TestRecordFiles ==
    Several \cup {<<r>> : r \in SpanCases \cup ActCases \cup IdCases \cup StatusCases \cup OtherCases \cup Undecodable
                           \cup {Related(pairs) : pairs \in SUBSET ((1..3) \X (1..3))}
                           \cup {Nested(parent) : parent \in [1..3 -> {Null} \cup 1..3]}}
-----------------------------------------------------------------------------
(* A draft of two cases, and edits of one file or of one after another      *)

TestFacetNames == {"MATERIAL", "DEADLINE"}
AFacet(name, binding) == [facet |-> name, binding |-> binding, quoted |-> TRUE]
ADraft(id, query, facets) == [id |-> id, query |-> query, facets |-> facets, accepted |-> FALSE]
SoundDraft == <<ADraft("c2", 1, <<AFacet("MATERIAL", "BOUND"), AFacet("DEADLINE", "UNBOUND")>>), ADraft("c1", 2, <<>>)>>
TestDrafts == {SoundDraft, [SoundDraft EXCEPT ![2].query = 1], [SoundDraft EXCEPT ![1].facets[1].quoted = FALSE]}

EditsOfRecords(r) ==
    {Nil, <<Nil>> \o r, <<r[1], Nil, r[2]>>, <<r[2], r[1]>>, Append(r, r[1]),
     [r EXCEPT ![1].status = "COMPLETE"], [r EXCEPT ![2] = Bad], [r EXCEPT ![2].outputs = <<"act">>]}
EditsOfAccepted(a) ==
    {Nil, [a EXCEPT !.safe = FALSE], [a EXCEPT !.cases = <<a.cases[2], a.cases[1]>>],
     [a EXCEPT !.cases[1].facets[1].binding = "UNBOUND"], [a EXCEPT !.cases[1].facets[1].quoted = FALSE],
     [a EXCEPT !.cases[2].line = 1], [a EXCEPT !.cases[2].unresolved = <<>>],
     [a EXCEPT !.cases = <<a.cases[1]>>, !.count = 1],
     [a EXCEPT !.cases[1].facets = Tail(@), !.instances = 1], [a EXCEPT !.instances = 1]}
EditsOfConfirmation(c) ==
    {Nil, [c EXCEPT !.mappings[1].bindings["MATERIAL"] = "UNBOUND"], [c EXCEPT !.order = <<c.order[2], c.order[1]>>],
     [c EXCEPT !.mappings = <<c.mappings[2], c.mappings[1]>>], [c EXCEPT !.rejected = 1], [c EXCEPT !.version = 2],
     [c EXCEPT !.mappings[1].labels = <<"DEADLINE">>], [c EXCEPT !.definitions = 1], [c EXCEPT !.instances = 1]}
EditsOfManifest(m) ==
    {Nil, [m EXCEPT !.entries = Tail(@)], [m EXCEPT !.entries = Append(@, <<"records", Nil>>)], [m EXCEPT !.count = 1]}

\* A file is edited, the confirmation follows an edit of what it confirms, the manifest
\* that of what it lists; or the file is what it was at first.
Original(file) == CASE file = "records" -> FrozenRecords(SoundDraft)
                 [] file = "accepted" -> FrozenAccepted(SoundDraft, 1)
                 [] file = "confirmation" -> FrozenConfirmation(FrozenAccepted(SoundDraft, 1), 1, FrozenRecords(SoundDraft))
                 [] file = "proposal" -> 1
                 [] file = "manifest" -> Nil
Complete(f) == \A file \in FacetFiles : f[file] # Nil
TestEditsOf(f, file) ==
    IF ~Complete(f) THEN {}
    ELSE IF f[file] = Original(file) \/ (file = "manifest" /\ \A p \in Parsed : f[p] = Original(p))
    THEN CASE file = "records" -> EditsOfRecords(f.records)
           [] file = "accepted" -> EditsOfAccepted(f.accepted)
           [] file = "confirmation" -> EditsOfConfirmation(f.confirmation)
                \cup {FrozenConfirmation(f.accepted, f.proposal, f.records)}
           [] file = "proposal" -> {2}
           [] file = "manifest" -> EditsOfManifest(f.manifest)
    ELSE IF file = "manifest" THEN {FrozenManifest(f, f.accepted)} ELSE {Original(file)}
TestPredictionFiles ==
    {Nil, <<[id |-> "c1", facets |-> <<AFacet("MATERIAL", "BOUND")>>]>>,
     <<[id |-> "c1", facets |-> <<>>], [id |-> "c2", facets |-> <<AFacet("DEADLINE", "UNBOUND"), AFacet("MATERIAL", "BOUND")>>]>>,
     <<[id |-> "c2", facets |-> <<AFacet("MATERIAL", "UNBOUND")>>]>>, <<[id |-> "c3", facets |-> <<>>]>>}
-----------------------------------------------------------------------------
(* One part at a time                                                       *)

experimentsVars == <<part, requestVars, evaluationVars, contractVars, facetVars>>

ExperimentsInit ==
    /\ part \in {"requests", "retrieval", "records", "facets"}
    /\ RequestInit /\ EvaluationInit /\ ContractInit /\ FacetsInit

ExperimentsNext ==
    /\ UNCHANGED part
    /\ \/ /\ part = "requests"
          /\ RequestNext
          /\ UNCHANGED <<evaluationVars, contractVars, facetVars>>
       \/ /\ part = "retrieval"
          /\ EvaluationNext
          /\ UNCHANGED <<requestVars, contractVars, facetVars>>
       \/ /\ part = "records"
          /\ ContractNext
          /\ UNCHANGED <<requestVars, evaluationVars, facetVars>>
       \/ /\ part = "facets"
          /\ FacetsNext
          /\ UNCHANGED <<requestVars, evaluationVars, contractVars>>

ExperimentsSpec == ExperimentsInit /\ [][ExperimentsNext]_experimentsVars
================================================================================
