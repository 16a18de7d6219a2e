---------------------------- MODULE SemanticContract ----------------------------
(***************************************************************************)
(* The contract of a semantic parser: a file of records, one per line, is     *)
(* decoded strictly, every decoded record is checked against the query it     *)
(* parses, and the graphs of its relations and of its scopes are searched for  *)
(* a cycle, depth first and with a stack of its own.  A line that fails is     *)
(* reported and the next one is read.                                         *)
(*                                                                           *)
(* A text is a sequence of characters, an id a natural number in the order of  *)
(* the strings, 0 the empty one.  The checks of the types of a record's        *)
(* objects are those of decoding: the program validates decoded records only.  *)
(***************************************************************************)
EXTENDS Integers, SequencesExt, FiniteSetsExt

CONSTANTS
    RecordFiles,    \* sequences of lines: Blank, Unparsable, or a payload
    Blank,
    Unparsable,     \* a line that is no JSON
    Wrong,          \* a value of another type, or no member of its enumeration
    Null

VARIABLES
    checked,        \* the file, the line it is read to, and what was reported
    search          \* of the graph of one record

contractVars == <<checked, search>>

SpanFields == {"start", "end", "text"}
NodeFields == {"node_id", "node_type", "text", "source_spans", "act", "scope_id"}
EdgeFields == {"edge_id", "source", "target", "relation", "source_spans"}
ScopeFields == {"scope_id", "scope_type", "source_spans", "node_ids", "parent_scope_id"}
OutputFields == {"output_type", "reason", "source_spans"}
RecordFields == {"schema_version", "query", "status", "parser_id", "parser_revision",
                 "nodes", "edges", "scopes", "missing_outputs"}

SupportedVersion == "1.0"
Acting == {"USER_REQUEST", "REPORTED_ASSERTION"}
NodeTypes == Acting \cup {"ENTITY", "CONDITION"}
OfRequests == {"VERIFY_ASSERTION", "DENY_REQUEST"}
Acts == OfRequests \cup {"REPORT_ASSERTION"}

-----------------------------------------------------------------------------
(* Decoding                                                                 *)

\* A field nobody knows and a field that is not there are refused alike.
Object(value, fields) == value \notin {Wrong, Null} /\ DOMAIN value = fields

Typed(value) == value \notin {Wrong, Null}
TypedOrNull(value) == value # Wrong

Span(value) == Object(value, SpanFields) /\ \A f \in SpanFields : Typed(value[f])

Spans(value) == Typed(value) /\ \A i \in DOMAIN value : Span(value[i])

Texts(value) == Typed(value) /\ \A i \in DOMAIN value : Typed(value[i])

Node(value) ==
    /\ Object(value, NodeFields)
    /\ Typed(value.node_id) /\ Typed(value.node_type) /\ Typed(value.text)
    /\ Spans(value.source_spans)
    /\ TypedOrNull(value.act) /\ TypedOrNull(value.scope_id)

Edge(value) ==
    /\ Object(value, EdgeFields)
    /\ Typed(value.edge_id) /\ Typed(value.source) /\ Typed(value.target) /\ Typed(value.relation)
    /\ Spans(value.source_spans)

Scope(value) ==
    /\ Object(value, ScopeFields)
    /\ Typed(value.scope_id) /\ Typed(value.scope_type)
    /\ Spans(value.source_spans)
    /\ Texts(value.node_ids)
    /\ TypedOrNull(value.parent_scope_id)

MissingOutput(value) ==
    /\ Object(value, OutputFields)
    /\ Typed(value.output_type) /\ Typed(value.reason)
    /\ Spans(value.source_spans)

Decodes(payload) ==
    LET All(values, Is(_)) == Typed(values) /\ \A i \in DOMAIN values : Is(values[i])
    IN  /\ Object(payload, RecordFields)
        /\ Typed(payload.query) /\ Typed(payload.status) /\ Typed(payload.schema_version)
        /\ TypedOrNull(payload.parser_id) /\ TypedOrNull(payload.parser_revision)
        /\ All(payload.nodes, Node) /\ All(payload.edges, Edge)
        /\ All(payload.scopes, Scope) /\ All(payload.missing_outputs, MissingOutput)

Readable(line) == line \notin {Blank, Unparsable} /\ Decodes(line)

\* What decodes has lists of objects, ids in the order of numbers, and members of the
\* enumerations.
ASSUME ContractAssumption ==
    /\ Null \notin Nat \cup Acts \cup {"edges", "scopes"}
    /\ \A lines \in RecordFiles :
          /\ Len(lines) \in Nat /\ DOMAIN lines = 1..Len(lines)
          /\ \A r \in {line \in Range(lines) : Readable(line)} :
                /\ \A objects \in {r.nodes, r.edges, r.scopes} :
                      Len(objects) \in Nat /\ DOMAIN objects = 1..Len(objects)
                /\ \A node \in Range(r.nodes) :
                      /\ node.node_id \in Nat /\ node.node_type \in NodeTypes
                      /\ node.act \in Acts \cup {Null}
                /\ \A edge \in Range(r.edges) : {edge.edge_id, edge.source, edge.target} \subseteq Nat
                /\ \A scope \in Range(r.scopes) :
                      /\ scope.scope_id \in Nat /\ scope.parent_scope_id \in Nat \cup {Null}
                      /\ Len(scope.node_ids) \in Nat /\ DOMAIN scope.node_ids = 1..Len(scope.node_ids)

-----------------------------------------------------------------------------
(* Validation, but for the cycles                                           *)

\* An issue has a place, <<collection, index, field, index>>, and a code.
Issue(condition, place, code) == IF condition THEN {<<place, code>>} ELSE {}

SpanIssues(object, query, collection, i) ==
    UNION {LET span == object.source_spans[j]
               place == <<collection, i, "source_spans", j>>
               inside == 0 <= span.start /\ span.end <= Len(query)
               proper == span.start < span.end
           IN  Issue(~inside, place, "SPAN_OUT_OF_BOUNDS")
               \cup Issue(~proper, place, "SPAN_EMPTY_OR_REVERSED")
               \cup Issue(inside /\ proper /\ SubSeq(query, span.start + 1, span.end) # span.text,
                          place, "SPAN_TEXT_MISMATCH") : j \in DOMAIN object.source_spans}

\* An id is empty, or one of an earlier object.
IdIssues(ids, collection, i, field) ==
    Issue(ids[i] = 0, <<collection, i, field, 0>>, "EMPTY")
    \cup Issue(ids[i] # 0 /\ \E k \in 1..(i - 1) : ids[k] = ids[i],
               <<collection, i, field, 0>>, "DUPLICATE")

IdsOf(objects, field) == [i \in DOMAIN objects |-> objects[i][field]]
NodeIds(r) == Range(IdsOf(r.nodes, "node_id")) \ {0}
ScopeIds(r) == Range(IdsOf(r.scopes, "scope_id")) \ {0}

HeaderIssues(r) ==
    Issue(r.schema_version # SupportedVersion, <<"record", 0, "schema_version", 0>>,
          "UNSUPPORTED_SCHEMA_VERSION")
    \cup Issue(r.query = <<>>, <<"record", 0, "query", 0>>, "EMPTY_QUERY")

\* The ids a scope lists are of nodes, each once.
ListedIssues(r, i) ==
    UNION {LET ids == r.scopes[i].node_ids
               place == <<"scopes", i, "node_ids", j>>
           IN  Issue(ids[j] = 0, place, "EMPTY_SCOPE_NODE_ID")
               \cup Issue(ids[j] # 0 /\ \E k \in 1..(j - 1) : ids[k] = ids[j],
                          place, "DUPLICATE_SCOPE_NODE_ID")
               \cup Issue(ids[j] \notin NodeIds(r), place, "DANGLING_SCOPE_NODE")
           : j \in DOMAIN r.scopes[i].node_ids}

ScopeIssues(r, i) ==
    LET scope == r.scopes[i]
        Place(field) == <<"scopes", i, field, 0>>
    IN  IdIssues(IdsOf(r.scopes, "scope_id"), "scopes", i, "scope_id")
        \cup Issue(scope.source_spans = <<>>, Place("source_spans"), "SCOPE_SOURCE_SPAN_REQUIRED")
        \cup SpanIssues(scope, r.query, "scopes", i)
        \cup ListedIssues(r, i)
        \cup Issue(scope.parent_scope_id = scope.scope_id, Place("parent_scope_id"), "SCOPE_SELF_PARENT")
        \cup Issue(scope.parent_scope_id \notin {scope.scope_id, Null} \cup ScopeIds(r),
                   Place("parent_scope_id"), "DANGLING_SCOPE_PARENT")

\* What a user asks for is never what somebody is reported to have said.
ActIssues(node, place) ==
    Issue(node.node_type \in Acting /\ node.act = Null, place, "SEMANTIC_ACT_REQUIRED")
    \cup Issue(\/ node.act \in OfRequests /\ node.node_type # "USER_REQUEST"
               \/ node.act = "REPORT_ASSERTION" /\ node.node_type # "REPORTED_ASSERTION",
               place, "ACT_NODE_TYPE_MISMATCH")

NodeIssues(r, i) ==
    LET node == r.nodes[i]
        Place(field) == <<"nodes", i, field, 0>>
    IN  IdIssues(IdsOf(r.nodes, "node_id"), "nodes", i, "node_id")
        \cup Issue(node.text = <<>>, Place("text"), "NODE_TEXT_REQUIRED")
        \cup Issue(node.source_spans = <<>>, Place("source_spans"), "NODE_SOURCE_SPAN_REQUIRED")
        \cup SpanIssues(node, r.query, "nodes", i)
        \cup ActIssues(node, Place("act"))
        \cup Issue(node.scope_id = 0, Place("scope_id"), "EMPTY_NODE_SCOPE_ID")
        \cup Issue(node.scope_id \notin {0, Null} \cup ScopeIds(r), Place("scope_id"), "DANGLING_NODE_SCOPE")

EdgeIssues(r, i) ==
    LET Dangling(end, code) ==
            Issue(r.edges[i][end] \notin NodeIds(r), <<"edges", i, end, 0>>, code)
    IN  IdIssues(IdsOf(r.edges, "edge_id"), "edges", i, "edge_id")
        \cup Dangling("source", "DANGLING_EDGE_SOURCE")
        \cup Dangling("target", "DANGLING_EDGE_TARGET")
        \cup SpanIssues(r.edges[i], r.query, "edges", i)

MissingIssues(r, i) ==
    LET output == r.missing_outputs[i]
        Place(field) == <<"missing_outputs", i, field, 0>>
    IN  Issue(output.output_type = <<>>, Place("output_type"), "MISSING_OUTPUT_KIND_REQUIRED")
        \cup Issue(output.reason = <<>>, Place("reason"), "MISSING_OUTPUT_REASON_REQUIRED")
        \cup SpanIssues(output, r.query, "missing_outputs", i)

StatusIssues(r) ==
    LET place == <<"record", 0, "missing_outputs", 0>>
    IN  Issue(r.status = "COMPLETE" /\ r.missing_outputs # <<>>, place, "MISSING_OUTPUT_STATUS_MISMATCH")
        \cup Issue(r.status # "COMPLETE" /\ r.missing_outputs = <<>>, place, "MISSING_OUTPUTS_REQUIRED")

LocalIssues(r) ==
    HeaderIssues(r)
    \cup (UNION {ScopeIssues(r, i) : i \in DOMAIN r.scopes})
    \cup (UNION {NodeIssues(r, i) : i \in DOMAIN r.nodes})
    \cup (UNION {EdgeIssues(r, i) : i \in DOMAIN r.edges})
    \cup (UNION {MissingIssues(r, i) : i \in DOMAIN r.missing_outputs})
    \cup StatusIssues(r)

\* The targets of every id: one listed twice is followed once, the second time it was
\* left.
Graph(links, ids) ==
    [id \in ids |-> {links[i].target : i \in {k \in DOMAIN links : links[k].source = id}} \cap ids]
RelationGraph(r) == Graph(r.edges, NodeIds(r))
ScopeGraph(r) ==
    Graph([i \in DOMAIN r.scopes |->
              [source |-> r.scopes[i].scope_id, target |-> r.scopes[i].parent_scope_id]],
          ScopeIds(r))

-----------------------------------------------------------------------------
(* The search for a cycle                                                   *)

NoSearch == [of |-> Null, graph |-> <<>>, colors |-> <<>>, stack |-> <<>>, frames |-> <<>>,
             cycle |-> <<>>]

SearchOf(of, graph) ==
    [NoSearch EXCEPT !.of = of, !.graph = graph, !.colors = [id \in DOMAIN graph |-> 0]]

\* An id is opened: it is on the path, and its targets are to be followed.
Opened(s, id) ==
    [s EXCEPT !.colors[id] = 1, !.stack = Append(@, id), !.frames = Append(@, s.graph[id])]

Unvisited(s) == {id \in DOMAIN s.graph : s.colors[id] = 0}

Underway == search.of # Null /\ search.cycle = <<>>

OpenRoot ==
    /\ Underway /\ search.frames = <<>> /\ Unvisited(search) # {}
    /\ search' = Opened(search, Min(Unvisited(search)))
    /\ UNCHANGED checked

\* The least target that is left of the last id of the path.
IsNext(target) ==
    /\ Underway /\ search.frames # <<>> /\ Last(search.frames) # {}
    /\ target = Min(Last(search.frames))

Taken(target) == [search EXCEPT !.frames[Len(search.frames)] = @ \ {target}]

\* Mutant: an id that was left counts as one on the path.
FollowAnyVisited(target) ==
    LET s == Taken(target)
    IN  /\ IsNext(target)
        /\ search' = IF s.colors[target] # 0
                     THEN [s EXCEPT !.cycle = Append(s.stack, target)]
                     ELSE Opened(s, target)
        /\ UNCHANGED checked

\* The path from an id on leads back to it.
CycleFound(s, target) ==
    LET from == CHOOSE i \in DOMAIN s.stack : s.stack[i] = target
    IN  [s EXCEPT !.cycle = Append(SubSeq(s.stack, from, Len(s.stack)), target)]

\* The next target: the cycle ends, it is opened, or it was left before.
Follow(target) ==
    LET s == Taken(target)
    IN  /\ IsNext(target)
        /\ \/ s.colors[target] = 1 /\ search' = CycleFound(s, target)
           \/ s.colors[target] = 0 /\ search' = Opened(s, target)
           \/ s.colors[target] = 2 /\ search' = s
        /\ UNCHANGED checked

Backtrack ==
    /\ Underway /\ search.frames # <<>> /\ Last(search.frames) = {}
    /\ search' = [search EXCEPT !.colors[Last(search.stack)] = 2,
                                !.stack = Front(@), !.frames = Front(@)]
    /\ UNCHANGED checked

SearchEnds ==
    /\ search.of # Null
    /\ \/ search.cycle # <<>>
       \/ search.frames = <<>> /\ Unvisited(search) = {}

-----------------------------------------------------------------------------
(* Checking a file                                                          *)

NothingChecked == [phase |-> "idle", lines |-> <<>>, at |-> 0, count |-> 0, valid |-> 0,
                   invalid |-> 0, partial |-> 0, errors |-> {}, issues |-> {}, cycles |-> {}]

ContractInit == checked = NothingChecked /\ search = NoSearch

CheckFile(lines) ==
    /\ checked.phase = "idle"
    /\ checked' = [NothingChecked EXCEPT !.phase = "reading", !.lines = lines]
    /\ UNCHANGED search

\* The file cannot be read or is not of its encoding.
ReadFails ==
    /\ checked.phase = "idle"
    /\ checked' = [NothingChecked EXCEPT !.phase = "failed",
                      !.errors = {<<0, <<"input", 0, "", 0>>, "INPUT_READ_ERROR">>}]
    /\ UNCHANGED search

NextLine == checked.lines[checked.at + 1]
Reading == checked.phase = "reading" /\ search = NoSearch /\ checked.at < Len(checked.lines)

SkipBlank ==
    /\ Reading /\ NextLine = Blank
    /\ checked' = [checked EXCEPT !.at = @ + 1]
    /\ UNCHANGED search

Reported(issues) == {<<checked.at + 1, issue[1], issue[2]>> : issue \in issues}

RejectLine ==
    LET code == IF NextLine = Unparsable THEN "INVALID_JSON" ELSE "CONTRACT_DECODE_ERROR"
    IN  /\ Reading /\ NextLine # Blank /\ ~Readable(NextLine)
        /\ checked' = [checked EXCEPT !.at = @ + 1, !.count = @ + 1, !.invalid = @ + 1,
                          !.errors = @ \cup Reported({<<<<"line", 0, "", 0>>, code>>})]
        /\ UNCHANGED search

ValidateLine ==
    /\ Reading /\ Readable(NextLine)
    /\ checked' = [checked EXCEPT !.count = @ + 1,
                      !.partial = @ + (IF NextLine.missing_outputs = <<>> THEN 0 ELSE 1),
                      !.issues = LocalIssues(NextLine)]
    /\ search' = SearchOf("edges", RelationGraph(NextLine))

\* The relations are searched, then the scopes; then the record is counted.
EndSearch ==
    LET code == IF search.of = "edges" THEN "RELATION_CYCLE" ELSE "SCOPE_CYCLE"
        issues == checked.issues
                  \cup Issue(search.cycle # <<>>, <<"record", 0, search.of, 0>>, code)
        cycles == IF search.cycle = <<>> THEN checked.cycles
                  ELSE checked.cycles \cup {[line |-> checked.at + 1, graph |-> search.graph,
                                             path |-> search.cycle]}
    IN  /\ SearchEnds
        /\ IF search.of = "edges"
           THEN /\ checked' = [checked EXCEPT !.issues = issues, !.cycles = cycles]
                /\ search' = SearchOf("scopes", ScopeGraph(NextLine))
           ELSE /\ checked' = [checked EXCEPT !.at = @ + 1, !.issues = {}, !.cycles = cycles,
                                  !.errors = @ \cup Reported(issues),
                                  !.valid = @ + (IF issues = {} THEN 1 ELSE 0),
                                  !.invalid = @ + (IF issues = {} THEN 0 ELSE 1)]
                /\ search' = NoSearch

EndFile ==
    LET errors == checked.errors
                  \cup (IF checked.count = 0 THEN {<<0, <<"input", 0, "", 0>>, "NO_RECORDS">>} ELSE {})
    IN  /\ checked.phase = "reading" /\ search = NoSearch /\ checked.at = Len(checked.lines)
        /\ checked' = [checked EXCEPT !.errors = errors,
                          !.phase = IF errors = {} THEN "passed" ELSE "failed"]
        /\ UNCHANGED search

ContractNext ==
    \/ checked.phase = "idle" /\ \E lines \in RecordFiles : CheckFile(lines)
    \/ ReadFails
    \/ SkipBlank
    \/ RejectLine
    \/ ValidateLine
    \/ OpenRoot
    \/ \E target \in DOMAIN search.graph : Follow(target)
    \/ Backtrack
    \/ EndSearch
    \/ EndFile

ContractSpec == ContractInit /\ [][ContractNext]_contractVars

-----------------------------------------------------------------------------
(* Properties                                                               *)

\* Some ids each of which leads to another of them.
Cyclic(graph) ==
    \E ids \in (SUBSET DOMAIN graph) \ {{}} :
        \A id \in ids : graph[id] \cap ids # {}

OnCycle(graph, path) ==
    /\ Len(path) > 1 /\ Head(path) = Last(path)
    /\ \A i \in 1..(Len(path) - 1) : path[i + 1] \in graph[path[i]]

Allowed ==
    [USER_REQUEST |-> {"VERIFY_ASSERTION", "DENY_REQUEST"},
     REPORTED_ASSERTION |-> {"REPORT_ASSERTION"}, ENTITY |-> {Null}, CONDITION |-> {Null}]

\* What the interface says of a record.
Distinct(ids) == 0 \notin Range(ids) /\ IsInjective(ids)
SoundSpans(object, query) ==
    \A i \in DOMAIN object.source_spans :
        LET span == object.source_spans[i]
        IN  /\ 0 <= span.start /\ span.start < span.end /\ span.end <= Len(query)
            /\ SubSeq(query, span.start + 1, span.end) = span.text
Sourced(object, query) == object.source_spans # <<>> /\ SoundSpans(object, query)

SoundNode(node, r) ==
    /\ Sourced(node, r.query) /\ node.text # <<>> /\ node.act \in Allowed[node.node_type]
    /\ node.scope_id \in {Null} \cup ScopeIds(r)
SoundEdge(edge, r) == SoundSpans(edge, r.query) /\ {edge.source, edge.target} \subseteq NodeIds(r)
SoundScope(scope, r) ==
    /\ Sourced(scope, r.query) /\ Distinct(scope.node_ids) /\ Range(scope.node_ids) \subseteq NodeIds(r)
    /\ scope.parent_scope_id \in {Null} \cup ScopeIds(r)
SoundOutput(output, r) == SoundSpans(output, r.query) /\ output.output_type # <<>> /\ output.reason # <<>>

WellFormed(r) ==
    /\ r.schema_version = SupportedVersion /\ r.query # <<>>
    /\ Distinct(IdsOf(r.nodes, "node_id")) /\ Distinct(IdsOf(r.edges, "edge_id"))
    /\ Distinct(IdsOf(r.scopes, "scope_id"))
    /\ \A i \in DOMAIN r.nodes : SoundNode(r.nodes[i], r)
    /\ \A i \in DOMAIN r.edges : SoundEdge(r.edges[i], r)
    /\ \A i \in DOMAIN r.scopes : SoundScope(r.scopes[i], r)
    /\ \A i \in DOMAIN r.missing_outputs : SoundOutput(r.missing_outputs[i], r)
    /\ (r.status = "COMPLETE") = (r.missing_outputs = <<>>)
    /\ ~Cyclic(RelationGraph(r)) /\ ~Cyclic(ScopeGraph(r))

\* A file passes when it has a record and every line that is not blank is one the
\* interface allows (docs/gate_v3/SEMANTIC_INTERFACE.md); every other line is reported,
\* and no sound one; the cycle of a graph is reported exactly when it has one, whatever
\* else is wrong with the record, and what is reported is a way round it.
ContractIsExact ==
    LET records == {l \in DOMAIN checked.lines : checked.lines[l] # Blank}
        Sound(l) == Readable(checked.lines[l]) /\ WellFormed(checked.lines[l])
        CycleReported(l, code) == \E e \in checked.errors : e[1] = l /\ e[3] = code
    IN  checked.phase \in {"passed", "failed"} /\ checked.lines # <<>> =>
            /\ (checked.phase = "passed") <=> (records # {} /\ \A l \in records : Sound(l))
            /\ \A l \in records : Sound(l) <=> ~\E e \in checked.errors : e[1] = l
            /\ checked.count = Cardinality(records)
            /\ checked.valid = Cardinality({l \in records : Sound(l)})
            /\ checked.invalid = checked.count - checked.valid
            /\ \A l \in records :
                  Readable(checked.lines[l]) =>
                      /\ CycleReported(l, "RELATION_CYCLE") <=> Cyclic(RelationGraph(checked.lines[l]))
                      /\ CycleReported(l, "SCOPE_CYCLE") <=> Cyclic(ScopeGraph(checked.lines[l]))
            /\ \A c \in checked.cycles : OnCycle(c.graph, c.path)
==================================================================================
