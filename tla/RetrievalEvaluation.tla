--------------------------- MODULE RetrievalEvaluation ---------------------------
(***************************************************************************)
(* The offline experiments on retrieval: every judged query is put to the    *)
(* four channels, the candidates of the three that have some are traced, and *)
(* a report of the whole is published unless the code, the inputs or the     *)
(* corpus changed while it was measured.  Four kinds of experiment share the *)
(* runner:                                                                   *)
(*   evidence  measures a data set and leaves an archive;                    *)
(*   coverage  measures the confirmed queries, and lets linked chunks take    *)
(*             the last place of a ranking;                                  *)
(*   windows   measures the confirmed queries with two candidate windows and  *)
(*             says where a judged chunk was lost;                           *)
(*   replay    lets linked chunks take the last place in an archive.         *)
(* Somebody edits the repository meanwhile, and any call may fail.           *)
(*                                                                           *)
(* A case holds the whole ranking of either source; the metrics are whole     *)
(* numbers: sixtieths, and thousandths for the discounted gain.              *)
(***************************************************************************)
EXTENDS PolicySearch

CONSTANTS
    PolicyChunks,   \* of the frozen corpus: id, title and words
    Visible,        \* the ids the evaluated identity may see
    LinkRules,      \* what a chunk and the one it depends on are recognised by
    CaseLists,      \* lists of cases
    Windows,        \* the two candidate windows, the smaller one first
    AnchorTopK,     \* places whose chunks bring others in
    PreserveTopK,   \* places nobody takes
    MaxFaults,      \* failing calls
    MaxEdits        \* changes of the repository

\* A case holds rankings of chunks that all have a relevance, and judges finitely many;
\* either window is at least as large as what a search returns.
ASSUME EvaluationAssumption ==
    /\ TopK \in Nat /\ AnchorTopK \in Nat /\ PreserveTopK \in Nat /\ Absent \notin Nat
    /\ IsFiniteSet(PolicyChunks) /\ IsFiniteSet(DOMAIN LinkRules)
    /\ Windows \in [1..2 -> Nat] /\ \A w \in 1..2 : TopK <= Windows[w]
    /\ \A cases \in CaseLists :
          /\ Len(cases) \in Nat /\ DOMAIN cases = 1..Len(cases)
          /\ \A case \in Range(cases) :
                /\ IsFiniteSet(DOMAIN case.judgments)
                /\ \A ranking \in {case.vector, case.keyword} :
                      /\ ranking \in Seq(Int \X Int)
                      /\ \A i \in DOMAIN ranking :
                            /\ case.relevance[ranking[i]] \in Int
                            /\ \A j \in DOMAIN ranking : ranking[i] = ranking[j] => i = j

VARIABLES
    world,          \* the versions of code, models, inputs and corpus that are on disk
    edits,
    faults,
    experiment,
    early           \* the passes whose own report is on disk already

evaluationVars == <<world, edits, faults, experiment, early>>

Traceable == {"vector", "bm25", "hybrid"}
Channels == Traceable \cup {"reranked"}

\* The version everything was frozen at.
Frozen == 1

-----------------------------------------------------------------------------
(* Metrics                                                                  *)

RecallAtK(ids, relevant) ==
    (60 * Cardinality(Range(Cut(ids, TopK)) \cap relevant)) \div Cardinality(relevant)

FirstRelevant(ids, relevant) ==
    LET hits == {i \in DOMAIN Cut(ids, TopK) : ids[i] \in relevant}
    IN  IF hits = {} THEN Absent ELSE Min(hits)

\* 1000 / log2(rank + 1).
Discount == <<1000, 631, 500, 431, 387>>
Gain(grades) == Total([r \in DOMAIN grades |-> (2^grades[r] - 1) * Discount[r]])

Ndcg(ids, judgments) ==
    LET best == SetToSortSeq(DOMAIN judgments, LAMBDA a, b : \/ judgments[a] > judgments[b]
                                                             \/ judgments[a] = judgments[b] /\ Precedes(a, b))
        Grade(id) == IF id \in DOMAIN judgments THEN judgments[id] ELSE 0
        Grades(ranking) == [r \in DOMAIN Cut(ranking, TopK) |-> Grade(ranking[r])]
    IN  (1000 * Gain(Grades(ids))) \div Gain(Grades(best))

Measured(ids, judgments) ==
    [recall |-> RecallAtK(ids, DOMAIN judgments),
     rr     |-> IF FirstRelevant(ids, DOMAIN judgments) = Absent THEN 0
                ELSE 60 \div FirstRelevant(ids, DOMAIN judgments),
     ndcg   |-> Ndcg(ids, judgments)]

UniqueIds(ids, allowed, limit) ==
    Len(ids) <= limit /\ Cardinality(Range(ids)) = Len(ids) /\ Range(ids) \subseteq allowed

-----------------------------------------------------------------------------
(* The runner                                                               *)

\* What the retriever finds for every case, with every window.
Answered ==
    [case \in UNION {Range(cases) : cases \in CaseLists} |-> [window \in Range(Windows) |->
        LET vector == Cut(case.vector, window)
            bm25 == Cut(case.keyword, window)
            hybrid == Cut(Fused(vector, bm25), window)
        IN  [vector |-> vector, bm25 |-> bm25, hybrid |-> hybrid,
             reranked |-> Reranked(hybrid, case.relevance)]]]

Candidates(case, window) == [c \in Traceable |-> Answered[case][window][c]]

Retrieved(case, channel, window) == Cut(Answered[case][window][channel], TopK)

\* A call that fails is reported with nothing retrieved.
ChannelResult(case, channel, window, failed) ==
    [ids   |-> IF channel \in failed THEN <<>> ELSE Retrieved(case, channel, window),
     error |-> channel \in failed]

NoTrace == [c \in Traceable |-> <<>>]

\* What is recorded of a query replaces what was recorded of it before.
Traced(before, case, window, failed) ==
    [c \in Traceable |-> IF c \in failed THEN before[c] ELSE Candidates(case, window)[c]]

Average(cases, rows, channel) ==
    LET scores == [i \in DOMAIN rows |-> Measured(rows[i].results[channel].ids, cases[i].judgments)]
    IN  [recall |-> Total([i \in DOMAIN rows |-> scores[i].recall]),
         rr     |-> Total([i \in DOMAIN rows |-> scores[i].rr]),
         ndcg   |-> Total([i \in DOMAIN rows |-> scores[i].ndcg])]

\* Mutant: a failing query does not count.
SummaryOfSuccessful(cases, rows, channel) ==
    [count |-> Cardinality({i \in DOMAIN rows : ~rows[i].results[channel].error}),
     score |-> Average(cases, rows, channel), errors |-> 0]

Summary(cases, rows, channel) ==
    [count  |-> Len(rows),
     score  |-> Average(cases, rows, channel),
     errors |-> Cardinality({i \in DOMAIN rows : rows[i].results[channel].error})]

Summaries(cases, rows) == [c \in Channels |-> Summary(cases, rows, c)]

-----------------------------------------------------------------------------
(* Linked chunks                                                            *)

Source(rule, chunk) == rule.title \in chunk.title /\ rule.words \subseteq chunk.words

Target(rule, source, chunk) ==
    /\ chunk.id[1] = source.id[1] /\ chunk.id # source.id
    /\ chunk.title = rule.targetTitle
    /\ rule.targetWords \subseteq chunk.words

\* Two targets of one source stop the experiment.
Ambiguous ==
    \E rule \in Range(LinkRules), source \in PolicyChunks :
        Source(rule, source) /\ Cardinality({c \in PolicyChunks : Target(rule, source, c)}) > 1

\* In the order of the sources, then of the rules.
Links ==
    LET found == {l \in PolicyChunks \X (DOMAIN LinkRules) \X PolicyChunks :
                      Source(LinkRules[l[2]], l[1]) /\ Target(LinkRules[l[2]], l[1], l[3])}
        order == InOrder(found, {p \in found \X found : \/ Precedes(p[1][1].id, p[2][1].id)
                                                        \/ p[1][1] = p[2][1] /\ p[1][2] < p[2][2]})
    IN  [i \in DOMAIN order |-> [source |-> order[i][1].id, target |-> order[i][3].id]]

\* Anchors in their order, for each the links in theirs; the first that brings a
\* chunk in takes the last place.
SelectCoverage(baseline, pool) ==
    LET options == {o \in (DOMAIN Cut(baseline, AnchorTopK)) \X (DOMAIN Links) :
                       /\ Links[o[2]].source = baseline[o[1]]
                       /\ Links[o[2]].target \notin Range(baseline)
                       /\ Links[o[2]].target \in Range(pool) \cap Visible}
        First(o) == \A p \in options : o[1] < p[1] \/ (o[1] = p[1] /\ o[2] <= p[2])
    IN  IF options = {} THEN baseline
        ELSE Append(Cut(baseline, PreserveTopK), Links[(CHOOSE o \in options : First(o))[2]].target)

Selectable(baseline, pool, window) ==
    UniqueIds(pool, Visible, window) /\ UniqueIds(baseline, Range(pool), TopK)

\* A query whose reranking failed keeps its row, without scores.
CoverageRow(case, row) ==
    LET baseline == row.results["reranked"].ids
        pool == row.trace.hybrid
        selected == SelectCoverage(baseline, pool)
    IN  IF row.results["reranked"].error
        THEN [error |-> TRUE, baseline |-> baseline, pool |-> pool, selected |-> <<>>,
              scores |-> Absent]
        ELSE [error |-> FALSE, baseline |-> baseline, pool |-> pool, selected |-> selected,
              scores |-> Measured(selected, case.judgments)]

CoverageRefused(row, window) ==
    ~row.results["reranked"].error
    /\ ~Selectable(row.results["reranked"].ids, row.trace.hybrid, window)

CoverageScore(rows) ==
    LET scores == [i \in DOMAIN rows |-> rows[i].scores]
    IN  [count |-> Len(rows), recall |-> Total([i \in DOMAIN rows |-> scores[i].recall]),
         rr |-> Total([i \in DOMAIN rows |-> scores[i].rr]),
         ndcg |-> Total([i \in DOMAIN rows |-> scores[i].ndcg])]

\* There is one only when every query has scores.
CoverageSummary(rows) ==
    IF \E i \in DOMAIN rows : rows[i].error THEN {} ELSE {CoverageScore(rows)}

-----------------------------------------------------------------------------
(* Where a judged chunk was lost                                            *)

RankOf(ids, id) ==
    LET places == {i \in DOMAIN ids : ids[i] = id}
    IN  IF places = {} THEN Absent ELSE Min(places)

RankedSources == {"vector", "bm25"}

\* The fusion of what either source contributed, before it is cut to the window.
FullFusion(row) == Fused(row.trace.vector, row.trace.bm25)

SourceRefused(row, source, window) ==
    /\ ~row.results[source].error
    /\ \/ ~UniqueIds(row.trace[source], Visible, window)
       \/ ~(Range(row.results[source].ids) \subseteq Range(row.trace[source]))
       \/ source \notin row.unscanned /\ ~(Range(row.trace[source]) \subseteq Range(row.full[source]))

FusionRefused(row, window) ==
    /\ ~row.results["hybrid"].error \/ ~row.results["reranked"].error
    /\ \/ ~UniqueIds(row.trace.hybrid, Visible, window)
       \/ \E c \in {"hybrid", "reranked"} :
             ~(Range(row.results[c].ids) \subseteq Range(row.trace.hybrid))

\* The checks a row has to pass; one that fails ends the experiment.
RowRefused(row, window) ==
    \/ \E source \in RankedSources : SourceRefused(row, source, window)
    \/ FusionRefused(row, window)
    \/ /\ row.trace.hybrid # <<>> /\ row.unscanned = {}
       /\ row.trace.hybrid # Cut(FullFusion(row), window)

Ranks(row, id) ==
    [vector   |-> <<RankOf(row.full.vector, id), RankOf(row.trace.vector, id),
                    RankOf(row.results["vector"].ids, id)>>,
     bm25     |-> <<RankOf(row.full.bm25, id), RankOf(row.trace.bm25, id),
                    RankOf(row.results["bm25"].ids, id)>>,
     hybrid   |-> <<RankOf(FullFusion(row), id), RankOf(row.trace.hybrid, id),
                    RankOf(row.results["hybrid"].ids, id)>>,
     reranked |-> <<RankOf(row.trace.hybrid, id), RankOf(row.trace.hybrid, id),
                    RankOf(row.results["reranked"].ids, id)>>]

\* How many judged chunks a stage still had, and Absent where that is not known.
CandidateRecall(case, row) ==
    LET Known(c) == ~row.results[c].error /\ (IF c = "hybrid" THEN RankedSources ELSE {c}) \cap row.unscanned = {}
        Found(c, ids) == IF Known(c) THEN Cardinality(Range(ids) \cap DOMAIN case.judgments) ELSE Absent
    IN  [vector |-> Found("vector", row.trace.vector), bm25 |-> Found("bm25", row.trace.bm25),
         fused  |-> Found("hybrid", FullFusion(row)), hybrid |-> Found("hybrid", row.trace.hybrid)]

DiagnosticRow(case, row) ==
    [results |-> row.results, trace |-> row.trace, unscanned |-> row.unscanned,
     ranks |-> [id \in DOMAIN case.judgments |-> Ranks(row, id)],
     recall |-> CandidateRecall(case, row),
     worse |-> {m \in {"recall", "rr", "ndcg"} :
                    Measured(row.results["reranked"].ids, case.judgments)[m]
                        < Measured(row.results["hybrid"].ids, case.judgments)[m]}]

CandidateCoverage(rows, stage) ==
    LET known == {i \in DOMAIN rows : rows[i].recall[stage] # Absent}
    IN  [count |-> Cardinality(known), found |-> Total([i \in known |-> rows[i].recall[stage]]),
         errors |-> Len(rows) - Cardinality(known)]

\* Only of the rows where both rankings were made.
Regressions(rows) ==
    {i \in DOMAIN rows : /\ ~rows[i].results["hybrid"].error /\ ~rows[i].results["reranked"].error
                         /\ rows[i].worse # {}}

WindowSummary(cases, rows) ==
    [channels |-> Summaries(cases, rows),
     coverage |-> [s \in {"vector", "bm25", "fused", "hybrid"} |-> CandidateCoverage(rows, s)],
     unscanned |-> Cardinality({i \in DOMAIN rows : rows[i].unscanned # {}}),
     regressions |-> Regressions(rows)]

\* What the larger window changed.
WindowsCompared(passes, summaries) ==
    [c \in Channels |->
        [gained  |-> summaries[2].channels[c].score.recall - summaries[1].channels[c].score.recall,
         errors  |-> summaries[2].channels[c].errors - summaries[1].channels[c].errors,
         changed |-> {i \in DOMAIN passes[1] :
                         passes[1][i].results[c].ids # passes[2][i].results[c].ids}]]

-----------------------------------------------------------------------------
(* An experiment                                                            *)

WindowsOf(kind) == IF kind = "windows" THEN Windows ELSE <<Head(Windows)>>

Unbegun == [kind |-> Absent, real |-> FALSE, cases |-> <<>>, phase |-> "idle", source |-> Frozen,
            inputs |-> Frozen, corpora |-> <<>>, trace |-> <<>>, passes |-> <<>>,
            failed |-> {}, report |-> Absent]

EvaluationInit ==
    /\ world = [source |-> Frozen, models |-> Frozen, inputs |-> Frozen, corpus |-> Frozen]
    /\ edits = 0
    /\ faults = 0
    /\ experiment = Unbegun
    /\ early = {}

\* Somebody changes a file of the repository, or changes it back.  The models are read
\* at the beginning only, and so are the inputs but those of an evidence run.
Edit(what) ==
    /\ edits < MaxEdits
    /\ what = "models" => experiment.phase = "idle"
    /\ what = "inputs" => experiment.phase = "idle" \/ experiment.kind = "evidence"
    /\ edits' = edits + 1
    /\ world' = [world EXCEPT ![what] = 3 - @]
    /\ UNCHANGED <<faults, experiment, early>>

Ended == {"completed", "incomplete", "blocked"}
Blocked == [experiment EXCEPT !.phase = "blocked"]

Judged(cases) == \A i \in DOMAIN cases : DOMAIN cases[i].judgments # {} /\ DOMAIN cases[i].judgments \subseteq Visible

\* The data set of an evidence run is pinned by its protocol, the confirmed inputs by
\* their freeze.
InputsRefused(kind, cases) ==
    world.inputs # Frozen \/ (kind # "evidence" /\ ~Judged(cases))

\* Real models are those of the lock; the lock is that of the freeze.
ModelsRefused(real) == real /\ world.models # Frozen

\* Files are read and checked before anything is measured.
LoadInputs(kind, real, cases) ==
    /\ experiment.phase = "idle"
    /\ experiment' =
          [Unbegun EXCEPT !.kind = kind, !.real = real, !.cases = cases,
              !.source = world.source, !.inputs = world.inputs,
              !.phase = IF InputsRefused(kind, cases) \/ ModelsRefused(real)
                        THEN "blocked" ELSE "loaded"]
    /\ UNCHANGED <<world, edits, faults, early>>

\* Judgments of chunks nobody may find, and a corpus other than the frozen one or that
\* of the smaller window, end the experiment.
CorpusRefused ==
    \/ ~Judged(experiment.cases)
    \/ experiment.kind # "evidence" /\ world.corpus # Frozen
    \/ experiment.corpora # <<>> /\ world.corpus # experiment.corpora[1]

BuildRuntime ==
    /\ experiment.phase = "loaded"
    /\ experiment' =
          IF CorpusRefused THEN Blocked
          ELSE [experiment EXCEPT !.corpora = Append(@, world.corpus), !.phase = "built"]
    /\ UNCHANGED <<world, edits, faults, early>>

Window == WindowsOf(experiment.kind)[Len(experiment.corpora)]

\* A whole pass that nobody measures; it fills the traces.
WarmUpFails ==
    /\ experiment.phase = "built"
    /\ faults < MaxFaults
    /\ faults' = faults + 1
    /\ experiment' = Blocked
    /\ UNCHANGED <<world, edits, early>>

Untraced == [i \in DOMAIN experiment.cases |-> NoTrace]

\* The traces are cleared before the measured pass.
WarmUp(warm) ==
    /\ experiment.phase = "built"
    /\ experiment' = [experiment EXCEPT !.trace = Untraced,
                          !.passes = Append(@, <<>>), !.phase = "measuring"]
    /\ UNCHANGED <<world, edits, faults, early>>

Pass == experiment.passes[Len(experiment.passes)]

\* One query through its channels, of which some fail.
MeasureCase(failed) ==
    LET i == Len(Pass) + 1
        case == experiment.cases[i]
        trace == Traced(experiment.trace[i], case, Window, failed)
        row == [results |-> [c \in Channels |-> ChannelResult(case, c, Window, failed)],
                trace |-> trace, full |-> [s \in RankedSources |-> <<>>], unscanned |-> RankedSources]
    IN  /\ experiment.phase = "measuring" /\ Len(Pass) < Len(experiment.cases)
        /\ faults + Cardinality(failed) <= MaxFaults
        /\ faults' = faults + Cardinality(failed)
        /\ experiment' = [experiment EXCEPT !.trace[i] = trace,
                              !.passes[Len(experiment.passes)] = Append(@, row),
                              !.failed = @ \cup ({Len(experiment.passes)} \X {i} \X failed)]
        /\ UNCHANGED <<world, edits, early>>

MeasuredAll == experiment.phase = "measuring" /\ Len(Pass) = Len(experiment.cases)

\* The whole rankings of both sources, after the measured pass; unscanned: the cases and
\* sources whose scan failed.  Then the rows are checked, and the report of the window,
\* its rows and its summary written: code and corpus are compared only in the end.
Diagnose(unscanned) ==
    LET Scanned1(i) ==
            [Pass[i] EXCEPT !.unscanned = {s \in RankedSources : <<i, s>> \in unscanned},
                            !.full = [s \in RankedSources |->
                                IF <<i, s>> \in unscanned THEN <<>>
                                ELSE IF s = "vector" THEN experiment.cases[i].vector
                                ELSE experiment.cases[i].keyword]]
        rows == [i \in DOMAIN Pass |-> Scanned1(i)]
        done == Len(experiment.passes) = Len(Windows)
        refused == \E i \in DOMAIN rows : RowRefused(rows[i], Window)
    IN  /\ experiment.kind = "windows" /\ MeasuredAll
        /\ faults + Cardinality(unscanned) <= MaxFaults
        /\ faults' = faults + Cardinality(unscanned)
        /\ experiment' =
              IF refused THEN Blocked
              ELSE [experiment EXCEPT !.passes[Len(experiment.passes)] =
                                          [i \in DOMAIN rows |-> DiagnosticRow(experiment.cases[i], rows[i])],
                                      !.phase = IF done THEN "measured" ELSE "loaded"]
        /\ early' = IF refused THEN early ELSE early \cup {Len(experiment.passes)}
        /\ UNCHANGED <<world, edits>>

\* Linked chunks are selected once everything is measured.
Cover ==
    /\ experiment.kind = "coverage" /\ MeasuredAll
    /\ experiment' =
          IF Ambiguous \/ \E i \in DOMAIN Pass : CoverageRefused(Pass[i], Window) THEN Blocked
          ELSE [experiment EXCEPT !.phase = "measured"]
    /\ UNCHANGED <<world, edits, faults, early>>

\* The report of a data set is written; then the data set is read again.
CloseEvidence ==
    /\ experiment.kind = "evidence" /\ MeasuredAll
    /\ early' = early \cup {Len(experiment.passes)}
    /\ experiment' = IF world.inputs # experiment.inputs THEN Blocked
                     ELSE [experiment EXCEPT !.phase = "measured"]
    /\ UNCHANGED <<world, edits, faults>>

\* Code and corpus are read again; an evidence run also reads its protocol again.
Drifted ==
    \/ world.source # experiment.source
    \/ world.corpus # experiment.corpora[1]
    \/ experiment.kind = "evidence" /\ world.inputs # experiment.inputs

CoverageReport(rows) == [rows |-> rows, summary |-> CoverageSummary(rows)]

Report ==
    LET passes == experiment.passes
        cases == experiment.cases
        summaries == [w \in DOMAIN passes |-> Summaries(cases, passes[w])]
        errors == \/ \E w \in DOMAIN passes, c \in Channels : summaries[w][c].errors > 0
                  \/ experiment.kind = "windows"
                     /\ \E w \in DOMAIN passes, i \in DOMAIN cases : passes[w][i].unscanned # {}
    IN  [status |-> IF errors THEN "incomplete" ELSE "completed",
         real |-> experiment.real /\ ~errors,
         summaries |-> summaries,
         detail |-> CASE experiment.kind = "coverage" ->
                             CoverageReport([i \in DOMAIN cases |-> CoverageRow(cases[i], passes[1][i])])
                      [] experiment.kind = "windows" ->
                             LET found == [w \in DOMAIN passes |-> WindowSummary(cases, passes[w])]
                             IN  [windows |-> found, compared |-> WindowsCompared(passes, found)]
                      [] OTHER -> Absent]

\* Mutant: what was measured is published whatever changed since.
PublishAnyway ==
    /\ experiment.phase = "measured"
    /\ experiment' = [experiment EXCEPT !.report = Report, !.phase = Report.status]
    /\ UNCHANGED <<world, edits, faults, early>>

Publish ==
    /\ experiment.phase = "measured"
    /\ experiment' =
          IF Drifted THEN Blocked
          ELSE [experiment EXCEPT !.report = Report, !.phase = Report.status]
    /\ UNCHANGED <<world, edits, faults, early>>

\* An archive can be replayed when it is a finished one of real models whose rows bear
\* every check again.
ReplayRefused ==
    \/ experiment.report.status # "completed" \/ ~experiment.report.real
    \/ ~Judged(experiment.cases) \/ Ambiguous
    \/ \E i \in DOMAIN experiment.cases :
          LET row == Pass[i]
          IN  \/ \E c \in Channels : row.results[c].error \/ ~UniqueIds(row.results[c].ids, Visible, TopK)
              \/ row.results["hybrid"].ids # Cut(row.trace.hybrid, TopK)
              \/ ~Selectable(row.results["reranked"].ids, row.trace.hybrid, Window)

Replay ==
    /\ experiment.kind = "evidence" /\ experiment.phase \in {"completed", "incomplete"}
    /\ experiment' =
          IF ReplayRefused THEN [Blocked EXCEPT !.kind = "replay", !.report = Absent]
          ELSE [experiment EXCEPT !.kind = "replay", !.phase = "completed",
                    !.report.detail =
                        CoverageReport([i \in DOMAIN Pass |-> CoverageRow(experiment.cases[i], Pass[i])])]
    /\ UNCHANGED <<world, edits, faults, early>>

EvaluationNext ==
    \/ \E what \in DOMAIN world : experiment.phase \notin Ended /\ Edit(what)
    \/ \E kind \in {"evidence", "coverage", "windows"}, real \in BOOLEAN, cases \in CaseLists :
          LoadInputs(kind, real, cases)
    \/ BuildRuntime
    \/ WarmUpFails
    \/ \E warm \in BOOLEAN : WarmUp(warm)
    \/ \E failed \in SUBSET Channels : MeasureCase(failed)
    \/ \E unscanned \in SUBSET ((DOMAIN experiment.cases) \X RankedSources) : Diagnose(unscanned)
    \/ Cover
    \/ CloseEvidence
    \/ Publish
    \/ Replay

EvaluationSpec == EvaluationInit /\ [][EvaluationNext]_evaluationVars

-----------------------------------------------------------------------------
(* Properties                                                               *)

Published == experiment.report # Absent

\* A published report counts every query in every channel with exactly the calls that
\* failed, calls itself complete only if none did, and was measured with the code that
\* is on disk at its end, the inputs and the corpus that were frozen, at every window
\* (run_retrieval_coverage_confirmed_eval.py, run, and its two siblings).
PublishedIsMeasured ==
    Published =>
        LET passes == DOMAIN experiment.passes
        IN  /\ \A w \in passes, c \in Channels :
                  /\ experiment.report.summaries[w][c].count = Len(experiment.cases)
                  /\ experiment.report.summaries[w][c].errors
                         = Cardinality({f \in experiment.failed : f[1] = w /\ f[3] = c})
            /\ experiment.report.status = "completed" => experiment.failed = {}
            /\ experiment.kind = "coverage" =>
                  ((experiment.report.detail.summary = {})
                      <=> \E f \in experiment.failed : f[3] = "reranked")

\* Every runtime of a published experiment had the same corpus, the frozen one where
\* there is a freeze, and at the moment of publication code and corpus were those it was
\* measured with.
UndriftedAtPublication ==
    [][experiment'.report # Absent /\ experiment.report = Absent =>
          /\ \A w \in DOMAIN experiment.corpora : experiment.corpora[w] = world.corpus
          /\ experiment.kind # "evidence" => world.corpus = Frozen
          /\ experiment.source = world.source]_evaluationVars

\* A window or a data set has a report of its own before that test: nothing says that
\* code and corpus are still the same.  It is of a pass that is over, of a window built
\* on the frozen corpus, never of the confirmed queries; it is joined by the others and
\* the published one, or by the evidence of a failure.
EarlyReportsAreParts ==
    /\ \A w \in early :
          /\ experiment.kind # "coverage"
          /\ w \in DOMAIN experiment.passes
          /\ experiment.kind = "windows" =>
                w \in DOMAIN experiment.corpora /\ experiment.corpora[w] = Frozen
    /\ Published /\ experiment.kind # "coverage" => early = DOMAIN experiment.passes
    /\ experiment.phase = "blocked" => ~Published

\* The report of a whole experiment is published without drift, and what two scripts
\* write earlier is a part of it (run of run_retrieval_coverage_confirmed_eval.py, of
\* run_retrieval_coverage_candidate_window_eval.py and of run_retrieval_evidence.py).
PublishedWithoutDrift ==
    /\ UndriftedAtPublication
    /\ []EarlyReportsAreParts

\* The rows of a published report are those of one pipeline: a call that failed left no
\* candidates; a ranking never holds more judged chunks than the stage before it, nor a
\* chunk its window had not; the sources' own rankings do not depend on the window; and
\* a selection keeps the places it must keep and adds at most one visible candidate.
RowsAreSound ==
    Published =>
        /\ \A w \in DOMAIN experiment.passes, i \in DOMAIN experiment.cases :
              LET row == experiment.passes[w][i]
                  judged == DOMAIN experiment.cases[i].judgments
              IN  /\ \A c \in Traceable : row.results[c].error => row.trace[c] = <<>>
                  /\ ~row.results["hybrid"].error =>
                        /\ Range(row.results["reranked"].ids) \subseteq Range(row.trace.hybrid)
                        /\ Cardinality(Range(row.results["reranked"].ids) \cap judged)
                               <= Cardinality(Range(row.trace.hybrid) \cap judged)
                  /\ experiment.kind = "windows" => \A id \in judged, c \in Channels :
                        LET ranks == row.ranks[id][c]
                        IN  ~row.results[c].error /\ row.unscanned = {} =>
                               /\ ranks[2] \in {ranks[1], Absent}
                               /\ c # "reranked" => ranks[3] \in {ranks[2], Absent}
                               /\ ranks[3] # Absent => ranks[2] # Absent
        /\ experiment.kind = "windows" => \A i \in DOMAIN experiment.cases, s \in RankedSources :
              \/ \E w \in DOMAIN experiment.passes : experiment.passes[w][i].results[s].error
              \/ experiment.passes[1][i].results[s].ids = experiment.passes[2][i].results[s].ids
        /\ experiment.kind \in {"coverage", "replay"} =>
              \A i \in DOMAIN experiment.report.detail.rows :
                  LET row == experiment.report.detail.rows[i]
                  IN  row.error \/
                         /\ IsPrefix(Cut(row.baseline, PreserveTopK), row.selected)
                         /\ Range(row.selected) \subseteq Range(row.pool) \cap Visible
                         /\ Cardinality(Range(row.selected) \ Range(row.baseline)) <= 1

\* What is published is what was measured, row by row and in its sums.
ReportIsSound == PublishedIsMeasured /\ RowsAreSound

\* Rows remain when a channel failed: calls that fail in the measured passes do not end
\* an experiment nobody interferes with (build_diagnostic_rows of
\* run_retrieval_coverage_candidate_window_eval.py).
FailedRowsStay ==
    ~ /\ experiment.kind = "windows" /\ experiment.phase = "blocked"
      /\ edits = 0
      /\ experiment.passes # <<>> /\ Len(experiment.passes) = Len(experiment.corpora)
==================================================================================
