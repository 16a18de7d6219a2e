---------------------------- MODULE EvaluationProofs ----------------------------
(***************************************************************************)
(* Proofs about the experiments beside the conversations: a report is      *)
(* published only about the corpus and the code that were measured, and    *)
(* says what was measured.                                                 *)
(*                                                                         *)
(* Measurement is the invariant of an experiment: every pass so far is of   *)
(* rows recorded at its window, every failed call is counted, and a report  *)
(* sums up the passes.  What a row says follows from how it was recorded:   *)
(* the channels of one query are cuts, fusions and rerankings of the same   *)
(* two rankings.                                                            *)
(*                                                                         *)
(* ContractInv is the invariant of a file of semantic records: the errors   *)
(* so far tell which of the lines that were read are not sound, and the     *)
(* search of a graph knows that what it has left leads round nowhere.       *)
(***************************************************************************)
EXTENDS ExperimentsProofs

-----------------------------------------------------------------------------
(* The evaluation of retrieval                                              *)

\* A record is its fields.
Fields(e) == e = [kind |-> e.kind, real |-> e.real, cases |-> e.cases, phase |-> e.phase, source |-> e.source,
                  inputs |-> e.inputs, corpora |-> e.corpora, trace |-> e.trace, passes |-> e.passes,
                  failed |-> e.failed, report |-> e.report]

\* The runtimes of an experiment had one corpus, the frozen one but for an evidence run;
\* when it ends with a report, that is what is on disk, and its code is.
Accounted(e, disk) ==
    /\ \E S : e.corpora \in Seq(S)
    /\ \A w \in DOMAIN e.corpora : e.corpora[w] = e.corpora[1]
    /\ e.kind \notin {"evidence", "replay"} => \A w \in DOMAIN e.corpora : e.corpora[w] = Frozen
    /\ e.phase \in {"built", "measuring", "measured", "completed", "incomplete"} => e.corpora # <<>>
    /\ e.kind = "replay" => e.phase \notin {"loaded", "built", "measuring", "measured"}
    /\ e.phase \in {"completed", "incomplete"} => disk.corpus = e.corpora[1] /\ disk.source = e.source

\* What every step keeps of an experiment and of the disk.
EvaluationInv ==
    /\ Fields(experiment)
    /\ world = [source |-> world.source, models |-> world.models, inputs |-> world.inputs,
                corpus |-> world.corpus]
    /\ Accounted(experiment, world)

\* No experiment has begun: no runtime is built and no report is made.
LEMMA EvaluationStart == EvaluationInit => EvaluationInv
<1> SUFFICES ASSUME EvaluationInit PROVE EvaluationInv
  OBVIOUS
<1>1. experiment = Unbegun
  BY DEF EvaluationInit
<1>2. <<>> \in Seq({}) /\ DOMAIN <<>> = {}
  OBVIOUS
<1>3. Fields(experiment) /\ experiment.corpora = <<>> /\ experiment.phase = "idle"
  BY <1>1 DEF Unbegun, Fields
<1>4. world = [source |-> world.source, models |-> world.models, inputs |-> world.inputs, corpus |-> world.corpus]
  BY DEF EvaluationInit
<1> QED BY <1>2, <1>3, <1>4 DEF EvaluationInv, Accounted

\* A step that keeps what was measured, with what, and ends no experiment.
LEMMA KeptAccounted ==
    ASSUME EvaluationInv, NEW e, Fields(e), e.kind = experiment.kind, e.source = experiment.source,
           e.corpora = experiment.corpora,
           e.phase \in {"blocked", "loaded", "measuring", "measured"},
           e.phase # "blocked" => experiment.phase \in {"built", "measuring", "measured"},
           experiment' = e, world' = world
    PROVE  EvaluationInv'
<1>1. e.phase \notin {"completed", "incomplete"}
  OBVIOUS
<1>2. e.phase \in {"built", "measuring", "measured", "completed", "incomplete"} => experiment.corpora # <<>>
  BY DEF EvaluationInv, Accounted
<1>3. e.kind = "replay" => e.phase \notin {"loaded", "built", "measuring", "measured"}
  BY DEF EvaluationInv, Accounted
<1>4. Accounted(e, world)
  BY <1>1, <1>2, <1>3 DEF EvaluationInv, Accounted
<1> QED BY <1>4 DEF EvaluationInv

\* Every step of an experiment and every edit keeps what is accounted: a runtime is
\* built only on the corpus of the earlier ones, and a report ends the edits.
LEMMA EvaluationStep == EvaluationInv /\ [EvaluationNext]_evaluationVars => EvaluationInv'
<1> SUFFICES ASSUME EvaluationInv, [EvaluationNext]_evaluationVars PROVE EvaluationInv'
  OBVIOUS
<1>0. Fields(experiment) /\ Fields(Blocked) /\ Blocked.kind = experiment.kind /\ Blocked.source = experiment.source
      /\ Blocked.corpora = experiment.corpora /\ Blocked.phase = "blocked"
  BY DEF EvaluationInv, Accounted, Blocked, Fields
<1>1. ASSUME NEW what \in DOMAIN world, experiment.phase \notin Ended, Edit(what) PROVE EvaluationInv'
  <2>1. experiment' = experiment /\ experiment.phase \notin {"completed", "incomplete"}
    BY <1>1 DEF Edit, Ended
  <2>2. world' = [world EXCEPT ![what] = 3 - world[what]]
    BY <1>1 DEF Edit
  <2>3. world' = [source |-> world'.source, models |-> world'.models, inputs |-> world'.inputs,
                  corpus |-> world'.corpus]
    BY <2>2 DEF EvaluationInv, Accounted
  <2> QED BY <2>1, <2>3 DEF EvaluationInv, Accounted
<1>2. ASSUME NEW kind \in {"evidence", "coverage", "windows"}, NEW real, NEW cases, LoadInputs(kind, real, cases)
      PROVE  EvaluationInv'
  <2>1. /\ Fields(experiment') /\ experiment'.kind = kind /\ experiment'.corpora = <<>>
        /\ experiment'.phase \in {"blocked", "loaded"} /\ world' = world
    BY <1>2 DEF LoadInputs, Unbegun, Fields
  <2>2. <<>> \in Seq({}) /\ DOMAIN <<>> = {}
    OBVIOUS
  <2> QED BY <2>1, <2>2 DEF EvaluationInv, Accounted
<1>3. ASSUME BuildRuntime PROVE EvaluationInv'
  <2>1. world' = world
    BY <1>3 DEF BuildRuntime
  <2>2. CASE CorpusRefused
    <3>1. experiment' = Blocked
      BY <1>3, <2>2 DEF BuildRuntime
    <3> QED BY <1>0, <2>1, <3>1, KeptAccounted
  <2>3. CASE ~CorpusRefused
    <3> DEFINE corpora == experiment.corpora
               more == Append(corpora, world.corpus)
    <3>1. experiment' = [experiment EXCEPT !.corpora = more, !.phase = "built"]
      BY <1>3, <2>3 DEF BuildRuntime
    <3>2. /\ Fields(experiment') /\ experiment'.kind = experiment.kind /\ experiment'.phase = "built"
          /\ experiment'.corpora = more
      <4> HIDE DEF more
      <4> QED BY <1>0, <3>1 DEF Fields
    <3>3. PICK S : corpora \in Seq(S)
      BY DEF EvaluationInv, Accounted
    <3>4. /\ more \in Seq(S \cup {world.corpus}) /\ Len(more) = Len(corpora) + 1 /\ Len(corpora) \in Nat
          /\ \A w \in 1..Len(corpora) : more[w] = corpora[w]
          /\ more[Len(corpora) + 1] = world.corpus
      BY <3>3
    <3>5. DOMAIN corpora = 1..Len(corpora) /\ DOMAIN more = 1..Len(more)
      BY <3>3, <3>4
    <3>6. corpora # <<>> => world.corpus = corpora[1] /\ 1 \in 1..Len(corpora)
      BY <2>3, <3>3 DEF CorpusRefused
    <3>7. corpora = <<>> => Len(corpora) = 0
      OBVIOUS
    <3> HIDE DEF more
    <3>8. \A w \in DOMAIN more : more[w] = more[1]
      <4> SUFFICES ASSUME NEW w \in 1..(Len(corpora) + 1) PROVE more[w] = more[1]
        BY <3>4, <3>5
      <4>1. CASE corpora = <<>>
        <5>1. w = 1
          BY <3>7, <4>1
        <5> QED BY <5>1
      <4>2. CASE corpora # <<>>
        <5>1. more[1] = corpora[1]
          BY <3>4, <3>6, <4>2
        <5>2. CASE w \in 1..Len(corpora)
          <6>1. more[w] = corpora[w] /\ corpora[w] = corpora[1]
            BY <3>4, <3>5, <5>2 DEF EvaluationInv, Accounted
          <6> QED BY <5>1, <6>1
        <5>3. CASE w = Len(corpora) + 1
          BY <3>4, <3>6, <4>2, <5>1, <5>3
        <5> QED BY <5>2, <5>3, <3>4
      <4> QED BY <4>1, <4>2
    <3>9. experiment.kind \notin {"evidence", "replay"} => \A w \in DOMAIN more : more[w] = Frozen
      <4> SUFFICES ASSUME experiment.kind \notin {"evidence", "replay"}, NEW w \in 1..(Len(corpora) + 1)
                   PROVE  more[w] = Frozen
        BY <3>4, <3>5
      <4>1. world.corpus = Frozen
        BY <2>3 DEF CorpusRefused
      <4>2. CASE w \in 1..Len(corpora)
        <5>1. more[w] = corpora[w] /\ corpora[w] = Frozen
          BY <3>4, <3>5, <4>2 DEF EvaluationInv, Accounted
        <5> QED BY <5>1
      <4>3. CASE w = Len(corpora) + 1
        BY <3>4, <4>1, <4>3
      <4> QED BY <4>2, <4>3, <3>4
    <3>10. more # <<>>
      BY <3>4
    <3>11. \E X : more \in Seq(X)
      BY <3>4
    <3>12. experiment.kind # "replay"
      BY <1>3 DEF BuildRuntime, EvaluationInv, Accounted
    <3>13. Accounted(experiment', world)
      BY <3>2, <3>8, <3>9, <3>10, <3>11, <3>12 DEF Accounted
    <3> QED BY <2>1, <3>2, <3>13 DEF EvaluationInv
  <2> QED BY <2>2, <2>3
<1>4. ASSUME WarmUpFails PROVE EvaluationInv'
  <2>1. experiment' = Blocked /\ world' = world
    BY <1>4 DEF WarmUpFails
  <2> QED BY <1>0, <2>1, KeptAccounted
<1>5. ASSUME NEW warm, WarmUp(warm) PROVE EvaluationInv'
  <2>1. /\ experiment.phase = "built" /\ world' = world
        /\ Fields(experiment') /\ experiment'.kind = experiment.kind /\ experiment'.source = experiment.source
        /\ experiment'.corpora = experiment.corpora /\ experiment'.phase = "measuring"
    BY <1>0, <1>5 DEF WarmUp, Fields
  <2> QED BY <2>1, KeptAccounted
<1>6. ASSUME NEW calls, MeasureCase(calls) PROVE EvaluationInv'
  <2> DEFINE trace == experiment'.trace
             passes == experiment'.passes
             lost == experiment'.failed
  <2>1. /\ experiment.phase = "measuring" /\ world' = world
        /\ Fields(experiment') /\ experiment'.kind = experiment.kind /\ experiment'.source = experiment.source
        /\ experiment'.corpora = experiment.corpora /\ experiment'.phase = experiment.phase
    BY <1>0, <1>6 DEF MeasureCase, Fields
  <2> QED BY <2>1, KeptAccounted
<1>7. ASSUME NEW unscanned, Diagnose(unscanned) PROVE EvaluationInv'
  <2>1. experiment.phase = "measuring" /\ world' = world
    BY <1>7 DEF Diagnose, MeasuredAll
  <2>2. \/ experiment' = Blocked
        \/ /\ Fields(experiment') /\ experiment'.kind = experiment.kind /\ experiment'.source = experiment.source
           /\ experiment'.corpora = experiment.corpora /\ experiment'.phase \in {"loaded", "measured"}
    BY <1>0, <1>7 DEF Diagnose, Fields
  <2> QED BY <1>0, <2>1, <2>2, KeptAccounted
<1>8. ASSUME Cover \/ CloseEvidence PROVE EvaluationInv'
  <2>1. experiment.phase = "measuring" /\ world' = world
    BY <1>8 DEF Cover, CloseEvidence, MeasuredAll
  <2>2. \/ experiment' = Blocked
        \/ /\ Fields(experiment') /\ experiment'.kind = experiment.kind /\ experiment'.source = experiment.source
           /\ experiment'.corpora = experiment.corpora /\ experiment'.phase = "measured"
    BY <1>0, <1>8 DEF Cover, CloseEvidence, Fields
  <2> QED BY <1>0, <2>1, <2>2, KeptAccounted
<1>9. ASSUME Publish PROVE EvaluationInv'
  <2>1. world' = world /\ experiment.phase = "measured"
    BY <1>9 DEF Publish
  <2>2. CASE Drifted
    <3>1. experiment' = Blocked
      BY <1>9, <2>2 DEF Publish
    <3> QED BY <1>0, <2>1, <3>1, KeptAccounted
  <2>3. CASE ~Drifted
    <3> DEFINE status == Report.status
    <3>1. experiment' = [experiment EXCEPT !.report = Report, !.phase = status]
      BY <1>9, <2>3 DEF Publish
    <3>2. status \in {"completed", "incomplete"}
      BY DEF Report
    <3> HIDE DEF status
    <3>3. /\ Fields(experiment') /\ experiment'.kind = experiment.kind /\ experiment'.corpora = experiment.corpora
          /\ experiment'.source = experiment.source /\ experiment'.phase = status
      BY <1>0, <3>1 DEF Fields
    <3>4. world.corpus = experiment.corpora[1] /\ world.source = experiment.source
      BY <2>3 DEF Drifted
    <3> QED BY <2>1, <3>2, <3>3, <3>4 DEF EvaluationInv, Accounted
  <2> QED BY <2>2, <2>3
<1>10. ASSUME Replay PROVE EvaluationInv'
  <2>1. world' = world /\ experiment.phase \in {"completed", "incomplete"}
    BY <1>10 DEF Replay
  <2>2. /\ Fields(experiment') /\ experiment'.kind = "replay" /\ experiment'.corpora = experiment.corpora
        /\ experiment'.source = experiment.source /\ experiment'.phase \in {"blocked", "completed"}
    BY <1>0, <1>10 DEF Replay, Blocked, Fields
  <2> QED BY <2>1, <2>2 DEF EvaluationInv, Accounted
<1>11. ASSUME UNCHANGED evaluationVars PROVE EvaluationInv'
  BY <1>11 DEF evaluationVars, EvaluationInv, Accounted
<1> QED BY <1>1, <1>2, <1>3, <1>4, <1>5, <1>6, <1>7, <1>8, <1>9, <1>10, <1>11 DEF EvaluationNext

\* A report appears only from a publication that compared the corpus and the code on
\* disk with those measured, and found no drift (the final drift checks).
LEMMA PublicationIsUndrifted == EvaluationSpec => UndriftedAtPublication
<1> DEFINE A == experiment'.report # Absent /\ experiment.report = Absent =>
                  /\ \A w \in DOMAIN experiment.corpora : experiment.corpora[w] = world.corpus
                  /\ experiment.kind # "evidence" => world.corpus = Frozen
                  /\ experiment.source = world.source
<1>1. EvaluationInv /\ [EvaluationNext]_evaluationVars => [A]_evaluationVars
  <2> SUFFICES ASSUME EvaluationInv, EvaluationNext, experiment'.report # Absent, experiment.report = Absent
               PROVE  A
    OBVIOUS
  <2>0. Fields(experiment)
    BY DEF EvaluationInv, Accounted
  <2>1. (Publish /\ ~Drifted) \/ Replay
    <3>1. Unbegun.report = Absent /\ Blocked.report = Absent
      BY <2>0 DEF Unbegun, Blocked, Fields
    <3>2. ASSUME NEW what, Edit(what) PROVE FALSE
      BY <3>2 DEF Edit
    <3>3. ASSUME NEW kind, NEW real, NEW cases, LoadInputs(kind, real, cases) PROVE FALSE
      BY <3>3 DEF LoadInputs, Unbegun
    <3>4. ASSUME BuildRuntime \/ WarmUpFails PROVE FALSE
      BY <2>0, <3>1, <3>4 DEF BuildRuntime, WarmUpFails, Fields
    <3>5. ASSUME NEW warm, WarmUp(warm) PROVE FALSE
      BY <2>0, <3>5 DEF WarmUp, Fields
    <3>6. ASSUME NEW calls, MeasureCase(calls) PROVE FALSE
      BY <2>0, <3>6 DEF MeasureCase, Fields
    <3>7. ASSUME NEW unscanned, Diagnose(unscanned) PROVE FALSE
      BY <2>0, <3>1, <3>7 DEF Diagnose, Fields
    <3>8. ASSUME Cover \/ CloseEvidence PROVE FALSE
      BY <2>0, <3>1, <3>8 DEF Cover, CloseEvidence, Fields
    <3>9. ASSUME Publish PROVE ~Drifted
      BY <3>1, <3>9 DEF Publish
    <3> QED BY <3>2, <3>3, <3>4, <3>5, <3>6, <3>7, <3>8, <3>9 DEF EvaluationNext
  <2>2. /\ world.corpus = experiment.corpora[1] /\ world.source = experiment.source
        /\ experiment.corpora # <<>>
        /\ experiment.kind # "replay"
    <3>1. CASE Replay
      BY <3>1 DEF Replay, EvaluationInv, Accounted
    <3>2. CASE Publish /\ ~Drifted
      BY <3>2 DEF Publish, Drifted, EvaluationInv, Accounted
    <3> QED BY <2>1, <3>1, <3>2
  <2> QED BY <2>2 DEF EvaluationInv, Accounted
<1>2. EvaluationInv /\ [EvaluationNext]_evaluationVars => EvaluationInv'
  BY EvaluationStep
<1>3. EvaluationSpec => [][A]_evaluationVars
  <2> HIDE DEF A
  <2> QED BY <1>1, <1>2, EvaluationStart, PTL DEF EvaluationSpec
<1> QED BY <1>3 DEF UndriftedAtPublication


-----------------------------------------------------------------------------
(* What a pass records of a case: rankings, their cuts and their fusion.    *)

\* The chunks a case's rankings are of.
RankedChunks(case) == Range(case.vector) \cup Range(case.keyword)

\* A case of the experiments: two rankings of chunks that all have a relevance.
IsCase(case) ==
    /\ IsRanking(case.vector, RankedChunks(case))
    /\ IsRanking(case.keyword, RankedChunks(case))
    /\ RankedChunks(case) \subseteq Int \X Int
    /\ \A id \in RankedChunks(case) : case.relevance[id] \in Int
    /\ IsFiniteSet(DOMAIN case.judgments)

\* Every case of a list is one.
LEMMA CasesAreRanked ==
    ASSUME NEW cases \in CaseLists, NEW i \in DOMAIN cases
    PROVE  IsCase(cases[i])
<1> DEFINE S == RankedChunks(cases[i])
<1>1. PICK case : case = cases[i]
  OBVIOUS
<1>2. case \in Range(cases)
  BY <1>1 DEF Range
<1>3. /\ IsFiniteSet(DOMAIN case.judgments)
      /\ \A ranking \in {case.vector, case.keyword} :
            /\ ranking \in Seq(Int \X Int)
            /\ \A k \in DOMAIN ranking :
                  /\ case.relevance[ranking[k]] \in Int
                  /\ \A j \in DOMAIN ranking : ranking[k] = ranking[j] => k = j
  BY <1>2, EvaluationAssumption
<1>4. ASSUME NEW ranking \in {case.vector, case.keyword}
      PROVE  /\ ranking \in [1..Len(ranking) -> Range(ranking)] /\ Len(ranking) \in Nat
             /\ \A k, j \in 1..Len(ranking) : ranking[k] = ranking[j] => k = j
             /\ \A id \in Range(ranking) : id \in Int \X Int /\ case.relevance[id] \in Int
  <2>1. ranking \in Seq(Int \X Int)
    BY <1>3
  <2>2. ranking \in [1..Len(ranking) -> Int \X Int] /\ Len(ranking) \in Nat /\ DOMAIN ranking = 1..Len(ranking)
    BY <2>1
  <2>3. Range(ranking) = {ranking[k] : k \in 1..Len(ranking)}
    BY <2>2 DEF Range
  <2>4. ranking \in [1..Len(ranking) -> Range(ranking)]
    BY <2>2, <2>3
  <2>5. \A k \in 1..Len(ranking) : ranking[k] \in Int \X Int /\ case.relevance[ranking[k]] \in Int
    BY <1>3, <2>2
  <2>6. ASSUME NEW id \in Range(ranking) PROVE id \in Int \X Int /\ case.relevance[id] \in Int
    <3>1. PICK k \in 1..Len(ranking) : id = ranking[k]
      BY <2>3
    <3> QED BY <2>5, <3>1
  <2>7. \A k, j \in 1..Len(ranking) : ranking[k] = ranking[j] => k = j
    BY <1>3, <2>2
  <2> QED BY <2>2, <2>4, <2>6, <2>7
<1>5. ASSUME NEW ranking \in {case.vector, case.keyword} PROVE IsRanking(ranking, RankedChunks(case))
  <2>1. Range(ranking) \subseteq RankedChunks(case)
    BY DEF RankedChunks
  <2>2. ranking \in [1..Len(ranking) -> RankedChunks(case)]
    BY <1>4, <2>1
  <2> QED BY <1>4, <2>2 DEF IsRanking
<1>6. \A id \in RankedChunks(case) : id \in Int \X Int /\ case.relevance[id] \in Int
  BY <1>4 DEF RankedChunks
<1> QED BY <1>1, <1>3, <1>5, <1>6 DEF IsCase

\* The fusion of two rankings is one.
LEMMA FusionRanks ==
    ASSUME NEW S, S \subseteq Int \X Int, NEW vector, NEW keyword, IsRanking(vector, S), IsRanking(keyword, S)
    PROVE  IsRanking(Fused(vector, keyword), S)
<1> DEFINE all == Range(vector) \cup Range(keyword)
           scores == FusedScores(vector, keyword)
           found == {id \in DOMAIN scores : scores[id] > 0}
<1>1. IsFiniteSet(all) /\ all \subseteq S
  BY RangeOfRanks, FS_Union
<1>2. DOMAIN scores = all /\ \A id \in all : scores[id] = Contribution(vector, id) + Contribution(keyword, id)
  BY DEF FusedScores
<1>3. \A id : Contribution(vector, id) \in Int /\ Contribution(keyword, id) \in Int
  BY Contributions
<1>4. Fused(vector, keyword) = ByScore(scores)
  BY DEF Fused, FusedScores
<1> HIDE DEF all, scores
<1>5. IsRanking(ByScore(scores), found)
  BY <1>1, <1>2, <1>3, ByScoreRanks
<1>6. found \subseteq S
  BY <1>1, <1>2
<1> HIDE DEF found
<1>7. PICK n \in Nat : /\ ByScore(scores) \in [1..n -> found]
                       /\ \A i, j \in 1..n : ByScore(scores)[i] = ByScore(scores)[j] => i = j
  BY <1>5 DEF IsRanking
<1>8. ByScore(scores) \in [1..n -> S]
  BY <1>6, <1>7
<1> QED BY <1>4, <1>7, <1>8 DEF IsRanking

\* What a ranking holds, and its first places.
LEMMA CutPlaces ==
    ASSUME NEW r, NEW S, IsRanking(r, S), NEW k \in Nat
    PROVE  /\ Len(r) \in Nat /\ DOMAIN r = 1..Len(r)
           /\ Len(Cut(r, k)) = IF Len(r) < k THEN Len(r) ELSE k
           /\ DOMAIN Cut(r, k) = 1..Len(Cut(r, k))
           /\ \A i \in DOMAIN Cut(r, k) : i \in DOMAIN r /\ Cut(r, k)[i] = r[i]
           /\ Range(Cut(r, k)) \subseteq Range(r)
<1>1. PICK n \in Nat : r \in [1..n -> S]
  BY DEF IsRanking
<1>2. r \in Seq(S) /\ Len(r) = n /\ DOMAIN r = 1..n
  BY <1>1
<1> DEFINE m == IF n < k THEN n ELSE k
<1>3. m \in 0..n /\ m \in Nat
  BY <1>1
<1>4. Cut(r, k) = SubSeq(r, 1, m)
  BY <1>2 DEF Cut
<1> HIDE DEF m
<1>5. \A i \in 1..m : i \in 1..n /\ r[i] \in S
  BY <1>1, <1>3
<1>6. /\ SubSeq(r, 1, m) \in Seq(S)
      /\ Len(SubSeq(r, 1, m)) = IF 1 <= m THEN m - 1 + 1 ELSE 0
      /\ \A i \in 1..(m - 1 + 1) : SubSeq(r, 1, m)[i] = r[1 + i - 1]
  BY <1>3, <1>5, SubSeqProperties
<1>7. Len(SubSeq(r, 1, m)) = m
  BY <1>3, <1>6
<1>8. DOMAIN SubSeq(r, 1, m) = 1..m
  BY <1>6, <1>7
<1>9. \A i \in 1..m : SubSeq(r, 1, m)[i] = r[i]
  BY <1>3, <1>6
<1> QED BY <1>2, <1>4, <1>5, <1>7, <1>8, <1>9 DEF m, Range

\* Cut twice is cut once where the first cut leaves more.
LEMMA CutTwice ==
    ASSUME NEW r, NEW S, IsRanking(r, S), NEW k \in Nat, NEW m \in Nat, k <= m
    PROVE  Cut(Cut(r, m), k) = Cut(r, k)
<1>1. IsRanking(Cut(r, m), S) /\ IsRanking(Cut(r, k), S) /\ IsRanking(Cut(Cut(r, m), k), S)
  BY CutRanks
<1>2. PICK q : q = Cut(r, m)
  OBVIOUS
<1>3. PICK a : a = Cut(q, k)
  OBVIOUS
<1>4. PICK b : b = Cut(r, k)
  OBVIOUS
<1>5. /\ Len(r) \in Nat /\ Len(q) = IF Len(r) < m THEN Len(r) ELSE m
      /\ Len(b) = IF Len(r) < k THEN Len(r) ELSE k
      /\ DOMAIN b = 1..Len(b) /\ \A i \in DOMAIN b : b[i] = r[i]
      /\ \A i \in DOMAIN q : q[i] = r[i]
  BY <1>2, <1>4, CutPlaces
<1>6. /\ Len(a) = IF Len(q) < k THEN Len(q) ELSE k
      /\ DOMAIN a = 1..Len(a) /\ \A i \in DOMAIN a : i \in DOMAIN q /\ a[i] = q[i]
  BY <1>1, <1>2, <1>3, CutPlaces
<1>7. Len(a) = Len(b)
  BY <1>5, <1>6
<1>8. a = [i \in DOMAIN a |-> a[i]] /\ b = [i \in DOMAIN b |-> b[i]]
  BY <1>1, <1>2, <1>3, <1>4 DEF IsRanking
<1>9. \A i \in DOMAIN a : a[i] = b[i]
  BY <1>5, <1>6, <1>7
<1>10. DOMAIN a = DOMAIN b
  BY <1>5, <1>6, <1>7
<1> QED BY <1>2, <1>3, <1>4, <1>8, <1>9, <1>10

\* What is recorded of a case at a window: of the channels that did not fail what was
\* found, and nothing of the others.
Recorded(case, window, row) ==
    LET failed == {c \in Channels : row.results[c].error}
    IN  /\ row.results = [c \in Channels |-> ChannelResult(case, c, window, failed)]
        /\ row.trace = Traced(NoTrace, case, window, failed)

\* The four rankings of a case at a window.
LEMMA AnsweredRanks ==
    ASSUME NEW cases \in CaseLists, NEW i \in DOMAIN cases, NEW w \in 1..2
    PROVE  LET case == cases[i]
               window == Windows[w]
               answered == Answered[case][window]
           IN  /\ answered.vector = Cut(case.vector, window) /\ answered["vector"] = answered.vector
               /\ answered.bm25 = Cut(case.keyword, window) /\ answered["bm25"] = answered.bm25
               /\ answered.hybrid = Cut(Fused(answered.vector, answered.bm25), window)
               /\ answered["hybrid"] = answered.hybrid
               /\ answered["reranked"] = Reranked(answered.hybrid, case.relevance)
               /\ \A c \in Channels : IsRanking(answered[c], RankedChunks(case))
               /\ Range(answered["reranked"]) \subseteq Range(answered.hybrid)
<1>1. PICK case : case = cases[i]
  OBVIOUS
<1>2. PICK window \in Nat : window = Windows[w]
  BY EvaluationAssumption
<1> DEFINE S == RankedChunks(case)
           vector == Cut(case.vector, window)
           bm25 == Cut(case.keyword, window)
           hybrid == Cut(Fused(vector, bm25), window)
           answered == [vector |-> vector, bm25 |-> bm25, hybrid |-> hybrid,
                        reranked |-> Reranked(hybrid, case.relevance)]
<1>3. case \in UNION {Range(list) : list \in CaseLists} /\ window \in Range(Windows)
  BY <1>1, <1>2, EvaluationAssumption DEF Range
<1>4. Answered[case][window] = answered
  BY <1>3 DEF Answered
<1>5. IsCase(case)
  BY <1>1, CasesAreRanked
<1>6. IsRanking(vector, S) /\ IsRanking(bm25, S)
  BY <1>5, CutRanks DEF IsCase
<1>7. IsRanking(hybrid, S)
  <2> HIDE DEF vector, bm25, S
  <2>1. S \subseteq Int \X Int
    BY <1>5 DEF IsCase, S
  <2>2. IsRanking(Fused(vector, bm25), S)
    BY <1>6, <2>1, FusionRanks
  <2> QED BY <2>2, CutRanks
<1>8. IsRanking(hybrid, Range(hybrid)) /\ Range(hybrid) \subseteq S
  <2> HIDE DEF hybrid
  <2>1. PICK n \in Nat : hybrid \in [1..n -> S] /\ \A k, j \in 1..n : hybrid[k] = hybrid[j] => k = j
    BY <1>7 DEF IsRanking
  <2>2. hybrid \in [1..n -> Range(hybrid)]
    BY <2>1 DEF Range
  <2>3. Range(hybrid) \subseteq S
    BY <2>1 DEF Range
  <2> QED BY <2>1, <2>2, <2>3 DEF IsRanking
<1>9. IsRanking(Reranked(hybrid, case.relevance), Range(hybrid)) /\ IsRanking(Reranked(hybrid, case.relevance), S)
  <2> HIDE DEF hybrid
  <2>1. \A id \in S : case.relevance[id] \in Int
    BY <1>5 DEF IsCase
  <2> QED BY <1>7, <1>8, <2>1, RerankedRanks
<1>10. Range(Reranked(hybrid, case.relevance)) \subseteq Range(hybrid)
  <2> HIDE DEF hybrid
  <2> QED BY <1>9, RangeOfRanks
<1>11. \A c \in Channels : c = "vector" \/ c = "bm25" \/ c = "hybrid" \/ c = "reranked"
  BY DEF Channels, Traceable
<1> HIDE DEF S, vector, bm25, hybrid
<1>12. /\ answered.vector = vector /\ answered.bm25 = bm25 /\ answered.hybrid = hybrid
       /\ answered["vector"] = vector /\ answered["bm25"] = bm25 /\ answered["hybrid"] = hybrid
       /\ answered["reranked"] = Reranked(hybrid, case.relevance)
  OBVIOUS
<1>13. \A c \in Channels : IsRanking(answered[c], S)
  BY <1>6, <1>7, <1>9, <1>11, <1>12
<1> QED BY <1>1, <1>2, <1>4, <1>10, <1>12, <1>13 DEF S, vector, bm25, hybrid

\* What of a recorded row is sound: nothing is traced of a call that failed, and what was
\* reranked is of what was fused.
LEMMA RecordedIsSound ==
    ASSUME NEW cases \in CaseLists, NEW i \in DOMAIN cases, NEW w \in 1..2, NEW row,
           Recorded(cases[i], Windows[w], row)
    PROVE  /\ \A c \in Traceable : row.results[c].error => row.trace[c] = <<>>
           /\ ~row.results["hybrid"].error =>
                 /\ Range(row.results["reranked"].ids) \subseteq Range(row.trace.hybrid)
                 /\ Cardinality(Range(row.results["reranked"].ids) \cap DOMAIN cases[i].judgments)
                        <= Cardinality(Range(row.trace.hybrid) \cap DOMAIN cases[i].judgments)
<1>1. PICK case : case = cases[i]
  OBVIOUS
<1>2. PICK window \in Nat : window = Windows[w]
  BY EvaluationAssumption
<1>3. PICK answered : answered = Answered[case][window]
  OBVIOUS
<1> DEFINE failed == {c \in Channels : row.results[c].error}
           S == RankedChunks(case)
<1>4. /\ \A c \in Channels : IsRanking(answered[c], S)
      /\ Range(answered["reranked"]) \subseteq Range(answered.hybrid)
      /\ answered["hybrid"] = answered.hybrid
  BY <1>1, <1>2, <1>3, AnsweredRanks
<1>5. \A c \in Channels : c \in failed <=> row.results[c].error
  OBVIOUS
<1>6. /\ \A c \in Channels : row.results[c].ids = IF c \in failed THEN <<>> ELSE Cut(answered[c], TopK)
      /\ \A c \in Traceable : row.trace[c] = IF c \in failed THEN <<>> ELSE answered[c]
  BY <1>1, <1>2, <1>3 DEF Recorded, ChannelResult, Retrieved, Traced, Candidates, NoTrace
<1> HIDE DEF failed
<1>7. \A c \in Traceable : row.results[c].error => row.trace[c] = <<>>
  BY <1>5, <1>6 DEF Channels
<1>8. ASSUME ~row.results["hybrid"].error
      PROVE  Range(row.results["reranked"].ids) \subseteq Range(row.trace.hybrid)
  <2>1. row.trace.hybrid = answered.hybrid
    <3>1. "hybrid" \in Traceable /\ "hybrid" \in Channels
      BY DEF Traceable, Channels
    <3>2. row.trace["hybrid"] = answered["hybrid"]
      BY <1>5, <1>6, <1>8, <3>1
    <3> QED BY <1>4, <3>2
  <2>2. "reranked" \in Channels
    BY DEF Channels
  <2>3. TopK \in Nat
    BY EvaluationAssumption
  <2>4. Range(Cut(answered["reranked"], TopK)) \subseteq Range(answered["reranked"])
    BY <1>4, <2>2, <2>3, CutPlaces
  <2>5. Range(<<>>) = {}
    BY DEF Range
  <2> QED BY <1>4, <1>6, <2>1, <2>2, <2>4, <2>5
<1>9. ASSUME ~row.results["hybrid"].error
      PROVE  Cardinality(Range(row.results["reranked"].ids) \cap DOMAIN case.judgments)
                <= Cardinality(Range(row.trace.hybrid) \cap DOMAIN case.judgments)
  <2> DEFINE small == Range(row.results["reranked"].ids) \cap DOMAIN case.judgments
             large == Range(row.trace.hybrid) \cap DOMAIN case.judgments
  <2>1. small \subseteq large
    BY <1>8, <1>9
  <2>2. IsFiniteSet(DOMAIN case.judgments)
    BY <1>1, CasesAreRanked DEF IsCase
  <2>3. IsFiniteSet(large)
    BY <2>2, FS_Intersection
  <2> HIDE DEF small, large
  <2>4. Cardinality(small) <= Cardinality(large)
    BY <2>1, <2>3, FS_Subset
  <2> QED BY <2>4 DEF small, large
<1> QED BY <1>1, <1>7, <1>8, <1>9

-----------------------------------------------------------------------------
(* Ranks that are diagnosed in the whole rankings.                          *)

\* Nothing is a ranking of anything.
LEMMA NothingIsRanked == \A S : IsRanking(<<>>, S)
<1>1. PICK none : none = <<>>
  OBVIOUS
<1>2. \A S : none \in [1..0 -> S]
  BY <1>1
<1> QED BY <1>1, <1>2 DEF IsRanking

\* A record has the place in the first places of a ranking that it has in the ranking, or
\* none.
LEMMA RankInCut ==
    ASSUME NEW r, NEW S, IsRanking(r, S), NEW k \in Nat, NEW id
    PROVE  RankOf(Cut(r, k), id) \in {RankOf(r, id), Absent}
<1>1. PICK cut : cut = Cut(r, k)
  OBVIOUS
<1> DEFINE few == {i \in DOMAIN cut : cut[i] = id}
           places == {i \in DOMAIN r : r[i] = id}
<1>2. \A i \in DOMAIN cut : i \in DOMAIN r /\ cut[i] = r[i]
  BY <1>1, CutPlaces
<1>3. \A i, j \in DOMAIN r : r[i] = r[j] => i = j
  BY DEF IsRanking
<1>4. RankOf(cut, id) = IF few = {} THEN Absent ELSE Min(few)
  BY DEF RankOf
<1>5. RankOf(r, id) = IF places = {} THEN Absent ELSE Min(places)
  BY DEF RankOf
<1>6. few = {} \/ few = places
  BY <1>2, <1>3
<1> HIDE DEF few, places
<1>7. RankOf(cut, id) \in {RankOf(r, id), Absent}
  BY <1>4, <1>5, <1>6
<1> QED BY <1>1, <1>7

\* A record has a place in a ranking exactly when it is in it.
LEMMA RankedHasPlace ==
    ASSUME NEW r, NEW S, IsRanking(r, S), NEW id
    PROVE  RankOf(r, id) # Absent <=> id \in Range(r)
<1> DEFINE places == {i \in DOMAIN r : r[i] = id}
<1>1. PICK n \in Nat : r \in [1..n -> S] /\ \A i, j \in 1..n : r[i] = r[j] => i = j
  BY DEF IsRanking
<1>2. RankOf(r, id) = IF places = {} THEN Absent ELSE Min(places)
  BY DEF RankOf
<1>3. id \in Range(r) <=> places # {}
  BY DEF Range
<1>4. ASSUME places # {} PROVE Min(places) # Absent
  <2>1. PICK i \in 1..n : places = {i}
    BY <1>1, <1>4
  <2>2. Min({i}) = i
    BY DEF Min
  <2>3. Min(places) = i
    BY <2>1, <2>2
  <2>4. Absent \notin Nat
    BY EvaluationAssumption
  <2> QED BY <2>3, <2>4
<1> HIDE DEF places
<1> QED BY <1>2, <1>3, <1>4

\* The ranks of a diagnosed row: a stage holds what the stage before it held, at its place.
RanksSound(case, row) ==
    \A id \in DOMAIN case.judgments, c \in Channels :
        LET ranks == row.ranks[id][c]
        IN  ~row.results[c].error /\ row.unscanned = {} =>
               /\ ranks[2] \in {ranks[1], Absent}
               /\ c # "reranked" => ranks[3] \in {ranks[2], Absent}
               /\ ranks[3] # Absent => ranks[2] # Absent

\* A row that bears the checks has sound ranks.
LEMMA DiagnosedIsSound ==
    ASSUME NEW cases \in CaseLists, NEW i \in DOMAIN cases, NEW w \in 1..2, NEW row,
           Recorded(cases[i], Windows[w], row), ~RowRefused(row, Windows[w]),
           row.unscanned = {} => row.full.vector = cases[i].vector /\ row.full.bm25 = cases[i].keyword
    PROVE  RanksSound(cases[i], DiagnosticRow(cases[i], row))
<1>1. PICK case : case = cases[i]
  OBVIOUS
<1>2. PICK window \in Nat : window = Windows[w]
  BY EvaluationAssumption
<1>3. PICK answered : answered = Answered[case][window]
  OBVIOUS
<1> DEFINE S == RankedChunks(case)
           failed(c) == row.results[c].error
<1>4. /\ answered["vector"] = Cut(case.vector, window)
      /\ answered["bm25"] = Cut(case.keyword, window)
      /\ \A c \in Channels : IsRanking(answered[c], S)
  BY <1>1, <1>2, <1>3, AnsweredRanks
<1>5. /\ \A c \in Channels : row.results[c].ids = IF failed(c) THEN <<>> ELSE Cut(answered[c], TopK)
      /\ \A c \in Traceable : row.trace[c] = IF failed(c) THEN <<>> ELSE answered[c]
  <2> DEFINE lost == {c \in Channels : row.results[c].error}
  <2>1. \A c \in Channels : c \in lost <=> failed(c)
    OBVIOUS
  <2>2. /\ \A c \in Channels : row.results[c].ids = IF c \in lost THEN <<>> ELSE Cut(answered[c], TopK)
        /\ \A c \in Traceable : row.trace[c] = IF c \in lost THEN <<>> ELSE answered[c]
    BY <1>1, <1>2, <1>3 DEF Recorded, ChannelResult, Retrieved, Traced, Candidates, NoTrace
  <2>3. Traceable \subseteq Channels
    BY DEF Channels
  <2> HIDE DEF lost, failed
  <2> QED BY <2>1, <2>2, <2>3
<1>6. /\ TopK \in Nat
      /\ \A c \in Channels : c = "vector" \/ c = "bm25" \/ c = "hybrid" \/ c = "reranked"
      /\ {"vector", "bm25", "hybrid"} = Traceable /\ Traceable \subseteq Channels /\ "reranked" \in Channels
  BY EvaluationAssumption DEF Channels, Traceable
<1>7. IsCase(case)
  BY <1>1, CasesAreRanked
<1>8. IsRanking(row.trace.vector, S) /\ IsRanking(row.trace.bm25, S) /\ IsRanking(row.trace.hybrid, S)
  <2>1. \A c \in Traceable : IsRanking(row.trace[c], S)
    BY <1>4, <1>5, <1>6, NothingIsRanked
  <2>2. IsRanking(row.trace["vector"], S) /\ IsRanking(row.trace["bm25"], S) /\ IsRanking(row.trace["hybrid"], S)
    BY <1>6, <2>1
  <2> QED BY <2>2
<1>9. IsRanking(FullFusion(row), S)
  <2>1. S \subseteq Int \X Int
    BY <1>7 DEF IsCase
  <2> HIDE DEF S
  <2> QED BY <1>8, <2>1, FusionRanks DEF FullFusion
<1>10. \A c \in Traceable : ~failed(c) => row.results[c].ids = Cut(row.trace[c], TopK)
  BY <1>5, <1>6
<1>11. \A c \in Traceable : IsRanking(row.trace[c], S)
  BY <1>4, <1>5, <1>6, NothingIsRanked
<1> HIDE DEF S
<1> SUFFICES ASSUME NEW id, NEW c \in Channels, ~row.results[c].error, row.unscanned = {},
                    NEW ranks, ranks = Ranks(row, id)[c]
             PROVE  /\ ranks[2] \in {ranks[1], Absent}
                    /\ c # "reranked" => ranks[3] \in {ranks[2], Absent}
                    /\ ranks[3] # Absent => ranks[2] # Absent
  <2>1. \A id \in DOMAIN case.judgments : DiagnosticRow(case, row).ranks[id] = Ranks(row, id)
    BY DEF DiagnosticRow
  <2>2. DiagnosticRow(case, row).results = row.results /\ DiagnosticRow(case, row).unscanned = row.unscanned
    BY DEF DiagnosticRow
  <2> QED BY <1>1, <2>1, <2>2 DEF RanksSound
<1>12. ASSUME c \in Traceable
       PROVE  RankOf(row.results[c].ids, id) \in {RankOf(row.trace[c], id), Absent}
  BY <1>6, <1>10, <1>11, <1>12, RankInCut
<1>13. CASE c = "vector"
  <2>1. ranks = <<RankOf(row.full.vector, id), RankOf(row.trace.vector, id), RankOf(row.results["vector"].ids, id)>>
    BY <1>13 DEF Ranks
  <2>2. row.trace["vector"] = Cut(case.vector, window) /\ row.full.vector = case.vector
    BY <1>1, <1>4, <1>5, <1>6, <1>13
  <2>3. RankOf(row.trace["vector"], id) \in {RankOf(case.vector, id), Absent}
    BY <1>7, <2>2, RankInCut DEF IsCase
  <2> QED BY <1>6, <1>12, <1>13, <2>1, <2>2, <2>3
<1>14. CASE c = "bm25"
  <2>1. ranks = <<RankOf(row.full.bm25, id), RankOf(row.trace.bm25, id), RankOf(row.results["bm25"].ids, id)>>
    BY <1>14 DEF Ranks
  <2>2. row.trace["bm25"] = Cut(case.keyword, window) /\ row.full.bm25 = case.keyword
    BY <1>1, <1>4, <1>5, <1>6, <1>14
  <2>3. RankOf(row.trace["bm25"], id) \in {RankOf(case.keyword, id), Absent}
    BY <1>7, <2>2, RankInCut DEF IsCase
  <2> QED BY <1>6, <1>12, <1>14, <2>1, <2>2, <2>3
<1>15. CASE c = "hybrid"
  <2>1. ranks = <<RankOf(FullFusion(row), id), RankOf(row.trace.hybrid, id), RankOf(row.results["hybrid"].ids, id)>>
    BY <1>15 DEF Ranks
  <2>2. CASE row.trace.hybrid = <<>>
    <3>1. RankOf(<<>>, id) = Absent
      BY DEF RankOf
    <3> QED BY <1>6, <1>12, <1>15, <2>1, <2>2, <3>1
  <2>3. CASE row.trace.hybrid # <<>>
    <3>1. row.trace.hybrid = Cut(FullFusion(row), window)
      BY <1>2, <2>3 DEF RowRefused
    <3>2. RankOf(row.trace.hybrid, id) \in {RankOf(FullFusion(row), id), Absent}
      BY <1>9, <3>1, RankInCut
    <3> QED BY <1>6, <1>12, <1>15, <2>1, <3>2
  <2> QED BY <2>2, <2>3
<1>16. CASE c = "reranked"
  <2>1. ranks = <<RankOf(row.trace.hybrid, id), RankOf(row.trace.hybrid, id), RankOf(row.results["reranked"].ids, id)>>
    BY <1>16 DEF Ranks
  <2>2. Range(row.results["reranked"].ids) \subseteq Range(row.trace.hybrid)
    BY <1>16 DEF RowRefused, FusionRefused
  <2>3. IsRanking(row.results["reranked"].ids, S)
    BY <1>4, <1>5, <1>6, CutRanks, NothingIsRanked
  <2>4. RankOf(row.results["reranked"].ids, id) # Absent => RankOf(row.trace.hybrid, id) # Absent
    BY <1>8, <2>2, <2>3, RankedHasPlace
  <2> QED BY <1>16, <2>1, <2>4
<1> QED BY <1>6, <1>13, <1>14, <1>15, <1>16

\* What a recorded row says of a channel.
LEMMA RecordedChannels ==
    ASSUME NEW case, NEW window, NEW row, Recorded(case, window, row)
    PROVE  \A c \in Channels :
              /\ row.results[c].error \in BOOLEAN
              /\ row.results[c].ids = IF row.results[c].error THEN <<>> ELSE Cut(Answered[case][window][c], TopK)
<1> DEFINE failed == {c \in Channels : row.results[c].error}
<1>1. row.results = [c \in Channels |-> ChannelResult(case, c, window, failed)]
  BY DEF Recorded
<1>2. \A c \in Channels : c \in failed <=> row.results[c].error
  OBVIOUS
<1>3. PICK lost : lost = failed
  OBVIOUS
<1> HIDE DEF failed
<1>4. \A c \in Channels : row.results[c] = ChannelResult(case, c, window, lost)
  BY <1>1, <1>3
<1> SUFFICES ASSUME NEW c \in Channels
             PROVE  /\ row.results[c].error \in BOOLEAN
                    /\ row.results[c].ids = IF row.results[c].error THEN <<>> ELSE Cut(Answered[case][window][c], TopK)
  OBVIOUS
<1>5. PICK result : result = row.results[c]
  OBVIOUS
<1>6. result = ChannelResult(case, c, window, lost)
  BY <1>4, <1>5
<1>7. result.error = (c \in lost) /\ result.ids = IF c \in lost THEN <<>> ELSE Retrieved(case, c, window)
  BY <1>6 DEF ChannelResult
<1>8. Retrieved(case, c, window) = Cut(Answered[case][window][c], TopK)
  BY DEF Retrieved
<1>9. result.error \in BOOLEAN
  BY <1>7
<1>10. result.ids = IF result.error THEN <<>> ELSE Cut(Answered[case][window][c], TopK)
  <2>1. CASE c \in lost
    BY <1>7, <2>1
  <2>2. CASE c \notin lost
    BY <1>7, <1>8, <2>2
  <2> QED BY <2>1, <2>2
<1> QED BY <1>5, <1>9, <1>10

\* What either source says of a case does not depend on the window.
LEMMA SourcesAgree ==
    ASSUME NEW cases \in CaseLists, NEW i \in DOMAIN cases, NEW s \in RankedSources,
           NEW first, Recorded(cases[i], Windows[1], first), ~first.results[s].error,
           NEW second, Recorded(cases[i], Windows[2], second), ~second.results[s].error
    PROVE  first.results[s].ids = second.results[s].ids
<1>1. PICK case : case = cases[i]
  OBVIOUS
<1> DEFINE whole == IF s = "vector" THEN case.vector ELSE case.keyword
<1>2. /\ TopK \in Nat /\ Windows[1] \in Nat /\ Windows[2] \in Nat
      /\ TopK <= Windows[1] /\ TopK <= Windows[2]
  BY EvaluationAssumption
<1>3. s \in Channels /\ (s = "vector" \/ s = "bm25")
  BY DEF RankedSources, Channels, Traceable
<1>4. IsRanking(whole, RankedChunks(case))
  BY <1>1, CasesAreRanked DEF IsCase
<1>5. ASSUME NEW w \in 1..2, NEW row, Recorded(case, Windows[w], row), ~row.results[s].error
      PROVE  row.results[s].ids = Cut(whole, TopK)
  <2>1. row.results[s].ids = Cut(Answered[case][Windows[w]][s], TopK)
    BY <1>3, <1>5, RecordedChannels
  <2>2. Answered[case][Windows[w]][s] = Cut(whole, Windows[w])
    <3>1. /\ Answered[case][Windows[w]].vector = Cut(case.vector, Windows[w])
          /\ Answered[case][Windows[w]]["vector"] = Answered[case][Windows[w]].vector
          /\ Answered[case][Windows[w]].bm25 = Cut(case.keyword, Windows[w])
          /\ Answered[case][Windows[w]]["bm25"] = Answered[case][Windows[w]].bm25
      BY <1>1, AnsweredRanks
    <3> QED BY <1>3, <3>1
  <2>3. Windows[w] \in Nat /\ TopK <= Windows[w]
    BY EvaluationAssumption
  <2> HIDE DEF whole
  <2>4. Cut(Cut(whole, Windows[w]), TopK) = Cut(whole, TopK)
    BY <1>2, <1>4, <2>3, CutTwice
  <2> QED BY <2>1, <2>2, <2>4
<1> HIDE DEF whole
<1>6. first.results[s].ids = Cut(whole, TopK)
  <2>1. Recorded(case, Windows[1], first) /\ 1 \in 1..2
    BY <1>1
  <2> QED BY <1>5, <2>1
<1>7. second.results[s].ids = Cut(whole, TopK)
  <2>1. Recorded(case, Windows[2], second) /\ 2 \in 1..2
    BY <1>1
  <2> QED BY <1>5, <2>1
<1> QED BY <1>6, <1>7

\* The links are numbered.
LEMMA LinksAreNumbered == DOMAIN Links \subseteq Nat
<1> DEFINE all == PolicyChunks \X (DOMAIN LinkRules) \X PolicyChunks
           found == {l \in all : Source(LinkRules[l[2]], l[1]) /\ Target(LinkRules[l[2]], l[1], l[3])}
           before == {p \in found \X found : \/ Precedes(p[1][1].id, p[2][1].id)
                                             \/ p[1][1] = p[2][1] /\ p[1][2] < p[2][2]}
           order == InOrder(found, before)
<1>1. Links = [i \in DOMAIN order |-> [source |-> order[i][1].id, target |-> order[i][3].id]]
  BY DEF Links
<1>2. IsFiniteSet(all)
  <2> DEFINE pairs == PolicyChunks \X (DOMAIN LinkRules)
             f == [p \in pairs \X PolicyChunks |-> <<p[1][1], p[1][2], p[2]>>]
  <2>1. IsFiniteSet(pairs)
    BY EvaluationAssumption, FS_Product
  <2>2. IsFiniteSet(pairs \X PolicyChunks)
    <3> HIDE DEF pairs
    <3> QED BY <2>1, EvaluationAssumption, FS_Product
  <2>3. f \in Surjection(pairs \X PolicyChunks, all)
    <3>1. \A p \in pairs \X PolicyChunks : f[p] \in all
      OBVIOUS
    <3>2. ASSUME NEW l \in all PROVE \E p \in pairs \X PolicyChunks : f[p] = l
      <4>1. <<<<l[1], l[2]>>, l[3]>> \in pairs \X PolicyChunks
        OBVIOUS
      <4>2. f[<<<<l[1], l[2]>>, l[3]>>] = l
        BY <4>1
      <4> QED BY <4>1, <4>2
    <3> QED BY <3>1, <3>2 DEF Surjection
  <2> HIDE DEF f, pairs, all
  <2> QED BY <2>2, <2>3, FS_Surjection
<1>3. IsFiniteSet(found)
  <2>1. found \in SUBSET all
    OBVIOUS
  <2> HIDE DEF found, all
  <2> QED BY <1>2, <2>1, FS_Subset
<1> HIDE DEF found, before
<1>4. Cardinality(found) \in Nat
  BY <1>3, FS_CardinalityType
<1>5. DOMAIN order = 1..Cardinality(found)
  BY DEF InOrder
<1> HIDE DEF order
<1> QED BY <1>1, <1>4, <1>5

\* Of pairs of numbers one is the first.
LEMMA FirstPair ==
    ASSUME NEW S \in SUBSET (Nat \X Nat), S # {}
    PROVE  \E o \in S : \A p \in S : o[1] < p[1] \/ (o[1] = p[1] /\ o[2] <= p[2])
<1> DEFINE A == {o[1] : o \in S}
           a == Min(A)
           B == {o[2] : o \in {p \in S : p[1] = a}}
           b == Min(B)
<1>1. A \in SUBSET Nat /\ A # {}
  OBVIOUS
<1>2. a \in A /\ \A y \in A : a <= y
  <2> HIDE DEF A
  <2> QED BY <1>1, MinOfNaturals
<1>3. B \in SUBSET Nat /\ B # {}
  <2> HIDE DEF a
  <2> QED BY <1>2
<1>4. b \in B /\ \A y \in B : b <= y
  <2> HIDE DEF B
  <2> QED BY <1>3, MinOfNaturals
<1> HIDE DEF a, b
<1>5. PICK o \in S : o[1] = a /\ o[2] = b
  BY <1>4
<1>6. ASSUME NEW p \in S PROVE o[1] < p[1] \/ (o[1] = p[1] /\ o[2] <= p[2])
  <2>1. p[1] \in Nat /\ p[2] \in Nat /\ o[1] \in Nat /\ o[2] \in Nat
    OBVIOUS
  <2>2. a <= p[1]
    BY <1>2
  <2>3. p[1] = a => b <= p[2]
    BY <1>4
  <2> QED BY <1>5, <2>1, <2>2, <2>3
<1> QED BY <1>6

\* The first places of a ranking begin it, and what is appended to them.
LEMMA PrefixKept ==
    ASSUME NEW r, NEW S, IsRanking(r, S), NEW k \in Nat, NEW x
    PROVE  /\ IsPrefix(Cut(r, k), r) /\ IsPrefix(Cut(r, k), Append(Cut(r, k), x))
           /\ Range(Append(Cut(r, k), x)) = Range(Cut(r, k)) \cup {x}
<1>1. PICK cut : cut = Cut(r, k)
  OBVIOUS
<1>2. PICK n \in Nat : r \in [1..n -> S]
  BY DEF IsRanking
<1>3. r \in Seq(S) /\ Len(r) = n
  BY <1>2
<1> DEFINE m == IF n < k THEN n ELSE k
<1>4. m \in Nat /\ m <= n
  BY <1>2
<1>5. cut = SubSeq(r, 1, m)
  BY <1>1, <1>3 DEF Cut
<1> HIDE DEF m
<1>6. \A i \in 1..m : i \in 1..n /\ r[i] \in S
  BY <1>2, <1>4
<1>7. /\ cut \in Seq(S) /\ Len(cut) = m /\ \A i \in 1..m : cut[i] = r[i]
  <2>1. /\ SubSeq(r, 1, m) \in Seq(S)
        /\ Len(SubSeq(r, 1, m)) = IF 1 <= m THEN m - 1 + 1 ELSE 0
        /\ \A i \in 1..(m - 1 + 1) : SubSeq(r, 1, m)[i] = r[1 + i - 1]
    BY <1>4, <1>6, SubSeqProperties
  <2> QED BY <1>4, <1>5, <1>6, <2>1
<1>8. SubSeq(cut, 1, m) = cut
  <2>1. cut = [i \in 1..m |-> cut[i]] /\ cut \in [1..m -> S]
    BY <1>7
  <2>2. \A i \in 1..m : cut[i] \in S
    BY <2>1
  <2>3. /\ SubSeq(cut, 1, m) \in Seq(S)
        /\ Len(SubSeq(cut, 1, m)) = IF 1 <= m THEN m - 1 + 1 ELSE 0
        /\ \A i \in 1..(m - 1 + 1) : SubSeq(cut, 1, m)[i] = cut[1 + i - 1]
    BY <1>4, <2>2, SubSeqProperties
  <2>4. Len(SubSeq(cut, 1, m)) = m /\ \A i \in 1..m : SubSeq(cut, 1, m)[i] = cut[i]
    BY <1>4, <2>3
  <2>5. SubSeq(cut, 1, m) = [i \in 1..m |-> SubSeq(cut, 1, m)[i]]
    BY <2>3, <2>4
  <2> QED BY <2>1, <2>4, <2>5
<1>9. IsPrefix(cut, r)
  BY <1>3, <1>4, <1>5, <1>7, <1>8 DEF IsPrefix
<1>10. PICK more : more = Append(cut, x)
  OBVIOUS
<1>11. /\ more \in Seq(S \cup {x}) /\ Len(more) = m + 1
       /\ \A i \in 1..m : more[i] = cut[i]
       /\ more[m + 1] = x
  BY <1>4, <1>7, <1>10
<1>12. SubSeq(more, 1, m) = cut
  <2>1. \A i \in 1..m : more[i] \in S
    BY <1>6, <1>7, <1>11
  <2>2. /\ SubSeq(more, 1, m) \in Seq(S)
        /\ Len(SubSeq(more, 1, m)) = IF 1 <= m THEN m - 1 + 1 ELSE 0
        /\ \A i \in 1..(m - 1 + 1) : SubSeq(more, 1, m)[i] = more[1 + i - 1]
    BY <1>4, <2>1, SubSeqProperties
  <2>3. Len(SubSeq(more, 1, m)) = m /\ \A i \in 1..m : SubSeq(more, 1, m)[i] = more[i]
    BY <1>4, <2>2
  <2>4. SubSeq(more, 1, m) = [i \in 1..m |-> SubSeq(more, 1, m)[i]]
    BY <2>2, <2>3
  <2>5. cut = [i \in 1..m |-> cut[i]]
    BY <1>7
  <2>6. \A i \in 1..m : SubSeq(more, 1, m)[i] = cut[i]
    BY <1>11, <2>3
  <2> QED BY <2>4, <2>5, <2>6
<1>13. IsPrefix(cut, more)
  BY <1>4, <1>7, <1>8, <1>11, <1>12 DEF IsPrefix
<1>14. Range(more) = Range(cut) \cup {x}
  <2>1. DOMAIN more = 1..(m + 1) /\ DOMAIN cut = 1..m
    BY <1>7, <1>11
  <2>2. 1..(m + 1) = 1..m \cup {m + 1}
    BY <1>4
  <2> QED BY <1>11, <2>1, <2>2 DEF Range
<1> QED BY <1>1, <1>9, <1>10, <1>13, <1>14

-----------------------------------------------------------------------------
(* What a selection keeps and adds, and what is counted.                    *)

\* A selection keeps its first places and adds at most one visible candidate.
KeepsAndAdds(baseline, pool, selected) ==
    /\ IsPrefix(Cut(baseline, PreserveTopK), selected)
    /\ Range(selected) \subseteq Range(pool) \cap Visible
    /\ Cardinality(Range(selected) \ Range(baseline)) <= 1

\* So does what the links bring into a ranking of visible candidates.
LEMMA SelectionIsSound ==
    ASSUME NEW baseline, NEW pool, NEW S, IsRanking(baseline, S),
           Range(baseline) \subseteq Range(pool), Range(pool) \subseteq Visible
    PROVE  KeepsAndAdds(baseline, pool, SelectCoverage(baseline, pool))
<1> DEFINE options == {o \in (DOMAIN Cut(baseline, AnchorTopK)) \X (DOMAIN Links) :
                          /\ Links[o[2]].source = baseline[o[1]]
                          /\ Links[o[2]].target \notin Range(baseline)
                          /\ Links[o[2]].target \in Range(pool) \cap Visible}
           Earliest(o) == \A p \in options : o[1] < p[1] \/ (o[1] = p[1] /\ o[2] <= p[2])
           target == Links[(CHOOSE o \in options : Earliest(o))[2]].target
           selected == SelectCoverage(baseline, pool)
           kept == Cut(baseline, PreserveTopK)
<1>1. selected = IF options = {} THEN baseline ELSE Append(kept, target)
  BY DEF SelectCoverage
<1>2. PreserveTopK \in Nat /\ AnchorTopK \in Nat
  BY EvaluationAssumption
<1>3. IsPrefix(kept, baseline) /\ Range(kept) \subseteq Range(baseline)
  BY <1>2, PrefixKept, CutPlaces
<1>4. CASE options = {}
  <2>1. selected = baseline
    BY <1>1, <1>4
  <2>2. Range(selected) \ Range(baseline) = {}
    BY <2>1
  <2>3. Cardinality(Range(selected) \ Range(baseline)) <= 1
    <3> HIDE DEF selected
    <3>1. Cardinality(Range(selected) \ Range(baseline)) = 0
      BY <2>2, FS_EmptySet
    <3> QED BY <3>1
  <2> HIDE DEF selected, kept
  <2>4. /\ IsPrefix(kept, selected) /\ Range(selected) \subseteq Range(pool) \cap Visible
        /\ Cardinality(Range(selected) \ Range(baseline)) <= 1
    BY <1>3, <2>1, <2>3
  <2> QED BY <2>4 DEF KeepsAndAdds, selected, kept
<1>5. CASE options # {}
  <2>1. options \in SUBSET (Nat \X Nat)
    <3>1. DOMAIN Cut(baseline, AnchorTopK) \subseteq Nat
      <4>1. PICK n \in Nat : baseline \in [1..n -> S]
        BY DEF IsRanking
      <4>2. \A i \in DOMAIN Cut(baseline, AnchorTopK) : i \in DOMAIN baseline
        BY <1>2, CutPlaces
      <4> QED BY <4>1, <4>2
    <3> QED BY <3>1, LinksAreNumbered
  <2>2. \E o \in options : Earliest(o)
    <3> HIDE DEF options
    <3> QED BY <1>5, <2>1, FirstPair
  <2>3. target \notin Range(baseline) /\ target \in Range(pool) \cap Visible
    <3>1. PICK o \in options : target = Links[o[2]].target
      <4> HIDE DEF options
      <4> QED BY <2>2
    <3> QED BY <3>1
  <2> HIDE DEF target
  <2>4. selected = Append(kept, target)
    BY <1>1, <1>5
  <2>5. IsPrefix(kept, Append(kept, target)) /\ Range(Append(kept, target)) = Range(kept) \cup {target}
    BY <1>2, PrefixKept
  <2> HIDE DEF selected, kept
  <2>6. Range(selected) \ Range(baseline) \in SUBSET {target}
    BY <1>3, <2>4, <2>5
  <2>7. Cardinality(Range(selected) \ Range(baseline)) <= 1
    <3>1. IsFiniteSet({target}) /\ Cardinality({target}) = 1
      BY FS_Singleton
    <3> QED BY <2>6, <3>1, FS_Subset
  <2>8. /\ IsPrefix(kept, selected) /\ Range(selected) \subseteq Range(pool) \cap Visible
    BY <1>3, <2>3, <2>4, <2>5
  <2> QED BY <2>7, <2>8 DEF KeepsAndAdds, selected, kept
<1> QED BY <1>4, <1>5

\* The calls that failed: the pass, the query and the channel.
Failures(passes) ==
    {f \in (DOMAIN passes) \X Nat \X Channels :
        f[2] \in DOMAIN passes[f[1]] /\ passes[f[1]][f[2]].results[f[3]].error}

\* The queries of a pass whose call of a channel failed.
ErrorsIn(pass, c) == {i \in DOMAIN pass : pass[i].results[c].error}

\* A channel's errors in a pass are as many as its calls that failed.
LEMMA FailuresCounted ==
    ASSUME NEW passes, NEW w \in DOMAIN passes, NEW c \in Channels, NEW n \in Nat, DOMAIN passes[w] = 1..n
    PROVE  /\ Cardinality(ErrorsIn(passes[w], c)) = Cardinality({f \in Failures(passes) : f[1] = w /\ f[3] = c})
           /\ Cardinality(ErrorsIn(passes[w], c)) \in Nat
           /\ ~(Cardinality(ErrorsIn(passes[w], c)) > 0) => ErrorsIn(passes[w], c) = {}
<1> DEFINE errors == {i \in DOMAIN passes[w] : passes[w][i].results[c].error}
           calls == {f \in Failures(passes) : f[1] = w /\ f[3] = c}
           g == [i \in errors |-> <<w, i, c>>]
<1>1. IsFiniteSet(errors)
  <2>1. IsFiniteSet(1..n)
    BY FS_Interval
  <2>2. errors \in SUBSET (1..n)
    OBVIOUS
  <2> HIDE DEF errors
  <2> QED BY <2>1, <2>2, FS_Subset
<1>2. \A i \in errors : <<w, i, c>> \in calls
  <2> SUFFICES ASSUME NEW i \in errors PROVE <<w, i, c>> \in calls
    OBVIOUS
  <2>1. i \in Nat /\ i \in DOMAIN passes[w] /\ passes[w][i].results[c].error
    OBVIOUS
  <2>2. PICK f : f = <<w, i, c>>
    OBVIOUS
  <2>3. f \in (DOMAIN passes) \X Nat \X Channels /\ f[1] = w /\ f[2] = i /\ f[3] = c
    BY <2>1, <2>2
  <2>4. f \in Failures(passes)
    BY <2>1, <2>3 DEF Failures
  <2> QED BY <2>2, <2>3, <2>4
<1>3. \A f \in calls : f[2] \in errors /\ f = <<w, f[2], c>>
  <2> SUFFICES ASSUME NEW f \in calls PROVE f[2] \in errors /\ f = <<w, f[2], c>>
    OBVIOUS
  <2>1. f \in (DOMAIN passes) \X Nat \X Channels /\ f[1] = w /\ f[3] = c
    BY DEF Failures
  <2>2. f[2] \in DOMAIN passes[f[1]] /\ passes[f[1]][f[2]].results[f[3]].error
    BY DEF Failures
  <2> QED BY <2>1, <2>2
<1> HIDE DEF calls, errors
<1>4. g \in [errors -> calls]
  BY <1>2
<1>5. g \in Injection(errors, calls)
  <2>1. \A i, j \in errors : g[i] = g[j] => i = j
    OBVIOUS
  <2>2. DOMAIN g = errors
    OBVIOUS
  <2> HIDE DEF g
  <2> QED BY <1>4, <2>1, <2>2 DEF Injection, IsInjective
<1>6. g \in Surjection(errors, calls)
  <2>1. \A f \in calls : g[f[2]] = f
    BY <1>3
  <2> HIDE DEF g
  <2> QED BY <1>3, <1>4, <2>1 DEF Surjection
<1> HIDE DEF g
<1>7. Cardinality(calls) = Cardinality(errors)
  BY <1>1, <1>5, <1>6, FS_Bijection DEF Bijection, ExistsBijection
<1>8. Cardinality(errors) \in Nat
  BY <1>1, FS_CardinalityType
<1>9. ~(Cardinality(errors) > 0) => errors = {}
  <2>1. Cardinality(errors) = 0 <=> errors = {}
    BY <1>1, FS_EmptySet
  <2> QED BY <1>8, <2>1
<1>10. errors = ErrorsIn(passes[w], c)
  BY DEF errors, ErrorsIn
<1> QED BY <1>7, <1>8, <1>9, <1>10 DEF calls

-----------------------------------------------------------------------------
(* The passes of an experiment, step by step.                               *)

\* A sequence of anything.
IsSequence(s) == \E S : s \in Seq(S)

\* Its places are numbered from 1.
LEMMA SequencePlaces ==
    ASSUME NEW s, IsSequence(s)
    PROVE  Len(s) \in Nat /\ DOMAIN s = 1..Len(s) /\ s = [i \in DOMAIN s |-> s[i]]
BY DEF IsSequence

\* A function over the first numbers is a sequence.
LEMMA NumberedIsSequence ==
    ASSUME NEW n \in Nat, NEW s, DOMAIN s = 1..n, s = [i \in DOMAIN s |-> s[i]]
    PROVE  IsSequence(s) /\ Len(s) = n
<1> DEFINE S == {s[i] : i \in 1..n}
<1>1. s \in [1..n -> S]
  OBVIOUS
<1> HIDE DEF S
<1>2. s \in Seq(S) /\ Len(s) = n
  BY <1>1
<1> QED BY <1>2 DEF IsSequence

\* Appending keeps the places there were and adds one.
LEMMA AppendedPlaces ==
    ASSUME NEW s, IsSequence(s), NEW x
    PROVE  /\ IsSequence(Append(s, x)) /\ Len(Append(s, x)) = Len(s) + 1
           /\ \A i \in 1..Len(s) : Append(s, x)[i] = s[i]
           /\ Append(s, x)[Len(s) + 1] = x
<1>1. PICK S : s \in Seq(S)
  BY DEF IsSequence
<1>2. PICK t : t = Append(s, x)
  OBVIOUS
<1>3. t \in Seq(S \cup {x}) /\ Len(t) = Len(s) + 1 /\ (\A i \in 1..Len(s) : t[i] = s[i]) /\ t[Len(s) + 1] = x
  BY <1>1, <1>2
<1> QED BY <1>2, <1>3 DEF IsSequence

\* Replacing one place leaves the others.
LEMMA ReplacedPlaces ==
    ASSUME NEW s, IsSequence(s), NEW n \in DOMAIN s, NEW x
    PROVE  /\ IsSequence([s EXCEPT ![n] = x]) /\ Len([s EXCEPT ![n] = x]) = Len(s)
           /\ [s EXCEPT ![n] = x][n] = x
           /\ \A i \in DOMAIN s : i # n => [s EXCEPT ![n] = x][i] = s[i]
<1>1. PICK t : t = [s EXCEPT ![n] = x]
  OBVIOUS
<1>2. Len(s) \in Nat /\ DOMAIN s = 1..Len(s)
  BY SequencePlaces
<1>3. /\ DOMAIN t = DOMAIN s /\ t = [i \in DOMAIN t |-> t[i]]
      /\ t[n] = x /\ \A i \in DOMAIN s : i # n => t[i] = s[i]
  BY <1>1
<1>4. IsSequence(t) /\ Len(t) = Len(s)
  BY <1>2, <1>3, NumberedIsSequence
<1> QED BY <1>1, <1>3, <1>4

-----------------------------------------------------------------------------

\* The passes of an experiment: one for each window.
PassesOf(kind) == IF kind = "windows" THEN 2 ELSE 1

\* The passes of an experiment run at the first of the two windows, in order.
LEMMA WindowsOfPasses ==
    ASSUME NEW kind
    PROVE  /\ Len(Windows) = 2 /\ Len(WindowsOf(kind)) = PassesOf(kind)
           /\ \A w \in 1..PassesOf(kind) : w \in 1..2 /\ WindowsOf(kind)[w] = Windows[w]
<1>1. Windows \in [1..2 -> Nat]
  BY EvaluationAssumption
<1>2. Windows \in Seq(Nat) /\ Len(Windows) = 2 /\ Head(Windows) = Windows[1]
  <2>1. PICK n \in Nat : n = 2
    OBVIOUS
  <2>2. Windows \in [1..n -> Nat]
    BY <1>1, <2>1
  <2>3. Windows \in Seq(Nat) /\ Len(Windows) = n
    BY <2>2
  <2>4. Head(Windows) = Windows[1]
    BY <2>1, <2>3
  <2> QED BY <2>1, <2>3, <2>4
<1>3. CASE kind = "windows"
  BY <1>2, <1>3 DEF WindowsOf, PassesOf
<1>4. CASE kind # "windows"
  <2>1. WindowsOf(kind) = <<Windows[1]>> /\ PassesOf(kind) = 1
    BY <1>2, <1>4 DEF WindowsOf, PassesOf
  <2>2. PICK one : one = WindowsOf(kind)
    OBVIOUS
  <2>3. Len(one) = 1 /\ one[1] = Windows[1]
    BY <2>1, <2>2
  <2>4. \A w \in 1..1 : w = 1 /\ w \in 1..2
    OBVIOUS
  <2> QED BY <1>2, <2>1, <2>2, <2>3, <2>4
<1> QED BY <1>3, <1>4

\* Phases after the last pass, and those with a report.
MeasuredPhases == {"measured", "completed", "incomplete"}
ReportedPhases == {"completed", "incomplete"}

\* Every runtime that was built measures one pass, and every window has one in the end.
Counted(e) ==
    /\ e.phase = "loaded" => Len(e.corpora) = Len(e.passes) /\ Len(e.passes) < PassesOf(e.kind)
    /\ e.phase = "built" => Len(e.corpora) = Len(e.passes) + 1 /\ Len(e.corpora) <= PassesOf(e.kind)
    /\ e.phase = "measuring" => Len(e.corpora) = Len(e.passes) /\ Len(e.passes) \in 1..PassesOf(e.kind)
    /\ e.phase \in MeasuredPhases => Len(e.passes) = PassesOf(e.kind)

\* The pass that is being measured.
Running(e, w) == e.phase = "measuring" /\ w = Len(e.passes)

\* What is recorded of a query before its ranks are diagnosed.
RowFields(row) ==
    row = [results |-> row.results, trace |-> row.trace, full |-> row.full, unscanned |-> row.unscanned]

\* The rows of a pass are recorded at its window, and diagnosed once it is over.
PassSound(e, w) ==
    /\ IsSequence(e.passes[w]) /\ Len(e.passes[w]) <= Len(e.cases)
    /\ ~Running(e, w) => Len(e.passes[w]) = Len(e.cases)
    /\ \A i \in DOMAIN e.passes[w] :
          /\ Recorded(e.cases[i], Windows[w], e.passes[w][i])
          /\ Running(e, w) => RowFields(e.passes[w][i])
          /\ e.kind = "windows" /\ ~Running(e, w) => RanksSound(e.cases[i], e.passes[w][i])

\* Nothing is traced of a query that is not measured yet.
TraceKept(e) ==
    e.phase = "measuring" =>
        /\ DOMAIN e.trace = DOMAIN e.cases
        /\ \A i \in DOMAIN e.cases : i > Len(e.passes[Len(e.passes)]) => e.trace[i] = NoTrace

\* Every row that was reranked is one a selection may be made in.
Covered(e) ==
    e.kind \in {"coverage", "replay"} /\ e.phase \in MeasuredPhases =>
        \A i \in DOMAIN e.cases :
            LET row == e.passes[1][i]
            IN  row.results["reranked"].error
                \/ (/\ Range(row.results["reranked"].ids) \subseteq Range(row.trace.hybrid)
                    /\ Range(row.trace.hybrid) \subseteq Visible)

\* A report sums up the passes.
ReportOf(e) ==
    e.phase \in ReportedPhases =>
        /\ e.report = [status |-> e.report.status, real |-> e.report.real,
                       summaries |-> e.report.summaries, detail |-> e.report.detail]
        /\ e.report.summaries = [w \in DOMAIN e.passes |-> Summaries(e.cases, e.passes[w])]
        /\ e.report.status = "completed" => e.failed = {}
        /\ e.kind \in {"coverage", "replay"} =>
              e.report.detail = CoverageReport([i \in DOMAIN e.cases |-> CoverageRow(e.cases[i], e.passes[1][i])])

\* What an experiment under way has measured so far.
BegunPhases == MeasuredPhases \cup {"loaded", "built", "measuring"}
Measurement(e) ==
    /\ e.phase \in BegunPhases =>
          /\ e.cases \in CaseLists
          /\ IsSequence(e.passes) /\ \A w \in DOMAIN e.passes : PassSound(e, w)
          /\ Counted(e) /\ e.failed = Failures(e.passes)
          /\ TraceKept(e) /\ Covered(e) /\ ReportOf(e)
    /\ e.report # Absent => e.phase \in ReportedPhases

\* An experiment that ends without a report has measured nothing.
LEMMA BlockedMeasurement ==
    ASSUME NEW e, Measurement(e), e.phase \notin ReportedPhases, NEW f, f.phase = "blocked", f.report = e.report
    PROVE  Measurement(f)
BY DEF Measurement, BegunPhases, MeasuredPhases, ReportedPhases

\* A step between passes: the pass before it, if any, is over.
LEMMA BetweenPasses ==
    ASSUME NEW e, Measurement(e), NEW f, f.kind = e.kind, f.cases = e.cases, f.passes = e.passes,
           f.failed = e.failed, f.report = e.report, f.phase \in {"built", "measured"},
           e.phase = "measuring" => e.kind # "windows" /\ Len(e.passes[Len(e.passes)]) = Len(e.cases),
           e.phase \in {"loaded", "measuring"}, Counted(f), Covered(f)
    PROVE  Measurement(f)
<1>1. e.phase \in BegunPhases /\ f.phase \in BegunPhases /\ f.phase \notin ReportedPhases /\ e.phase \notin ReportedPhases
  BY DEF BegunPhases, MeasuredPhases, ReportedPhases
<1>2. ASSUME NEW w \in DOMAIN f.passes PROVE PassSound(f, w)
  <2>1. PassSound(e, w) /\ ~Running(f, w)
    BY <1>1, <1>2 DEF Measurement, Running
  <2>2. Running(e, w) => e.kind # "windows" /\ Len(e.passes[w]) = Len(e.cases)
    BY DEF Running
  <2> QED BY <2>1, <2>2 DEF PassSound
<1>3. TraceKept(f) /\ ReportOf(f)
  BY <1>1 DEF TraceKept, ReportOf
<1> QED BY <1>1, <1>2, <1>3 DEF Measurement

\* One query more is recorded in the pass that runs.
LEMMA MeasuredStep ==
    ASSUME EvaluationInv, Measurement(experiment), NEW lost \in SUBSET Channels, MeasureCase(lost)
    PROVE  Measurement(experiment')
<1>1. PICK e : e = experiment
  OBVIOUS
<1>2. PICK f : f = experiment'
  OBVIOUS
<1>3. PICK n : n = Len(e.passes)
  OBVIOUS
<1>4. PICK pass : pass = e.passes[n]
  OBVIOUS
<1>5. PICK i : i = Len(pass) + 1
  OBVIOUS
<1>6. PICK case : case = e.cases[i]
  OBVIOUS
<1>7. PICK trace : trace = Traced(e.trace[i], case, Window, lost)
  OBVIOUS
<1>8. PICK row : row = [results |-> [c \in Channels |-> ChannelResult(case, c, Window, lost)],
                        trace |-> trace, full |-> [s \in RankedSources |-> <<>>], unscanned |-> RankedSources]
  OBVIOUS
<1>9. PICK calls : calls = {n} \X {i} \X lost
  OBVIOUS
<1>10. e.phase = "measuring" /\ Len(pass) < Len(e.cases)
  BY <1>1, <1>3, <1>4 DEF MeasureCase, Pass
<1>11. f = [e EXCEPT !.trace[i] = trace, !.passes[n] = Append(@, row), !.failed = @ \cup calls]
  BY <1>1, <1>2, <1>3, <1>4, <1>5, <1>6, <1>7, <1>8, <1>9 DEF MeasureCase, Pass
<1>12. Fields(e) /\ Measurement(e)
  BY <1>1 DEF EvaluationInv
<1>13. /\ f.kind = e.kind /\ f.cases = e.cases /\ f.phase = e.phase /\ f.corpora = e.corpora
       /\ f.report = e.report
       /\ f.trace = [e.trace EXCEPT ![i] = trace]
       /\ f.passes = [e.passes EXCEPT ![n] = Append(pass, row)]
       /\ f.failed = e.failed \cup calls
  BY <1>4, <1>11, <1>12 DEF Fields
<1>14. /\ e.cases \in CaseLists /\ IsSequence(e.passes) /\ Counted(e) /\ e.failed = Failures(e.passes)
       /\ TraceKept(e) /\ \A w \in DOMAIN e.passes : PassSound(e, w)
       /\ e.report = Absent
  BY <1>10, <1>12 DEF Measurement, BegunPhases, ReportedPhases
<1>15. /\ n \in 1..PassesOf(e.kind) /\ Len(e.corpora) = n
       /\ Len(e.cases) \in Nat /\ DOMAIN e.cases = 1..Len(e.cases)
  BY <1>3, <1>10, <1>14, EvaluationAssumption DEF Counted
<1>16. DOMAIN e.passes = 1..n /\ n \in Nat /\ n \in DOMAIN e.passes /\ Running(e, n)
  <2>1. Len(e.passes) \in Nat /\ DOMAIN e.passes = 1..Len(e.passes)
    BY <1>14, SequencePlaces
  <2>2. n >= 1
    BY <1>15 DEF PassesOf
  <2> QED BY <1>3, <1>10, <2>1, <2>2 DEF Running
<1>17. Window = Windows[n] /\ n \in 1..2
  <2>1. Window = WindowsOf(e.kind)[n]
    BY <1>1, <1>15 DEF Window
  <2> QED BY <1>15, <2>1, WindowsOfPasses
<1>18. IsSequence(pass) /\ PassSound(e, n)
  BY <1>4, <1>14, <1>16 DEF PassSound
<1>19. PICK more : more = Append(pass, row)
  OBVIOUS
<1>20. /\ Len(pass) \in Nat /\ DOMAIN pass = 1..Len(pass)
       /\ IsSequence(more) /\ Len(more) = i
       /\ (\A j \in 1..Len(pass) : more[j] = pass[j]) /\ more[i] = row
  <2>1. Len(pass) \in Nat /\ DOMAIN pass = 1..Len(pass)
    BY <1>18, SequencePlaces
  <2>2. /\ IsSequence(more) /\ Len(more) = Len(pass) + 1
        /\ (\A j \in 1..Len(pass) : more[j] = pass[j]) /\ more[Len(pass) + 1] = row
    BY <1>18, <1>19, AppendedPlaces
  <2> QED BY <1>5, <2>1, <2>2
<1>21. DOMAIN more = 1..i /\ i \in Nat /\ i >= 1 /\ i \notin 1..Len(pass) /\ 1..i = 1..Len(pass) \cup {i}
  <2>1. DOMAIN more = 1..Len(more)
    BY <1>20, SequencePlaces
  <2> QED BY <1>5, <1>20, <2>1
<1>22. /\ IsSequence(f.passes) /\ Len(f.passes) = n /\ DOMAIN f.passes = 1..n
       /\ f.passes[n] = more /\ \A w \in DOMAIN e.passes : w # n => f.passes[w] = e.passes[w]
  <2>1. /\ IsSequence(f.passes) /\ Len(f.passes) = Len(e.passes) /\ f.passes[n] = more
        /\ \A w \in DOMAIN e.passes : w # n => f.passes[w] = e.passes[w]
    BY <1>13, <1>14, <1>16, <1>19, ReplacedPlaces
  <2>2. DOMAIN f.passes = 1..Len(f.passes)
    BY <2>1, SequencePlaces
  <2> QED BY <1>3, <2>1, <2>2
<1>23. i \in DOMAIN e.cases /\ i <= Len(e.cases)
  BY <1>5, <1>10, <1>15, <1>20
<1>24. e.trace[i] = NoTrace /\ DOMAIN e.trace = DOMAIN e.cases
  <2>1. i > Len(pass)
    BY <1>5, <1>20
  <2> QED BY <1>3, <1>4, <1>10, <1>14, <1>23, <2>1 DEF TraceKept
<1>25. /\ row.results = [c \in Channels |-> ChannelResult(case, c, Windows[n], lost)]
       /\ row.trace = Traced(NoTrace, case, Windows[n], lost)
       /\ RowFields(row)
  <2>1. row.results = [c \in Channels |-> ChannelResult(case, c, Window, lost)] /\ row.trace = trace
    BY <1>8
  <2>2. RowFields(row)
    BY <1>8 DEF RowFields
  <2> QED BY <1>7, <1>17, <1>24, <2>1, <2>2
<1>26. \A c \in Channels : row.results[c].error <=> c \in lost
  <2> SUFFICES ASSUME NEW c \in Channels PROVE row.results[c].error <=> c \in lost
    OBVIOUS
  <2>1. PICK result : result = ChannelResult(case, c, Windows[n], lost)
    OBVIOUS
  <2>2. row.results[c] = result
    BY <1>25, <2>1
  <2>3. result.error = (c \in lost)
    BY <2>1 DEF ChannelResult
  <2> QED BY <2>2, <2>3
<1>27. Recorded(case, Windows[n], row)
  <2>1. {c \in Channels : row.results[c].error} = lost
    BY <1>26
  <2> QED BY <1>25, <2>1 DEF Recorded
<1>28. ASSUME NEW w \in DOMAIN f.passes PROVE PassSound(f, w)
  <2>1. w \in DOMAIN e.passes /\ PassSound(e, w)
    BY <1>14, <1>16, <1>22
  <2>2. CASE w # n
    <3>1. f.passes[w] = e.passes[w] /\ ~Running(f, w) /\ ~Running(e, w)
      BY <1>3, <1>22, <2>1, <2>2 DEF Running
    <3> QED BY <1>13, <2>1, <3>1 DEF PassSound
  <2>3. CASE w = n
    <3>1. Running(f, n) /\ f.passes[n] = more /\ e.passes[n] = pass
      BY <1>4, <1>10, <1>13, <1>22 DEF Running
    <3>2. ASSUME NEW j \in 1..i PROVE Recorded(e.cases[j], Windows[n], more[j]) /\ RowFields(more[j])
      <4>1. CASE j \in 1..Len(pass)
        <5>1. Recorded(e.cases[j], Windows[n], pass[j]) /\ RowFields(pass[j])
          BY <1>4, <1>16, <1>18, <1>20, <4>1 DEF PassSound
        <5> QED BY <1>20, <4>1, <5>1
      <4>2. CASE j = i
        BY <1>6, <1>20, <1>25, <1>27, <4>2
      <4> QED BY <1>21, <4>1, <4>2
    <3> QED BY <1>13, <1>20, <1>21, <1>23, <2>3, <3>1, <3>2 DEF PassSound
  <2> QED BY <2>2, <2>3
<1>29. f.failed = Failures(f.passes)
  <2>1. ASSUME NEW g \in (1..n) \X Nat \X Channels
        PROVE  (g[2] \in DOMAIN f.passes[g[1]] /\ f.passes[g[1]][g[2]].results[g[3]].error)
                 <=> ((g[2] \in DOMAIN e.passes[g[1]] /\ e.passes[g[1]][g[2]].results[g[3]].error)
                        \/ g \in calls)
    <3>1. PICK w \in 1..n, j \in Nat, c \in Channels : g = <<w, j, c>> /\ g[1] = w /\ g[2] = j /\ g[3] = c
      BY <2>1
    <3>2. g \in calls <=> w = n /\ j = i /\ c \in lost
      BY <1>9, <3>1
    <3>3. CASE w # n
      BY <1>16, <1>22, <3>1, <3>2, <3>3
    <3>4. CASE w = n /\ j # i
      <4>1. j \in DOMAIN more <=> j \in DOMAIN pass
        BY <1>20, <1>21, <3>4
      <4>2. j \in DOMAIN pass => more[j] = pass[j]
        BY <1>20
      <4> QED BY <1>4, <1>22, <3>1, <3>2, <3>4, <4>1, <4>2
    <3>5. CASE w = n /\ j = i
      <4>1. j \in DOMAIN more /\ j \notin DOMAIN pass /\ more[j] = row
        BY <1>20, <1>21, <3>5
      <4> QED BY <1>4, <1>22, <1>26, <3>1, <3>2, <3>5, <4>1
    <3> QED BY <3>3, <3>4, <3>5
  <2>2. calls \in SUBSET ((1..n) \X Nat \X Channels)
    BY <1>9, <1>16, <1>21
  <2> QED BY <1>13, <1>14, <1>16, <1>22, <2>1, <2>2 DEF Failures
<1>30. TraceKept(f)
  <2>1. DOMAIN f.trace = DOMAIN f.cases
    BY <1>13, <1>24
  <2>2. ASSUME NEW j \in DOMAIN f.cases, j > Len(more) PROVE f.trace[j] = NoTrace
    <3>1. j # i /\ j > Len(pass) /\ j \in DOMAIN e.cases
      BY <1>5, <1>13, <1>15, <1>20, <2>2
    <3>2. e.trace[j] = NoTrace
      BY <1>3, <1>4, <1>10, <1>14, <3>1 DEF TraceKept
    <3> QED BY <1>13, <1>24, <3>1, <3>2
  <2> QED BY <1>22, <2>1, <2>2 DEF TraceKept
<1>31. Counted(f) /\ Covered(f) /\ ReportOf(f)
  <2>1. f.phase = "measuring" /\ Len(f.passes) = Len(e.passes)
    BY <1>3, <1>10, <1>13, <1>22
  <2>2. Counted(f)
    BY <1>10, <1>13, <1>14, <2>1 DEF Counted, MeasuredPhases
  <2>3. Covered(f) /\ ReportOf(f)
    BY <2>1 DEF Covered, ReportOf, MeasuredPhases, ReportedPhases
  <2> QED BY <2>2, <2>3
<1>32. Measurement(f)
  BY <1>13, <1>14, <1>22, <1>28, <1>29, <1>30, <1>31 DEF Measurement
<1> QED BY <1>2, <1>32

\* A pass is diagnosed: its scanned keep what was recorded and get sound ranks.
LEMMA DiagnosedStep ==
    ASSUME EvaluationInv, Measurement(experiment), NEW unscanned, Diagnose(unscanned)
    PROVE  Measurement(experiment')
<1>1. PICK e : e = experiment
  OBVIOUS
<1>2. PICK f : f = experiment'
  OBVIOUS
<1>3. PICK n : n = Len(e.passes)
  OBVIOUS
<1>4. PICK pass : pass = e.passes[n]
  OBVIOUS
<1> DEFINE Scan(i) ==
               [Pass[i] EXCEPT !.unscanned = {s \in RankedSources : <<i, s>> \in unscanned},
                               !.full = [s \in RankedSources |->
                                   IF <<i, s>> \in unscanned THEN <<>>
                                   ELSE IF s = "vector" THEN experiment.cases[i].vector
                                   ELSE experiment.cases[i].keyword]]
           scanned == [i \in DOMAIN Pass |-> Scan(i)]
           diagnosed == [i \in DOMAIN scanned |-> DiagnosticRow(experiment.cases[i], scanned[i])]
<1>5. /\ experiment.kind = "windows" /\ MeasuredAll
      /\ experiment' =
            IF \E i \in DOMAIN scanned : RowRefused(scanned[i], Window) THEN Blocked
            ELSE [experiment EXCEPT !.passes[Len(experiment.passes)] = diagnosed,
                                    !.phase = IF Len(experiment.passes) = Len(Windows) THEN "measured" ELSE "loaded"]
  BY DEF Diagnose
<1>6. PICK scans, after : scans = scanned /\ after = diagnosed
  OBVIOUS
<1>7. pass = Pass
  BY <1>1, <1>3, <1>4 DEF Pass
<1>8. /\ DOMAIN scans = DOMAIN pass /\ DOMAIN after = DOMAIN scans /\ after = [i \in DOMAIN after |-> after[i]]
      /\ \A i \in DOMAIN pass : scans[i] = Scan(i)
      /\ \A i \in DOMAIN scans : after[i] = DiagnosticRow(e.cases[i], scans[i])
  <2> HIDE DEF Scan
  <2> QED BY <1>1, <1>6, <1>7
<1> HIDE DEF scanned, diagnosed
<1>9. /\ e.kind = "windows" /\ e.phase = "measuring" /\ Len(pass) = Len(e.cases)
      /\ f = IF \E i \in DOMAIN scans : RowRefused(scans[i], Window) THEN Blocked
             ELSE [e EXCEPT !.passes[n] = after, !.phase = IF n = Len(Windows) THEN "measured" ELSE "loaded"]
  <2>1. e.kind = "windows" /\ e.phase = "measuring" /\ Len(pass) = Len(e.cases)
    BY <1>1, <1>5, <1>7 DEF MeasuredAll
  <2>2. CASE \E i \in DOMAIN scanned : RowRefused(scanned[i], Window)
    BY <1>2, <1>5, <1>6, <2>1, <2>2
  <2>3. CASE ~ \E i \in DOMAIN scanned : RowRefused(scanned[i], Window)
    BY <1>1, <1>2, <1>3, <1>5, <1>6, <2>1, <2>3
  <2> QED BY <2>2, <2>3
<1>10. Fields(e) /\ Measurement(e)
  BY <1>1 DEF EvaluationInv
<1>11. CASE f = Blocked
  <2>1. f.phase = "blocked" /\ f.report = e.report
    BY <1>1, <1>10, <1>11 DEF Blocked, Fields
  <2> QED BY <1>2, <1>9, <1>10, <2>1, BlockedMeasurement DEF ReportedPhases
<1>12. CASE f # Blocked
  <2>1. /\ f = [e EXCEPT !.passes[n] = after, !.phase = IF n = Len(Windows) THEN "measured" ELSE "loaded"]
        /\ \A i \in DOMAIN scans : ~RowRefused(scans[i], Window)
    BY <1>9, <1>12
  <2>2. /\ f.kind = e.kind /\ f.cases = e.cases /\ f.corpora = e.corpora /\ f.report = e.report
        /\ f.failed = e.failed /\ f.passes = [e.passes EXCEPT ![n] = after]
        /\ f.phase = IF n = Len(Windows) THEN "measured" ELSE "loaded"
    BY <1>10, <2>1 DEF Fields
  <2>3. /\ e.cases \in CaseLists /\ IsSequence(e.passes) /\ Counted(e) /\ e.failed = Failures(e.passes)
        /\ \A w \in DOMAIN e.passes : PassSound(e, w)
        /\ e.report = Absent
    BY <1>9, <1>10 DEF Measurement, BegunPhases, ReportedPhases
  <2>4. /\ n \in 1..PassesOf(e.kind) /\ Len(e.corpora) = n /\ PassesOf(e.kind) = 2
        /\ Len(e.cases) \in Nat /\ DOMAIN e.cases = 1..Len(e.cases)
    BY <1>3, <1>9, <2>3, EvaluationAssumption DEF Counted, PassesOf
  <2>5. DOMAIN e.passes = 1..n /\ n \in Nat /\ n \in DOMAIN e.passes /\ Running(e, n)
    <3>1. Len(e.passes) \in Nat /\ DOMAIN e.passes = 1..Len(e.passes)
      BY <2>3, SequencePlaces
    <3>2. n >= 1
      BY <2>4
    <3> QED BY <1>3, <1>9, <3>1, <3>2 DEF Running
  <2>6. Window = Windows[n] /\ n \in 1..2 /\ Len(Windows) = 2
    <3>1. Window = WindowsOf(e.kind)[n]
      BY <1>1, <2>4 DEF Window
    <3> QED BY <2>4, <3>1, WindowsOfPasses
  <2>7. IsSequence(pass) /\ PassSound(e, n) /\ Len(pass) \in Nat /\ DOMAIN pass = 1..Len(pass)
    <3>1. IsSequence(pass) /\ PassSound(e, n)
      BY <1>4, <2>3, <2>5 DEF PassSound
    <3> QED BY <3>1, SequencePlaces
  <2>8. ASSUME NEW i \in DOMAIN pass
        PROVE  /\ Recorded(e.cases[i], Windows[n], scans[i])
               /\ scans[i].results = pass[i].results
               /\ scans[i].unscanned = {} => /\ scans[i].full.vector = e.cases[i].vector
                                             /\ scans[i].full.bm25 = e.cases[i].keyword
    <3>1. PICK row : row = pass[i]
      OBVIOUS
    <3>2. RowFields(row) /\ Recorded(e.cases[i], Windows[n], row)
      BY <1>4, <2>5, <2>7, <3>1 DEF PassSound
    <3>3. PICK lost : lost = {s \in RankedSources : <<i, s>> \in unscanned}
      OBVIOUS
    <3>4. PICK full : full = [s \in RankedSources |-> IF <<i, s>> \in unscanned THEN <<>>
                                                      ELSE IF s = "vector" THEN experiment.cases[i].vector
                                                      ELSE experiment.cases[i].keyword]
      OBVIOUS
    <3>5. PICK scan : scan = scans[i]
      OBVIOUS
    <3>6. scan = [row EXCEPT !.unscanned = lost, !.full = full]
      <4>1. Scan(i) = [Pass[i] EXCEPT !.unscanned = lost, !.full = full]
        BY <3>3, <3>4, Zenon
      <4>2. scan = Scan(i) /\ Pass[i] = row
        <5> HIDE DEF Scan
        <5> QED BY <1>7, <1>8, <3>1, <3>5
      <4> HIDE DEF Scan
      <4> QED BY <4>1, <4>2
    <3>7. scan.results = row.results /\ scan.trace = row.trace /\ scan.unscanned = lost /\ scan.full = full
      BY <3>2, <3>6 DEF RowFields
    <3>8. lost = {} => full.vector = e.cases[i].vector /\ full.bm25 = e.cases[i].keyword
      <4>1. "vector" \in RankedSources /\ "bm25" \in RankedSources /\ "vector" # "bm25"
        BY DEF RankedSources
      <4>2. lost = {} => <<i, "vector">> \notin unscanned /\ <<i, "bm25">> \notin unscanned
        BY <3>3, <4>1
      <4>3. lost = {} => full["vector"] = e.cases[i].vector /\ full["bm25"] = e.cases[i].keyword
        BY <1>1, <3>4, <4>1, <4>2
      <4> QED BY <4>3
    <3>9. Recorded(e.cases[i], Windows[n], scan)
      BY <3>2, <3>7 DEF Recorded
    <3> QED BY <3>1, <3>5, <3>7, <3>8, <3>9
  <2>9. DOMAIN scans = DOMAIN pass /\ DOMAIN after = DOMAIN pass
    BY <1>8
  <2>10. IsSequence(after) /\ Len(after) = Len(pass)
    <3>1. after = [i \in DOMAIN after |-> after[i]]
      BY <1>8
    <3> QED BY <2>7, <2>9, <3>1, NumberedIsSequence
  <2>11. ASSUME NEW i \in DOMAIN pass
         PROVE  /\ Recorded(e.cases[i], Windows[n], after[i]) /\ RanksSound(e.cases[i], after[i])
                /\ after[i].results = pass[i].results
    <3>1. PICK row : row = scans[i]
      OBVIOUS
    <3>2. after[i] = DiagnosticRow(e.cases[i], row)
      BY <1>8, <2>9, <3>1
    <3>3. DiagnosticRow(e.cases[i], row).results = row.results /\ DiagnosticRow(e.cases[i], row).trace = row.trace
      BY DEF DiagnosticRow
    <3>4. /\ Recorded(e.cases[i], Windows[n], row) /\ row.results = pass[i].results
          /\ row.unscanned = {} => row.full.vector = e.cases[i].vector /\ row.full.bm25 = e.cases[i].keyword
      BY <2>8, <3>1
    <3>5. ~RowRefused(row, Windows[n])
      BY <2>1, <2>6, <2>9, <3>1
    <3>6. i \in DOMAIN e.cases
      BY <1>9, <2>4, <2>7
    <3>7. RanksSound(e.cases[i], DiagnosticRow(e.cases[i], row))
      BY <2>3, <2>6, <3>4, <3>5, <3>6, DiagnosedIsSound
    <3>8. Recorded(e.cases[i], Windows[n], DiagnosticRow(e.cases[i], row))
      BY <3>3, <3>4 DEF Recorded
    <3> QED BY <3>2, <3>3, <3>4, <3>7, <3>8
  <2>12. /\ IsSequence(f.passes) /\ Len(f.passes) = n /\ DOMAIN f.passes = 1..n
         /\ f.passes[n] = after /\ \A w \in DOMAIN e.passes : w # n => f.passes[w] = e.passes[w]
    <3>1. /\ IsSequence(f.passes) /\ Len(f.passes) = Len(e.passes) /\ f.passes[n] = after
          /\ \A w \in DOMAIN e.passes : w # n => f.passes[w] = e.passes[w]
      BY <2>2, <2>3, <2>5, ReplacedPlaces
    <3>2. DOMAIN f.passes = 1..Len(f.passes)
      BY <3>1, SequencePlaces
    <3> QED BY <1>3, <3>1, <3>2
  <2>13. f.phase \in BegunPhases /\ f.phase \notin ReportedPhases /\ f.phase # "measuring"
    BY <2>2 DEF BegunPhases, MeasuredPhases, ReportedPhases
  <2>14. ASSUME NEW w \in DOMAIN f.passes PROVE PassSound(f, w)
    <3>1. w \in DOMAIN e.passes /\ PassSound(e, w) /\ ~Running(f, w)
      BY <2>3, <2>5, <2>12, <2>13 DEF Running
    <3>2. CASE w # n
      <4>1. f.passes[w] = e.passes[w] /\ ~Running(e, w)
        BY <1>3, <2>12, <3>1, <3>2 DEF Running
      <4> QED BY <2>2, <3>1, <4>1 DEF PassSound
    <3>3. CASE w = n
      <4>1. Len(after) = Len(e.cases)
        BY <1>9, <2>10
      <4>2. Len(after) <= Len(e.cases)
        BY <2>4, <4>1
      <4> QED BY <2>2, <2>9, <2>10, <2>11, <2>12, <3>1, <3>3, <4>1, <4>2 DEF PassSound
    <3> QED BY <3>2, <3>3
  <2>15. f.failed = Failures(f.passes)
    <3>1. ASSUME NEW g \in (1..n) \X Nat \X Channels
          PROVE  (g[2] \in DOMAIN f.passes[g[1]] /\ f.passes[g[1]][g[2]].results[g[3]].error)
                   <=> (g[2] \in DOMAIN e.passes[g[1]] /\ e.passes[g[1]][g[2]].results[g[3]].error)
      <4>1. PICK w \in 1..n, j \in Nat, c \in Channels : g = <<w, j, c>> /\ g[1] = w /\ g[2] = j /\ g[3] = c
        BY <3>1
      <4>2. CASE w # n
        BY <2>5, <2>12, <4>1, <4>2
      <4>3. CASE w = n
        <5>1. j \in DOMAIN after <=> j \in DOMAIN pass
          BY <2>9
        <5>2. j \in DOMAIN pass => after[j].results = pass[j].results
          BY <2>11
        <5> QED BY <1>4, <2>12, <4>1, <4>3, <5>1, <5>2
      <4> QED BY <4>2, <4>3
    <3> QED BY <2>2, <2>3, <2>5, <2>12, <3>1 DEF Failures
  <2>16. Counted(f)
    <3>1. n = 2 => f.phase = "measured"
      BY <2>2, <2>6
    <3>2. n # 2 => f.phase = "loaded" /\ n < 2
      BY <2>2, <2>6
    <3> QED BY <2>2, <2>4, <2>12, <3>1, <3>2 DEF Counted, MeasuredPhases
  <2>17. TraceKept(f) /\ Covered(f) /\ ReportOf(f)
    BY <1>9, <2>2, <2>13 DEF TraceKept, Covered, ReportOf
  <2>18. Measurement(f)
    BY <2>2, <2>3, <2>12, <2>13, <2>14, <2>15, <2>16, <2>17 DEF Measurement
  <2> QED BY <1>2, <2>18
<1> QED BY <1>11, <1>12

\* What is reported of a pass in a channel.
LEMMA SummariesOfPass ==
    ASSUME NEW cases, NEW pass, NEW c \in Channels
    PROVE  /\ Summaries(cases, pass)[c].count = Len(pass)
           /\ Summaries(cases, pass)[c].errors = Cardinality(ErrorsIn(pass, c))
<1>1. Summaries(cases, pass)[c] = Summary(cases, pass, c)
  BY DEF Summaries
<1>2. PICK score : score = Average(cases, pass, c)
  OBVIOUS
<1>3. PICK errors : errors = Cardinality(ErrorsIn(pass, c))
  OBVIOUS
<1>4. Summary(cases, pass, c) = [count |-> Len(pass), score |-> score, errors |-> errors]
  BY <1>2, <1>3 DEF Summary, ErrorsIn
<1> QED BY <1>1, <1>3, <1>4

\* When no channel of a pass has errors, no call failed.
LEMMA NoErrors ==
    ASSUME NEW passes, IsSequence(passes), \A w \in DOMAIN passes : IsSequence(passes[w]),
           \A w \in DOMAIN passes, c \in Channels : ~(Cardinality(ErrorsIn(passes[w], c)) > 0)
    PROVE  Failures(passes) = {}
<1> SUFFICES ASSUME NEW f \in Failures(passes) PROVE FALSE
  OBVIOUS
<1>1. PICK w \in DOMAIN passes, i \in Nat, c \in Channels :
          f = <<w, i, c>> /\ i \in DOMAIN passes[w] /\ passes[w][i].results[c].error
  <2>1. f \in (DOMAIN passes) \X Nat \X Channels
    BY DEF Failures
  <2>2. f[2] \in DOMAIN passes[f[1]] /\ passes[f[1]][f[2]].results[f[3]].error
    BY DEF Failures
  <2>3. f = <<f[1], f[2], f[3]>> /\ f[1] \in DOMAIN passes /\ f[2] \in Nat /\ f[3] \in Channels
    BY <2>1
  <2> QED BY <2>2, <2>3
<1>2. Len(passes[w]) \in Nat /\ DOMAIN passes[w] = 1..Len(passes[w])
  BY SequencePlaces
<1>3. ~(Cardinality(ErrorsIn(passes[w], c)) > 0) => ErrorsIn(passes[w], c) = {}
  BY <1>2, FailuresCounted
<1>4. i \in ErrorsIn(passes[w], c)
  BY <1>1 DEF ErrorsIn
<1> QED BY <1>3, <1>4

\* What is published sums up what was measured.
LEMMA PublishedStep ==
    ASSUME EvaluationInv, Measurement(experiment), Publish
    PROVE  Measurement(experiment')
<1>1. PICK e : e = experiment
  OBVIOUS
<1>2. PICK f : f = experiment'
  OBVIOUS
<1>3. Fields(e) /\ Measurement(e) /\ e.phase = "measured" /\ e.kind # "replay"
  BY <1>1 DEF EvaluationInv, Accounted, Publish
<1>4. CASE Drifted
  <2>1. f = Blocked
    BY <1>2, <1>4 DEF Publish
  <2>2. f.phase = "blocked" /\ f.report = e.report
    BY <1>1, <1>3, <2>1 DEF Blocked, Fields
  <2> QED BY <1>2, <1>3, <2>2, BlockedMeasurement DEF ReportedPhases
<1>5. CASE ~Drifted
  <2>1. PICK report : report = Report
    OBVIOUS
  <2>2. f = [e EXCEPT !.report = report, !.phase = report.status]
    BY <1>1, <1>2, <1>5, <2>1 DEF Publish
  <2>3. /\ f.kind = e.kind /\ f.cases = e.cases /\ f.corpora = e.corpora /\ f.passes = e.passes
        /\ f.failed = e.failed /\ f.report = report /\ f.phase = report.status
    BY <1>3, <2>2 DEF Fields
  <2> DEFINE summaries == [w \in DOMAIN experiment.passes |-> Summaries(experiment.cases, experiment.passes[w])]
             unscanned == experiment.kind = "windows"
                          /\ \E w \in DOMAIN experiment.passes, i \in DOMAIN experiment.cases :
                                experiment.passes[w][i].unscanned # {}
             errors == (\E w \in DOMAIN experiment.passes, c \in Channels : summaries[w][c].errors > 0) \/ unscanned
             selections == [i \in DOMAIN experiment.cases |-> CoverageRow(experiment.cases[i], experiment.passes[1][i])]
  <2>4. /\ report.status = IF errors THEN "incomplete" ELSE "completed"
        /\ report.summaries = summaries
        /\ report = [status |-> report.status, real |-> report.real, summaries |-> report.summaries,
                     detail |-> report.detail]
    BY <2>1 DEF Report
  <2>5. experiment.kind = "coverage" => report.detail = CoverageReport(selections)
    <3> DEFINE found == [w \in DOMAIN experiment.passes |-> WindowSummary(experiment.cases, experiment.passes[w])]
    <3>1. report.detail = CASE experiment.kind = "coverage" -> CoverageReport(selections)
                            [] experiment.kind = "windows" ->
                                 [windows |-> found, compared |-> WindowsCompared(experiment.passes, found)]
                            [] OTHER -> Absent
      BY <2>1 DEF Report
    <3> HIDE DEF selections, found
    <3>2. "coverage" # "windows"
      OBVIOUS
    <3> QED BY <3>1, <3>2, Zenon
  <2>6. PICK sums, table : sums = summaries /\ table = selections
    OBVIOUS
  <2>7. /\ sums = [w \in DOMAIN e.passes |-> Summaries(e.cases, e.passes[w])]
        /\ table = [i \in DOMAIN e.cases |-> CoverageRow(e.cases[i], e.passes[1][i])]
    BY <1>1, <2>6
  <2>8. report.status = "completed" => \A w \in DOMAIN e.passes, c \in Channels : ~(sums[w][c].errors > 0)
    <3> HIDE DEF unscanned, selections, summaries
    <3>1. report.status = "completed" => ~errors
      <4> HIDE DEF errors
      <4> QED BY <2>4
    <3> QED BY <1>1, <2>6, <3>1
  <2>9. report.status \in {"completed", "incomplete"}
    <3> HIDE DEF errors
    <3> QED BY <2>4
  <2> HIDE DEF summaries, unscanned, errors, selections
  <2>10. /\ e.cases \in CaseLists /\ IsSequence(e.passes) /\ Counted(e) /\ e.failed = Failures(e.passes)
         /\ \A w \in DOMAIN e.passes : PassSound(e, w)
         /\ Covered(e)
    BY <1>3 DEF Measurement, BegunPhases, MeasuredPhases
  <2>11. report.status = "completed" => e.failed = {}
    <3> SUFFICES ASSUME report.status = "completed" PROVE Failures(e.passes) = {}
      BY <2>10
    <3>1. ASSUME NEW w \in DOMAIN e.passes, NEW c \in Channels
          PROVE  ~(Cardinality(ErrorsIn(e.passes[w], c)) > 0)
      <4>1. ~(sums[w][c].errors > 0)
        BY <2>8
      <4>2. sums[w] = Summaries(e.cases, e.passes[w])
        BY <2>7
      <4> QED BY <4>1, <4>2, SummariesOfPass
    <3>2. \A w \in DOMAIN e.passes : IsSequence(e.passes[w])
      BY <2>10 DEF PassSound
    <3> QED BY <2>10, <3>1, <3>2, NoErrors
  <2>12. f.phase \in BegunPhases /\ f.phase \in MeasuredPhases /\ f.phase # "measuring" /\ f.phase \in ReportedPhases
    BY <2>3, <2>9 DEF BegunPhases, MeasuredPhases, ReportedPhases
  <2>13. ASSUME NEW w \in DOMAIN f.passes PROVE PassSound(f, w)
    <3>1. PassSound(e, w) /\ ~Running(e, w) /\ ~Running(f, w)
      BY <1>3, <2>3, <2>10, <2>12 DEF Running
    <3> QED BY <2>3, <3>1 DEF PassSound
  <2>14. Counted(f) /\ TraceKept(f)
    <3>1. Len(f.passes) = PassesOf(f.kind)
      BY <1>3, <2>3, <2>10 DEF Counted, MeasuredPhases
    <3> QED BY <2>12, <3>1 DEF Counted, TraceKept, MeasuredPhases, ReportedPhases
  <2>15. Covered(f)
    BY <1>3, <2>3, <2>10 DEF Covered, MeasuredPhases
  <2>16. ReportOf(f)
    BY <1>1, <1>3, <2>3, <2>4, <2>5, <2>6, <2>7, <2>11 DEF ReportOf
  <2>17. Measurement(f)
    BY <2>3, <2>10, <2>12, <2>13, <2>14, <2>15, <2>16 DEF Measurement
  <2> QED BY <1>2, <2>17
<1> QED BY <1>4, <1>5

\* So does what is said when an archive is replayed.
LEMMA ReplayedStep ==
    ASSUME EvaluationInv, Measurement(experiment), Replay
    PROVE  Measurement(experiment')
<1>1. PICK e : e = experiment
  OBVIOUS
<1>2. PICK f : f = experiment'
  OBVIOUS
<1>3. Fields(e) /\ Measurement(e) /\ e.phase \in ReportedPhases /\ e.kind = "evidence"
  BY <1>1 DEF EvaluationInv, Replay, ReportedPhases
<1>4. CASE ReplayRefused
  <2>1. f = [Blocked EXCEPT !.kind = "replay", !.report = Absent]
    BY <1>2, <1>4 DEF Replay
  <2>2. f.phase = "blocked" /\ f.report = Absent
    BY <1>1, <1>3, <2>1 DEF Blocked, Fields
  <2> QED BY <1>2, <2>2 DEF Measurement, BegunPhases, MeasuredPhases
<1>5. CASE ~ReplayRefused
  <2>1. /\ e.cases \in CaseLists /\ IsSequence(e.passes) /\ Counted(e) /\ e.failed = Failures(e.passes)
        /\ \A w \in DOMAIN e.passes : PassSound(e, w)
        /\ ReportOf(e)
    BY <1>3 DEF Measurement, BegunPhases, MeasuredPhases, ReportedPhases
  <2>2. Len(e.passes) = 1 /\ DOMAIN e.passes = 1..1
    <3>1. Len(e.passes) = 1
      BY <1>3, <2>1 DEF Counted, PassesOf, MeasuredPhases, ReportedPhases
    <3> QED BY <2>1, <3>1, SequencePlaces
  <2>3. Pass = e.passes[1]
    BY <1>1, <2>2 DEF Pass
  <2>4. /\ Len(e.cases) \in Nat /\ DOMAIN e.cases = 1..Len(e.cases) /\ DOMAIN e.passes[1] = DOMAIN e.cases
    <3>1. Len(e.cases) \in Nat /\ DOMAIN e.cases = 1..Len(e.cases)
      BY <2>1, EvaluationAssumption
    <3>2. PassSound(e, 1) /\ ~Running(e, 1)
      BY <1>3, <2>1, <2>2 DEF Running, ReportedPhases
    <3>3. IsSequence(e.passes[1]) /\ Len(e.passes[1]) = Len(e.cases)
      BY <3>2 DEF PassSound
    <3>4. DOMAIN e.passes[1] = 1..Len(e.passes[1])
      BY <3>3, SequencePlaces
    <3> QED BY <3>1, <3>3, <3>4
  <2> DEFINE replayed == [i \in DOMAIN Pass |-> CoverageRow(experiment.cases[i], Pass[i])]
  <2>5. experiment' = [experiment EXCEPT !.kind = "replay", !.phase = "completed", !.report.detail = CoverageReport(replayed)]
    BY <1>5 DEF Replay
  <2>6. PICK table : table = replayed
    OBVIOUS
  <2>7. table = [i \in DOMAIN e.cases |-> CoverageRow(e.cases[i], e.passes[1][i])]
    BY <1>1, <2>3, <2>4, <2>6
  <2> HIDE DEF replayed
  <2>8. PICK detail : detail = CoverageReport(table)
    OBVIOUS
  <2>9. f = [e EXCEPT !.kind = "replay", !.phase = "completed", !.report.detail = detail]
    BY <1>1, <1>2, <2>5, <2>6, <2>8
  <2>10. /\ f.kind = "replay" /\ f.cases = e.cases /\ f.corpora = e.corpora /\ f.passes = e.passes
         /\ f.failed = e.failed /\ f.report = [e.report EXCEPT !.detail = detail] /\ f.phase = "completed"
    BY <1>3, <2>9 DEF Fields
  <2>11. /\ f.report.status = e.report.status /\ f.report.real = e.report.real
         /\ f.report.summaries = e.report.summaries /\ f.report.detail = detail
         /\ f.report = [status |-> f.report.status, real |-> f.report.real,
                        summaries |-> f.report.summaries, detail |-> f.report.detail]
    <3>1. e.report = [status |-> e.report.status, real |-> e.report.real,
                      summaries |-> e.report.summaries, detail |-> e.report.detail]
      BY <1>3, <2>1 DEF ReportOf
    <3> QED BY <2>10, <3>1
  <2>12. f.phase \in BegunPhases /\ f.phase \in MeasuredPhases /\ f.phase # "measuring" /\ f.phase \in ReportedPhases
    BY <2>10 DEF BegunPhases, MeasuredPhases, ReportedPhases
  <2>13. ASSUME NEW w \in DOMAIN f.passes PROVE PassSound(f, w)
    <3>1. PassSound(e, w) /\ ~Running(e, w) /\ ~Running(f, w)
      BY <1>3, <2>1, <2>10, <2>12 DEF Running, ReportedPhases
    <3> QED BY <2>10, <3>1 DEF PassSound
  <2>14. Counted(f) /\ TraceKept(f)
    <3>1. Len(f.passes) = PassesOf(f.kind)
      BY <2>2, <2>10 DEF PassesOf
    <3> QED BY <2>10, <2>12, <3>1 DEF Counted, TraceKept
  <2>15. Covered(f)
    <3> SUFFICES ASSUME NEW i \in DOMAIN f.cases, NEW row, row = f.passes[1][i]
                 PROVE  /\ Range(row.results["reranked"].ids) \subseteq Range(row.trace.hybrid)
                        /\ Range(row.trace.hybrid) \subseteq Visible
      BY DEF Covered
    <3>1. i \in DOMAIN experiment.cases /\ row = Pass[i]
      BY <1>1, <2>3, <2>10
    <3>2. Selectable(row.results["reranked"].ids, row.trace.hybrid, Window)
      BY <1>5, <3>1 DEF ReplayRefused
    <3> QED BY <3>2 DEF Selectable, UniqueIds
  <2>16. ReportOf(f)
    BY <1>3, <2>1, <2>7, <2>8, <2>10, <2>11 DEF ReportOf, ReportedPhases
  <2>17. Measurement(f)
    BY <2>1, <2>10, <2>12, <2>13, <2>14, <2>15, <2>16 DEF Measurement
  <2> QED BY <1>2, <2>17
<1> QED BY <1>4, <1>5

\* An experiment begins, a runtime is built, and a pass begins.
LEMMA BegunStep ==
    ASSUME EvaluationInv, Measurement(experiment),
           \/ \E kind \in {"evidence", "coverage", "windows"}, real \in BOOLEAN, cases \in CaseLists :
                  LoadInputs(kind, real, cases)
           \/ BuildRuntime
           \/ WarmUpFails
           \/ \E warm \in BOOLEAN : WarmUp(warm)
    PROVE  Measurement(experiment')
<1>1. PICK e : e = experiment
  OBVIOUS
<1>2. PICK f : f = experiment'
  OBVIOUS
<1>3. Fields(e) /\ Measurement(e)
  BY <1>1 DEF EvaluationInv
<1>4. ASSUME NEW kind, NEW real, NEW cases \in CaseLists, LoadInputs(kind, real, cases)
      PROVE  Measurement(f)
  <2>1. /\ f.cases = cases /\ f.passes = <<>> /\ f.failed = {} /\ f.corpora = <<>> /\ f.report = Absent
        /\ f.phase \in {"blocked", "loaded"}
    BY <1>2, <1>4 DEF LoadInputs, Unbegun
  <2>2. PICK none : none = f.passes
    OBVIOUS
  <2>3. none \in Seq({}) /\ Len(none) = 0 /\ DOMAIN none = {}
    BY <2>1, <2>2
  <2>4. IsSequence(none)
    BY <2>3 DEF IsSequence
  <2>5. Failures(none) = {}
    BY <2>3 DEF Failures
  <2>6. 0 < PassesOf(f.kind)
    BY DEF PassesOf
  <2>7. Counted(f) /\ TraceKept(f) /\ Covered(f) /\ ReportOf(f)
    BY <2>1, <2>2, <2>3, <2>6 DEF Counted, TraceKept, Covered, ReportOf, MeasuredPhases, ReportedPhases
  <2> QED BY <2>1, <2>2, <2>3, <2>4, <2>5, <2>7 DEF Measurement
<1>5. ASSUME BuildRuntime PROVE Measurement(f)
  <2>1. e.phase = "loaded" /\ e.phase \notin ReportedPhases
    BY <1>1, <1>5 DEF BuildRuntime, ReportedPhases
  <2>2. CASE f = Blocked
    <3>1. f.phase = "blocked" /\ f.report = e.report
      BY <1>1, <1>3, <2>2 DEF Blocked, Fields
    <3> QED BY <1>3, <2>1, <3>1, BlockedMeasurement
  <2>3. CASE f # Blocked
    <3>1. PICK corpora : corpora = Append(e.corpora, world.corpus)
      OBVIOUS
    <3>2. f = [e EXCEPT !.corpora = corpora, !.phase = "built"]
      BY <1>1, <1>2, <1>5, <2>3, <3>1 DEF BuildRuntime
    <3>3. /\ f.kind = e.kind /\ f.cases = e.cases /\ f.passes = e.passes /\ f.failed = e.failed
          /\ f.report = e.report /\ f.phase = "built" /\ f.corpora = corpora
      BY <1>3, <3>2 DEF Fields
    <3>4. Len(corpora) = Len(e.corpora) + 1
      <4>1. IsSequence(e.corpora)
        BY <1>1 DEF EvaluationInv, Accounted, IsSequence
      <4> QED BY <3>1, <4>1, AppendedPlaces
    <3>5. IsSequence(e.passes) /\ Len(e.corpora) = Len(e.passes) /\ Len(e.passes) < PassesOf(e.kind)
      BY <1>3, <2>1 DEF Measurement, BegunPhases, Counted
    <3>6. Len(e.passes) \in Nat /\ PassesOf(e.kind) \in Nat
      BY <3>5, SequencePlaces DEF PassesOf
    <3>7. Len(corpora) = Len(e.passes) + 1 /\ Len(corpora) <= PassesOf(e.kind)
      BY <3>4, <3>5, <3>6
    <3>8. Counted(f) /\ Covered(f)
      BY <3>3, <3>7 DEF Counted, Covered, MeasuredPhases
    <3> QED BY <1>3, <2>1, <3>3, <3>8, BetweenPasses
  <2> QED BY <2>2, <2>3
<1>6. ASSUME WarmUpFails PROVE Measurement(f)
  <2>1. f = Blocked /\ e.phase \notin ReportedPhases
    BY <1>1, <1>2, <1>6 DEF WarmUpFails, ReportedPhases
  <2>2. f.phase = "blocked" /\ f.report = e.report
    BY <1>1, <1>3, <2>1 DEF Blocked, Fields
  <2> QED BY <1>3, <2>1, <2>2, BlockedMeasurement
<1>7. ASSUME NEW warm, WarmUp(warm) PROVE Measurement(f)
  <2>1. PICK trace, passes : trace = [i \in DOMAIN e.cases |-> NoTrace] /\ passes = Append(e.passes, <<>>)
    OBVIOUS
  <2>2. e.phase = "built" /\ f = [e EXCEPT !.trace = trace, !.passes = passes, !.phase = "measuring"]
    BY <1>1, <1>2, <1>7, <2>1 DEF WarmUp, Untraced
  <2>3. /\ f.kind = e.kind /\ f.cases = e.cases /\ f.passes = passes /\ f.failed = e.failed
        /\ f.report = e.report /\ f.phase = "measuring" /\ f.corpora = e.corpora /\ f.trace = trace
    BY <1>3, <2>2 DEF Fields
  <2>4. /\ e.cases \in CaseLists /\ IsSequence(e.passes) /\ Counted(e) /\ e.failed = Failures(e.passes)
        /\ \A w \in DOMAIN e.passes : PassSound(e, w)
        /\ e.report = Absent
    BY <1>3, <2>2 DEF Measurement, BegunPhases, ReportedPhases
  <2>5. PICK n : n = Len(e.passes)
    OBVIOUS
  <2>6. n \in Nat /\ DOMAIN e.passes = 1..n
    BY <2>4, <2>5, SequencePlaces
  <2>7. /\ IsSequence(passes) /\ Len(passes) = n + 1 /\ passes[n + 1] = <<>>
        /\ \A w \in 1..n : passes[w] = e.passes[w]
    BY <2>1, <2>4, <2>5, AppendedPlaces
  <2>8. DOMAIN passes = 1..(n + 1) /\ 1..(n + 1) = 1..n \cup {n + 1} /\ n + 1 \notin 1..n
    <3>1. DOMAIN passes = 1..Len(passes)
      BY <2>7, SequencePlaces
    <3> QED BY <2>6, <2>7, <3>1
  <2>9. PICK none : none = passes[n + 1]
    OBVIOUS
  <2>10. none \in Seq({}) /\ Len(none) = 0 /\ DOMAIN none = {}
    BY <2>7, <2>9
  <2>11. Len(e.cases) \in Nat /\ DOMAIN e.cases = 1..Len(e.cases)
    BY <2>4, EvaluationAssumption
  <2>12. ASSUME NEW w \in DOMAIN f.passes PROVE PassSound(f, w)
    <3>1. CASE w \in 1..n
      <4>1. PassSound(e, w) /\ ~Running(e, w) /\ f.passes[w] = e.passes[w]
        BY <2>2, <2>3, <2>4, <2>6, <2>7, <3>1 DEF Running
      <4>2. ~Running(f, w)
        BY <2>3, <2>6, <2>7, <2>8, <3>1 DEF Running
      <4> QED BY <2>3, <4>1, <4>2 DEF PassSound
    <3>2. CASE w = n + 1
      <4>1. Running(f, w) /\ f.passes[w] = none
        BY <2>3, <2>7, <2>9, <3>2 DEF Running
      <4>2. IsSequence(none) /\ Len(none) <= Len(f.cases)
        <5>1. 0 <= Len(e.cases)
          BY <2>11
        <5> QED BY <2>3, <2>10, <5>1 DEF IsSequence
      <4> QED BY <2>10, <4>1, <4>2 DEF PassSound
    <3> QED BY <2>3, <2>8, <3>1, <3>2
  <2>13. f.failed = Failures(f.passes)
    <3>1. ASSUME NEW g \in (1..(n + 1)) \X Nat \X Channels
          PROVE  (g[2] \in DOMAIN passes[g[1]] /\ passes[g[1]][g[2]].results[g[3]].error)
                   <=> (g \in (1..n) \X Nat \X Channels
                          /\ g[2] \in DOMAIN e.passes[g[1]] /\ e.passes[g[1]][g[2]].results[g[3]].error)
      <4>1. PICK w \in 1..(n + 1), j \in Nat, c \in Channels : g = <<w, j, c>> /\ g[1] = w /\ g[2] = j /\ g[3] = c
        BY <3>1
      <4>2. CASE w \in 1..n
        <5>1. passes[w] = e.passes[w] /\ g \in (1..n) \X Nat \X Channels
          BY <2>7, <4>1, <4>2
        <5> QED BY <4>1, <5>1
      <4>3. CASE w = n + 1
        <5>1. j \notin DOMAIN passes[w] /\ w \notin 1..n
          BY <2>8, <2>9, <2>10, <4>3
        <5>2. g \notin (1..n) \X Nat \X Channels
          BY <4>1, <5>1
        <5> QED BY <4>1, <5>1, <5>2
      <4> QED BY <2>8, <4>1, <4>2, <4>3
    <3>2. (1..n) \X Nat \X Channels \subseteq (1..(n + 1)) \X Nat \X Channels
      BY <2>8
    <3> QED BY <2>3, <2>4, <2>6, <2>8, <3>1, <3>2 DEF Failures
  <2>14. Counted(f)
    <3>1. Len(e.corpora) = n + 1 /\ n + 1 <= PassesOf(e.kind)
      BY <2>2, <2>4, <2>5 DEF Counted
    <3>2. n + 1 \in 1..PassesOf(e.kind)
      BY <2>6, <3>1 DEF PassesOf
    <3> QED BY <2>3, <2>7, <3>1, <3>2 DEF Counted, MeasuredPhases
  <2>15. TraceKept(f)
    BY <2>1, <2>3 DEF TraceKept
  <2>16. Covered(f) /\ ReportOf(f)
    BY <2>3 DEF Covered, ReportOf, MeasuredPhases, ReportedPhases
  <2> QED BY <2>3, <2>4, <2>7, <2>12, <2>13, <2>14, <2>15, <2>16 DEF Measurement
<1> QED BY <1>2, <1>4, <1>5, <1>6, <1>7

\* The measurement is closed.
LEMMA ClosedStep ==
    ASSUME EvaluationInv, Measurement(experiment), Cover \/ CloseEvidence
    PROVE  Measurement(experiment')
<1>1. PICK e : e = experiment
  OBVIOUS
<1>2. PICK f : f = experiment'
  OBVIOUS
<1>3. Fields(e) /\ Measurement(e)
  BY <1>1 DEF EvaluationInv
<1>4. /\ e.phase = "measuring" /\ Len(e.passes[Len(e.passes)]) = Len(e.cases) /\ e.phase \notin ReportedPhases
      /\ e.kind # "windows" /\ (e.kind = "coverage" \/ e.kind = "evidence")
      /\ e.kind = "coverage" <=> ~CloseEvidence
  BY <1>1 DEF Cover, CloseEvidence, MeasuredAll, Pass, ReportedPhases
<1>5. CASE f = Blocked
  <2>1. f.phase = "blocked" /\ f.report = e.report
    BY <1>1, <1>3, <1>5 DEF Blocked, Fields
  <2> QED BY <1>2, <1>3, <1>4, <2>1, BlockedMeasurement
<1>6. CASE f # Blocked
  <2>1. f = [e EXCEPT !.phase = "measured"]
    BY <1>1, <1>2, <1>6 DEF Cover, CloseEvidence
  <2>2. /\ f.kind = e.kind /\ f.cases = e.cases /\ f.passes = e.passes /\ f.failed = e.failed
        /\ f.report = e.report /\ f.phase = "measured" /\ f.corpora = e.corpora
    BY <1>3, <2>1 DEF Fields
  <2>3. /\ IsSequence(e.passes) /\ e.cases \in CaseLists /\ \A w \in DOMAIN e.passes : PassSound(e, w)
        /\ Len(e.passes) \in 1..PassesOf(e.kind)
    BY <1>3, <1>4 DEF Measurement, BegunPhases, Counted
  <2>4. PassesOf(e.kind) = 1 /\ Len(e.passes) = 1 /\ DOMAIN e.passes = 1..1
    <3>1. PassesOf(e.kind) = 1
      BY <1>4 DEF PassesOf
    <3>2. Len(e.passes) = 1
      BY <2>3, <3>1
    <3> QED BY <2>3, <3>1, <3>2, SequencePlaces
  <2>5. Counted(f)
    BY <2>2, <2>4 DEF Counted
  <2>6. Covered(f)
    <3> SUFFICES ASSUME f.kind \in {"coverage", "replay"}, NEW i \in DOMAIN f.cases, NEW row, row = f.passes[1][i]
                 PROVE  row.results["reranked"].error
                          \/ (/\ Range(row.results["reranked"].ids) \subseteq Range(row.trace.hybrid)
                              /\ Range(row.trace.hybrid) \subseteq Visible)
      BY DEF Covered
    <3>1. Pass = e.passes[1] /\ DOMAIN e.passes[1] = DOMAIN e.cases
      <4>1. Pass = e.passes[1]
        BY <1>1, <2>4 DEF Pass
      <4>2. IsSequence(e.passes[1])
        BY <2>3, <2>4 DEF PassSound
      <4>3. DOMAIN e.passes[1] = 1..Len(e.passes[1]) /\ DOMAIN e.cases = 1..Len(e.cases)
        BY <2>3, <4>2, SequencePlaces, EvaluationAssumption
      <4> QED BY <1>4, <2>4, <4>1, <4>3
    <3>2. Cover
      BY <1>4, <2>2
    <3>3. ~CoverageRefused(Pass[i], Window)
      BY <1>2, <1>6, <2>2, <3>1, <3>2 DEF Cover
    <3>4. row = Pass[i]
      BY <2>2, <3>1
    <3> QED BY <3>3, <3>4 DEF CoverageRefused, Selectable, UniqueIds
  <2>7. Measurement(f)
    BY <1>3, <1>4, <2>2, <2>5, <2>6, BetweenPasses
  <2> QED BY <1>2, <2>7
<1> QED BY <1>5, <1>6

\* What is measured is kept by every step.
LEMMA MeasurementStep ==
    ASSUME EvaluationInv, Measurement(experiment), [EvaluationNext]_evaluationVars
    PROVE  Measurement(experiment')
<1>1. ASSUME NEW what, Edit(what) PROVE Measurement(experiment')
  <2>1. experiment' = experiment
    BY <1>1 DEF Edit
  <2> QED BY <2>1
<1>2. ASSUME UNCHANGED evaluationVars PROVE Measurement(experiment')
  <2>1. experiment' = experiment
    BY <1>2 DEF evaluationVars
  <2> QED BY <2>1
<1> QED BY <1>1, <1>2, BegunStep, MeasuredStep, DiagnosedStep, ClosedStep, PublishedStep, ReplayedStep DEF EvaluationNext

-----------------------------------------------------------------------------
(* The report that is published.                                            *)

\* A report of what was measured is sound: in its sums,
LEMMA SumsAreSound ==
    ASSUME Measurement(experiment)
    PROVE  PublishedIsMeasured
<1>1. PICK e : e = experiment
  OBVIOUS
<1> SUFFICES ASSUME e.report # Absent
             PROVE  /\ \A w \in DOMAIN e.passes, c \in Channels :
                          /\ e.report.summaries[w][c].count = Len(e.cases)
                          /\ e.report.summaries[w][c].errors
                                 = Cardinality({f \in e.failed : f[1] = w /\ f[3] = c})
                    /\ e.report.status = "completed" => e.failed = {}
                    /\ e.kind = "coverage" =>
                          ((e.report.detail.summary = {}) <=> \E f \in e.failed : f[3] = "reranked")
  BY <1>1 DEF PublishedIsMeasured, Published
<1>2. Measurement(e) /\ e.phase \in ReportedPhases /\ e.phase \in MeasuredPhases /\ e.phase # "measuring"
  BY <1>1 DEF Measurement, ReportedPhases, MeasuredPhases
<1>3. /\ e.cases \in CaseLists /\ IsSequence(e.passes) /\ \A w \in DOMAIN e.passes : PassSound(e, w)
      /\ Counted(e) /\ e.failed = Failures(e.passes) /\ ReportOf(e)
  BY <1>2 DEF Measurement, BegunPhases
<1>4. /\ e.report.summaries = [w \in DOMAIN e.passes |-> Summaries(e.cases, e.passes[w])]
      /\ e.report.status = "completed" => e.failed = {}
      /\ e.kind = "coverage" =>
            e.report.detail = CoverageReport([i \in DOMAIN e.cases |-> CoverageRow(e.cases[i], e.passes[1][i])])
  BY <1>2, <1>3 DEF ReportOf
<1>5. ASSUME NEW w \in DOMAIN e.passes
      PROVE  Len(e.passes[w]) = Len(e.cases) /\ Len(e.cases) \in Nat /\ DOMAIN e.passes[w] = 1..Len(e.cases)
  <2>1. IsSequence(e.passes[w]) /\ Len(e.passes[w]) = Len(e.cases)
    BY <1>2, <1>3 DEF PassSound, Running
  <2> QED BY <2>1, SequencePlaces
<1>6. ASSUME NEW w \in DOMAIN e.passes, NEW c \in Channels
      PROVE  /\ e.report.summaries[w][c].count = Len(e.cases)
             /\ e.report.summaries[w][c].errors = Cardinality({f \in e.failed : f[1] = w /\ f[3] = c})
  <2>1. e.report.summaries[w] = Summaries(e.cases, e.passes[w])
    BY <1>4
  <2>2. /\ Summaries(e.cases, e.passes[w])[c].count = Len(e.passes[w])
        /\ Summaries(e.cases, e.passes[w])[c].errors = Cardinality(ErrorsIn(e.passes[w], c))
    BY SummariesOfPass
  <2>3. Cardinality(ErrorsIn(e.passes[w], c)) = Cardinality({f \in Failures(e.passes) : f[1] = w /\ f[3] = c})
    BY <1>5, FailuresCounted
  <2> QED BY <1>3, <1>5, <2>1, <2>2, <2>3
<1>7. ASSUME e.kind = "coverage"
      PROVE  (e.report.detail.summary = {}) <=> \E f \in e.failed : f[3] = "reranked"
  <2>1. PICK table : table = [i \in DOMAIN e.cases |-> CoverageRow(e.cases[i], e.passes[1][i])]
    OBVIOUS
  <2>2. e.report.detail.summary = CoverageSummary(table)
    BY <1>4, <1>7, <2>1 DEF CoverageReport
  <2>3. CoverageSummary(table) = {} <=> \E i \in DOMAIN table : table[i].error
    BY DEF CoverageSummary
  <2>4. DOMAIN e.passes = 1..1 /\ DOMAIN e.cases = 1..Len(e.cases) /\ DOMAIN e.passes[1] = DOMAIN e.cases
    <3>1. Len(e.passes) = 1
      BY <1>2, <1>3, <1>7 DEF Counted, PassesOf
    <3>2. DOMAIN e.passes = 1..1
      BY <1>3, <3>1, SequencePlaces
    <3>3. DOMAIN e.cases = 1..Len(e.cases)
      BY <1>3, EvaluationAssumption
    <3> QED BY <1>5, <3>2, <3>3
  <2>5. ASSUME NEW i \in DOMAIN e.cases PROVE table[i].error <=> e.passes[1][i].results["reranked"].error
    <3>1. PICK row : row = e.passes[1][i]
      OBVIOUS
    <3>2. table[i] = CoverageRow(e.cases[i], row)
      BY <2>1, <3>1
    <3>3. CASE row.results["reranked"].error
      <4>1. CoverageRow(e.cases[i], row).error = TRUE
        BY <3>3 DEF CoverageRow
      <4> QED BY <3>1, <3>2, <3>3, <4>1
    <3>4. CASE ~row.results["reranked"].error
      <4>1. CoverageRow(e.cases[i], row).error = FALSE
        BY <3>4 DEF CoverageRow
      <4> QED BY <3>1, <3>2, <3>4, <4>1
    <3> QED BY <3>3, <3>4
  <2>6. DOMAIN table = DOMAIN e.cases
    BY <2>1
  <2>7. ASSUME NEW i \in DOMAIN e.cases, e.passes[1][i].results["reranked"].error
        PROVE  \E f \in e.failed : f[3] = "reranked"
    <3>1. PICK f : f = <<1, i, "reranked">>
      OBVIOUS
    <3>2. f \in (DOMAIN e.passes) \X Nat \X Channels /\ f[1] = 1 /\ f[2] = i /\ f[3] = "reranked"
      <4>1. i \in Nat /\ 1 \in DOMAIN e.passes /\ "reranked" \in Channels
        BY <2>4 DEF Channels
      <4> QED BY <3>1, <4>1
    <3>3. f[2] \in DOMAIN e.passes[f[1]] /\ e.passes[f[1]][f[2]].results[f[3]].error
      BY <2>4, <2>7, <3>2
    <3>4. f \in Failures(e.passes)
      BY <3>2, <3>3 DEF Failures
    <3> QED BY <1>3, <3>2, <3>4
  <2>8. ASSUME NEW f \in e.failed, f[3] = "reranked"
        PROVE  \E i \in DOMAIN e.cases : e.passes[1][i].results["reranked"].error
    <3>1. f \in (DOMAIN e.passes) \X Nat \X Channels
      BY <1>3 DEF Failures
    <3>2. f[2] \in DOMAIN e.passes[f[1]] /\ e.passes[f[1]][f[2]].results[f[3]].error
      BY <1>3 DEF Failures
    <3>3. f[1] = 1
      BY <2>4, <3>1
    <3> QED BY <2>4, <2>8, <3>2, <3>3
  <2> QED BY <2>2, <2>3, <2>5, <2>6, <2>7, <2>8
<1> QED BY <1>4, <1>6, <1>7

\* and row by row.
LEMMA RowsStaySound ==
    ASSUME Measurement(experiment)
    PROVE  RowsAreSound
<1>1. PICK e : e = experiment
  OBVIOUS
<1> SUFFICES ASSUME e.report # Absent PROVE RowsAreSound
  BY <1>1 DEF RowsAreSound, Published
<1>2. Measurement(e) /\ e.phase \in ReportedPhases /\ e.phase \in MeasuredPhases /\ e.phase # "measuring"
  BY <1>1 DEF Measurement, ReportedPhases, MeasuredPhases
<1>3. /\ e.cases \in CaseLists /\ IsSequence(e.passes) /\ \A w \in DOMAIN e.passes : PassSound(e, w)
      /\ Counted(e) /\ Covered(e) /\ ReportOf(e)
  BY <1>2 DEF Measurement, BegunPhases
<1>4. /\ DOMAIN e.passes = 1..PassesOf(e.kind) /\ \A w \in DOMAIN e.passes : w \in 1..2
      /\ 1 \in DOMAIN e.passes
      /\ e.kind = "windows" => 2 \in DOMAIN e.passes
  <2>1. DOMAIN e.passes = 1..Len(e.passes) /\ Len(e.passes) = PassesOf(e.kind)
    BY <1>2, <1>3, SequencePlaces DEF Counted
  <2>2. PassesOf(e.kind) \in 1..2 /\ (e.kind = "windows" => PassesOf(e.kind) = 2)
    BY DEF PassesOf
  <2> QED BY <2>1, <2>2
<1>5. ASSUME NEW w \in DOMAIN e.passes, NEW i \in DOMAIN e.cases
      PROVE  /\ Recorded(e.cases[i], Windows[w], e.passes[w][i])
             /\ e.kind = "windows" => RanksSound(e.cases[i], e.passes[w][i])
  <2>1. PassSound(e, w) /\ ~Running(e, w)
    BY <1>2, <1>3 DEF Running
  <2>2. IsSequence(e.passes[w]) /\ Len(e.passes[w]) = Len(e.cases)
    BY <2>1 DEF PassSound
  <2>3. DOMAIN e.passes[w] = 1..Len(e.passes[w]) /\ DOMAIN e.cases = 1..Len(e.cases)
    BY <1>3, <2>2, SequencePlaces, EvaluationAssumption
  <2>4. i \in DOMAIN e.passes[w]
    BY <2>2, <2>3
  <2> QED BY <2>1, <2>4 DEF PassSound
<1> DEFINE RowSound(case, row) ==
               /\ \A c \in Traceable : row.results[c].error => row.trace[c] = <<>>
               /\ ~row.results["hybrid"].error =>
                     /\ Range(row.results["reranked"].ids) \subseteq Range(row.trace.hybrid)
                     /\ Cardinality(Range(row.results["reranked"].ids) \cap DOMAIN case.judgments)
                            <= Cardinality(Range(row.trace.hybrid) \cap DOMAIN case.judgments)
               /\ e.kind = "windows" => RanksSound(case, row)
<1>6. ASSUME NEW w \in DOMAIN e.passes, NEW i \in DOMAIN e.cases PROVE RowSound(e.cases[i], e.passes[w][i])
  <2>1. PICK row : row = e.passes[w][i]
    OBVIOUS
  <2>2. w \in 1..2 /\ Recorded(e.cases[i], Windows[w], row)
    BY <1>4, <1>5, <2>1
  <2>3. /\ \A c \in Traceable : row.results[c].error => row.trace[c] = <<>>
        /\ ~row.results["hybrid"].error =>
              /\ Range(row.results["reranked"].ids) \subseteq Range(row.trace.hybrid)
              /\ Cardinality(Range(row.results["reranked"].ids) \cap DOMAIN e.cases[i].judgments)
                     <= Cardinality(Range(row.trace.hybrid) \cap DOMAIN e.cases[i].judgments)
    BY <1>3, <2>2, RecordedIsSound
  <2>4. e.kind = "windows" => RanksSound(e.cases[i], row)
    BY <1>5, <2>1
  <2>5. RowSound(e.cases[i], row)
    BY <2>3, <2>4
  <2> QED BY <2>1, <2>5
<1>7. ASSUME e.kind = "windows", NEW i \in DOMAIN e.cases, NEW s \in RankedSources
      PROVE  \/ \E w \in DOMAIN e.passes : e.passes[w][i].results[s].error
             \/ e.passes[1][i].results[s].ids = e.passes[2][i].results[s].ids
  <2>1. Recorded(e.cases[i], Windows[1], e.passes[1][i]) /\ Recorded(e.cases[i], Windows[2], e.passes[2][i])
    BY <1>4, <1>5, <1>7
  <2>2. PICK first : first = e.passes[1][i]
    OBVIOUS
  <2>3. PICK second : second = e.passes[2][i]
    OBVIOUS
  <2>4. Recorded(e.cases[i], Windows[1], first) /\ Recorded(e.cases[i], Windows[2], second)
    BY <2>1, <2>2, <2>3
  <2>5. first.results[s].error \/ second.results[s].error \/ first.results[s].ids = second.results[s].ids
    BY <1>3, <2>4, SourcesAgree
  <2>6. 1 \in DOMAIN e.passes /\ 2 \in DOMAIN e.passes
    BY <1>4, <1>7
  <2> QED BY <2>2, <2>3, <2>5, <2>6
<1>8. ASSUME e.kind \in {"coverage", "replay"}, NEW i \in DOMAIN e.report.detail.rows,
             NEW row, row = e.report.detail.rows[i]
      PROVE  row.error \/ KeepsAndAdds(row.baseline, row.pool, row.selected)
  <2>1. PICK table : table = [j \in DOMAIN e.cases |-> CoverageRow(e.cases[j], e.passes[1][j])]
    OBVIOUS
  <2>2. e.report.detail.rows = table
    BY <1>2, <1>3, <1>8, <2>1 DEF ReportOf, CoverageReport
  <2>3. i \in DOMAIN e.cases
    BY <1>8, <2>1, <2>2
  <2>4. PICK measured : measured = e.passes[1][i]
    OBVIOUS
  <2>5. row = CoverageRow(e.cases[i], measured)
    BY <1>8, <2>1, <2>2, <2>3, <2>4
  <2>6. CASE measured.results["reranked"].error
    <3>1. CoverageRow(e.cases[i], measured).error = TRUE
      BY <2>6 DEF CoverageRow
    <3> QED BY <2>5, <3>1
  <2>7. CASE ~measured.results["reranked"].error
    <3>1. PICK baseline, pool : baseline = measured.results["reranked"].ids /\ pool = measured.trace.hybrid
      OBVIOUS
    <3>2. /\ CoverageRow(e.cases[i], measured).baseline = baseline
          /\ CoverageRow(e.cases[i], measured).pool = pool
          /\ CoverageRow(e.cases[i], measured).selected = SelectCoverage(baseline, pool)
      BY <2>7, <3>1 DEF CoverageRow
    <3>3. Range(baseline) \subseteq Range(pool) /\ Range(pool) \subseteq Visible
      BY <1>2, <1>3, <1>8, <2>3, <2>4, <2>7, <3>1 DEF Covered
    <3>4. IsRanking(baseline, RankedChunks(e.cases[i]))
      <4>1. Recorded(e.cases[i], Windows[1], measured) /\ 1 \in 1..2
        BY <1>4, <1>5, <2>3, <2>4
      <4>2. "reranked" \in Channels /\ TopK \in Nat
        BY EvaluationAssumption DEF Channels
      <4>3. baseline = Cut(Answered[e.cases[i]][Windows[1]]["reranked"], TopK)
        BY <2>7, <3>1, <4>1, <4>2, RecordedChannels
      <4>4. IsRanking(Answered[e.cases[i]][Windows[1]]["reranked"], RankedChunks(e.cases[i]))
        BY <1>3, <2>3, <4>1, <4>2, AnsweredRanks
      <4> QED BY <4>2, <4>3, <4>4, CutRanks
    <3>5. KeepsAndAdds(baseline, pool, SelectCoverage(baseline, pool))
      BY <3>3, <3>4, SelectionIsSound
    <3> QED BY <2>5, <3>2, <3>5
  <2> QED BY <2>6, <2>7
<1>9. /\ \A w \in DOMAIN experiment.passes, i \in DOMAIN experiment.cases :
             RowSound(experiment.cases[i], experiment.passes[w][i])
      /\ experiment.kind = "windows" => \A i \in DOMAIN experiment.cases, s \in RankedSources :
            \/ \E w \in DOMAIN experiment.passes : experiment.passes[w][i].results[s].error
            \/ experiment.passes[1][i].results[s].ids = experiment.passes[2][i].results[s].ids
      /\ experiment.kind \in {"coverage", "replay"} =>
            \A i \in DOMAIN experiment.report.detail.rows :
                LET row == experiment.report.detail.rows[i]
                IN  row.error \/ KeepsAndAdds(row.baseline, row.pool, row.selected)
  <2> HIDE DEF RowSound
  <2> QED BY <1>1, <1>6, <1>7, <1>8
<1> QED BY <1>1, <1>9 DEF RowsAreSound, RanksSound, KeepsAndAdds

\* A report counts every query in every channel with exactly the calls that failed and is
\* complete only when none did; its rows are those of one pipeline, whose stages lose
\* chunks and never gain any, and a selection adds at most one visible candidate: for
\* any cases, windows, links, edits and failing calls (the runners of the experiments,
\* from a measured pass to the published report).
THEOREM ReportsAreSound == EvaluationSpec => []ReportIsSound
<1>1. EvaluationInit => EvaluationInv /\ Measurement(experiment)
  <2> SUFFICES ASSUME EvaluationInit PROVE Measurement(experiment)
    BY EvaluationStart
  <2>1. experiment.phase = "idle" /\ experiment.report = Absent
    BY DEF EvaluationInit, Unbegun
  <2> QED BY <2>1 DEF Measurement, BegunPhases, MeasuredPhases
<1>2. EvaluationInv /\ Measurement(experiment) /\ [EvaluationNext]_evaluationVars
        => (EvaluationInv /\ Measurement(experiment))'
  BY EvaluationStep, MeasurementStep
<1>3. EvaluationInv /\ Measurement(experiment) => ReportIsSound
  BY SumsAreSound, RowsStaySound DEF ReportIsSound
<1> QED BY <1>1, <1>2, <1>3, PTL DEF EvaluationSpec

-----------------------------------------------------------------------------
(* The reports of the parts.                                                *)

\* The passes that are over have a report of their own, unless the confirmed queries
\* are measured; a blocked experiment keeps those and publishes nothing.
EarlyInv ==
    /\ early \subseteq DOMAIN experiment.passes /\ early \subseteq DOMAIN experiment.corpora
    /\ experiment.kind = "coverage" => early = {}
    /\ experiment.phase = "idle" => early = {}
    /\ experiment.phase \in {"loaded", "built"} => early = DOMAIN experiment.passes
    /\ experiment.phase = "measuring" => early = 1..(Len(experiment.passes) - 1)
    /\ experiment.phase \in MeasuredPhases /\ experiment.kind # "coverage" => early = DOMAIN experiment.passes
    /\ experiment.phase = "blocked" => experiment.report = Absent

\* What the invariants say of the passes and runtimes before a step.
LEMMA EarlyFacts ==
    ASSUME EvaluationInv, Measurement(experiment), EarlyInv, experiment.phase \in BegunPhases
    PROVE  /\ Len(experiment.passes) \in Nat /\ DOMAIN experiment.passes = 1..Len(experiment.passes)
           /\ Len(experiment.corpora) \in Nat /\ DOMAIN experiment.corpora = 1..Len(experiment.corpora)
           /\ IsSequence(experiment.passes) /\ IsSequence(experiment.corpora)
           /\ experiment.phase \notin ReportedPhases => experiment.report = Absent
           /\ experiment.phase \in {"loaded", "measuring"} => Len(experiment.corpora) = Len(experiment.passes)
           /\ experiment.phase = "measuring" => Len(experiment.passes) >= 1
<1>1. PICK e : e = experiment
  OBVIOUS
<1>2. IsSequence(e.passes) /\ Counted(e) /\ (e.phase \notin ReportedPhases => e.report = Absent)
  BY <1>1 DEF Measurement
<1>3. IsSequence(e.corpora)
  BY <1>1 DEF EvaluationInv, Accounted, IsSequence
<1>4. /\ Len(e.passes) \in Nat /\ DOMAIN e.passes = 1..Len(e.passes)
      /\ Len(e.corpora) \in Nat /\ DOMAIN e.corpora = 1..Len(e.corpora)
  BY <1>2, <1>3, SequencePlaces
<1>5. e.phase = "measuring" => Len(e.passes) >= 1
  BY <1>2, <1>4 DEF Counted
<1>6. e.phase \in {"loaded", "measuring"} => Len(e.corpora) = Len(e.passes)
  BY <1>2 DEF Counted
<1> QED BY <1>1, <1>2, <1>3, <1>4, <1>5, <1>6

\* A blocked experiment keeps the reports it has, those of passes that are over.
LEMMA EarlyBlocked ==
    ASSUME EvaluationInv, EarlyInv, experiment' = Blocked, experiment.report = Absent,
           early' \subseteq DOMAIN experiment.passes, early' \subseteq DOMAIN experiment.corpora,
           experiment.kind = "coverage" => early' = {}
    PROVE  EarlyInv'
<1>1. /\ Blocked.phase = "blocked" /\ Blocked.kind = experiment.kind /\ Blocked.report = experiment.report
      /\ Blocked.passes = experiment.passes /\ Blocked.corpora = experiment.corpora
  BY DEF EvaluationInv, Blocked, Fields
<1> QED BY <1>1 DEF EarlyInv, MeasuredPhases

\* Every step keeps the reports of the parts in order.
LEMMA EarlyStep ==
    ASSUME EvaluationInv, Measurement(experiment), EarlyInv, [EvaluationNext]_evaluationVars
    PROVE  EarlyInv'
<1>1. PICK e : e = experiment
  OBVIOUS
<1>2. Fields(e) /\ Fields(experiment)
  BY <1>1 DEF EvaluationInv
<1>3. ASSUME \/ \E what \in DOMAIN world : experiment.phase \notin Ended /\ Edit(what)
             \/ UNCHANGED evaluationVars
      PROVE  EarlyInv'
  <2>1. experiment' = experiment /\ early' = early
    BY <1>3 DEF Edit, evaluationVars
  <2> QED BY <2>1 DEF EarlyInv
<1>4. ASSUME NEW kind \in {"evidence", "coverage", "windows"}, NEW real, NEW cases, LoadInputs(kind, real, cases)
      PROVE  EarlyInv'
  <2>1. /\ experiment'.phase \in {"blocked", "loaded"} /\ experiment'.passes = <<>> /\ experiment'.report = Absent
        /\ early' = {} /\ DOMAIN experiment'.passes = {}
    BY <1>4 DEF LoadInputs, Unbegun, EarlyInv
  <2> QED BY <2>1 DEF EarlyInv, MeasuredPhases
<1>5. ASSUME BuildRuntime PROVE EarlyInv'
  <2>1. experiment.phase = "loaded" /\ early' = early
    BY <1>5 DEF BuildRuntime
  <2>2. experiment.phase \in BegunPhases /\ experiment.report = Absent
    BY <2>1, EarlyFacts DEF BegunPhases, ReportedPhases
  <2>3. CASE experiment' = Blocked
    BY <2>1, <2>2, <2>3, EarlyBlocked DEF EarlyInv
  <2>4. CASE experiment' # Blocked
    <3>1. PICK corpora : corpora = Append(experiment.corpora, world.corpus)
      OBVIOUS
    <3>2. experiment' = [experiment EXCEPT !.corpora = corpora, !.phase = "built"]
      BY <1>5, <2>4, <3>1 DEF BuildRuntime
    <3>3. /\ experiment'.phase = "built" /\ experiment'.passes = experiment.passes
          /\ experiment'.kind = experiment.kind /\ experiment'.corpora = corpora
      BY <1>2, <3>2 DEF Fields
    <3>4. DOMAIN experiment.corpora \subseteq DOMAIN corpora
      BY <2>2, <3>1, EarlyFacts, AppendedPlaces, SequencePlaces
    <3> QED BY <2>1, <3>3, <3>4 DEF EarlyInv, MeasuredPhases
  <2> QED BY <2>3, <2>4
<1>6. ASSUME WarmUpFails PROVE EarlyInv'
  <2>1. experiment' = Blocked /\ early' = early /\ experiment.phase = "built"
    BY <1>6 DEF WarmUpFails
  <2>2. experiment.report = Absent
    BY <2>1, EarlyFacts DEF BegunPhases, ReportedPhases
  <2> QED BY <2>1, <2>2, EarlyBlocked DEF EarlyInv
<1>7. ASSUME NEW warm, WarmUp(warm) PROVE EarlyInv'
  <2>1. PICK trace, passes : trace = Untraced /\ passes = Append(experiment.passes, <<>>)
    OBVIOUS
  <2>2. /\ experiment.phase = "built" /\ early' = early
        /\ experiment' = [experiment EXCEPT !.trace = trace, !.passes = passes, !.phase = "measuring"]
    BY <1>7, <2>1 DEF WarmUp
  <2>3. /\ experiment'.phase = "measuring" /\ experiment'.passes = passes /\ experiment'.kind = experiment.kind
        /\ experiment'.corpora = experiment.corpora
    BY <1>2, <2>2 DEF Fields
  <2>4. PICK n : n = Len(experiment.passes)
    OBVIOUS
  <2>5. n \in Nat /\ DOMAIN experiment.passes = 1..n /\ IsSequence(experiment.passes)
    BY <2>2, <2>4, EarlyFacts DEF BegunPhases
  <2>6. Len(passes) = n + 1 /\ DOMAIN passes = 1..(n + 1)
    BY <2>1, <2>4, <2>5, AppendedPlaces, SequencePlaces
  <2>7. early' = 1..(Len(passes) - 1) /\ early' \subseteq DOMAIN passes
    <3>1. early = 1..n
      BY <2>2, <2>5 DEF EarlyInv
    <3> QED BY <2>2, <2>5, <2>6, <3>1
  <2> QED BY <2>2, <2>3, <2>7 DEF EarlyInv, MeasuredPhases
<1>8. ASSUME NEW calls \in SUBSET Channels, MeasureCase(calls) PROVE EarlyInv'
  <2>1. PICK n : n = Len(experiment.passes)
    OBVIOUS
  <2>2. /\ experiment.phase = "measuring" /\ early' = early
        /\ experiment'.phase = "measuring" /\ experiment'.kind = experiment.kind
        /\ experiment'.corpora = experiment.corpora
    BY <1>2, <1>8 DEF MeasureCase, Fields
  <2>3. /\ n \in Nat /\ DOMAIN experiment.passes = 1..n /\ IsSequence(experiment.passes)
    BY <2>1, <2>2, EarlyFacts DEF BegunPhases
  <2>4. \E pass : experiment'.passes = [experiment.passes EXCEPT ![n] = pass]
    BY <1>2, <1>8, <2>1 DEF MeasureCase, Fields
  <2>5. PICK pass, passes : /\ passes = [experiment.passes EXCEPT ![n] = pass]
                            /\ experiment'.passes = passes
    BY <2>4
  <2>6. IsSequence(passes) /\ DOMAIN passes = DOMAIN experiment.passes /\ Len(passes) = n
    BY <2>1, <2>3, <2>5, SequencePlaces, ReplacedPlaces
  <2> QED BY <2>1, <2>2, <2>5, <2>6 DEF EarlyInv, MeasuredPhases
<1>9. ASSUME experiment.phase = "measuring" PROVE /\ early \cup {Len(experiment.passes)} = DOMAIN experiment.passes
                                                 /\ early \cup {Len(experiment.passes)} \subseteq DOMAIN experiment.corpora
                                                 /\ Len(experiment.passes) \in DOMAIN experiment.passes
                                                 /\ IsSequence(experiment.passes)
                                                 /\ experiment.report = Absent
  <2>1. PICK n : n = Len(experiment.passes)
    OBVIOUS
  <2>2. /\ n \in Nat /\ n >= 1 /\ DOMAIN experiment.passes = 1..n /\ DOMAIN experiment.corpora = 1..n
        /\ IsSequence(experiment.passes) /\ experiment.report = Absent
    BY <1>9, <2>1, EarlyFacts DEF BegunPhases, ReportedPhases
  <2>3. early = 1..(n - 1)
    BY <1>9, <2>1 DEF EarlyInv
  <2>4. early \cup {n} = 1..n /\ n \in 1..n
    BY <2>2, <2>3
  <2> QED BY <2>1, <2>2, <2>4
<1>10. ASSUME NEW unscanned, Diagnose(unscanned) PROVE EarlyInv'
  <2>1. experiment.kind = "windows" /\ experiment.phase = "measuring"
    BY <1>10, Zenon DEF Diagnose, MeasuredAll
  <2>2. PICK n : n = Len(experiment.passes)
    OBVIOUS
  <2>3. \/ experiment' = Blocked /\ early' = early
        \/ \E after :
              /\ experiment' = [experiment EXCEPT !.passes[n] = after,
                                   !.phase = IF n = Len(Windows) THEN "measured" ELSE "loaded"]
              /\ early' = early \cup {n}
    BY <1>10, <2>2, Zenon DEF Diagnose
  <2>4. CASE experiment' = Blocked /\ early' = early
    BY <1>9, <2>1, <2>4, EarlyBlocked DEF EarlyInv
  <2>5. ASSUME NEW after,
               experiment' = [experiment EXCEPT !.passes[n] = after,
                                !.phase = IF n = Len(Windows) THEN "measured" ELSE "loaded"],
               early' = early \cup {n}
        PROVE  EarlyInv'
    <3>1. PICK passes : passes = [experiment.passes EXCEPT ![n] = after]
      OBVIOUS
    <3>2. /\ experiment'.phase \in {"loaded", "measured"} /\ experiment'.kind = "windows"
          /\ experiment'.corpora = experiment.corpora /\ experiment'.passes = passes
      BY <1>2, <2>1, <2>5, <3>1 DEF Fields
    <3>3. DOMAIN passes = DOMAIN experiment.passes
      BY <3>1
    <3>4. early' = DOMAIN experiment.passes /\ early' \subseteq DOMAIN experiment.corpora
      BY <1>9, <2>1, <2>2, <2>5
    <3> QED BY <3>2, <3>3, <3>4 DEF EarlyInv, MeasuredPhases
  <2> QED BY <2>3, <2>4, <2>5, Zenon
<1>11. ASSUME Cover PROVE EarlyInv'
  <2>1. experiment.kind = "coverage" /\ experiment.phase = "measuring" /\ early' = early
    BY <1>11 DEF Cover, MeasuredAll
  <2>2. CASE experiment' = Blocked
    BY <1>9, <2>1, <2>2, EarlyBlocked DEF EarlyInv
  <2>3. CASE experiment' # Blocked
    <3>1. experiment' = [experiment EXCEPT !.phase = "measured"]
      BY <1>11, <2>3 DEF Cover
    <3>2. /\ experiment'.phase = "measured" /\ experiment'.kind = "coverage"
          /\ experiment'.passes = experiment.passes /\ experiment'.corpora = experiment.corpora
      BY <1>2, <2>1, <3>1 DEF Fields
    <3> QED BY <2>1, <3>2 DEF EarlyInv, MeasuredPhases
  <2> QED BY <2>2, <2>3
<1>12. ASSUME CloseEvidence PROVE EarlyInv'
  <2>1. /\ experiment.kind = "evidence" /\ experiment.phase = "measuring"
        /\ early' = early \cup {Len(experiment.passes)}
    BY <1>12 DEF CloseEvidence, MeasuredAll
  <2>2. /\ early' = DOMAIN experiment.passes /\ early' \subseteq DOMAIN experiment.corpora
        /\ experiment.report = Absent
    BY <1>9, <2>1
  <2>3. CASE experiment' = Blocked
    BY <2>1, <2>2, <2>3, EarlyBlocked
  <2>4. CASE experiment' # Blocked
    <3>1. experiment' = [experiment EXCEPT !.phase = "measured"]
      BY <1>12, <2>4 DEF CloseEvidence
    <3>2. /\ experiment'.phase = "measured" /\ experiment'.kind = "evidence"
          /\ experiment'.passes = experiment.passes /\ experiment'.corpora = experiment.corpora
      BY <1>2, <2>1, <3>1 DEF Fields
    <3> QED BY <2>2, <3>2 DEF EarlyInv, MeasuredPhases
  <2> QED BY <2>3, <2>4
<1>13. ASSUME Publish PROVE EarlyInv'
  <2>1. experiment.phase = "measured" /\ early' = early
    BY <1>13 DEF Publish
  <2>2. CASE Drifted
    <3>1. experiment' = Blocked
      BY <1>13, <2>2 DEF Publish
    <3>2. experiment.report = Absent
      BY <2>1, EarlyFacts DEF BegunPhases, MeasuredPhases, ReportedPhases
    <3> QED BY <2>1, <3>1, <3>2, EarlyBlocked DEF EarlyInv
  <2>3. CASE ~Drifted
    <3>1. PICK report : report = Report
      OBVIOUS
    <3>2. report.status \in {"completed", "incomplete"}
      BY <3>1 DEF Report
    <3>3. experiment' = [experiment EXCEPT !.report = report, !.phase = report.status]
      BY <1>13, <2>3, <3>1 DEF Publish
    <3>4. /\ experiment'.phase \in {"completed", "incomplete"} /\ experiment'.kind = experiment.kind
          /\ experiment'.passes = experiment.passes /\ experiment'.corpora = experiment.corpora
      BY <1>2, <3>2, <3>3 DEF Fields
    <3> QED BY <2>1, <3>4 DEF EarlyInv, MeasuredPhases
  <2> QED BY <2>2, <2>3
<1>14. ASSUME Replay PROVE EarlyInv'
  <2>1. /\ experiment.kind = "evidence" /\ experiment.phase \in {"completed", "incomplete"} /\ early' = early
    BY <1>14 DEF Replay
  <2>2. early = DOMAIN experiment.passes
    BY <2>1 DEF EarlyInv, MeasuredPhases
  <2>3. CASE ReplayRefused
    <3>1. experiment' = [Blocked EXCEPT !.kind = "replay", !.report = Absent]
      BY <1>14, <2>3 DEF Replay
    <3>2. /\ experiment'.phase = "blocked" /\ experiment'.kind = "replay" /\ experiment'.report = Absent
          /\ experiment'.passes = experiment.passes /\ experiment'.corpora = experiment.corpora
      BY <1>2, <3>1 DEF Blocked, Fields
    <3> QED BY <2>1, <3>2 DEF EarlyInv, MeasuredPhases
  <2>4. CASE ~ReplayRefused
    <3>1. PICK detail : detail = CoverageReport([i \in DOMAIN Pass |-> CoverageRow(experiment.cases[i], Pass[i])])
      OBVIOUS
    <3>2. experiment' = [experiment EXCEPT !.kind = "replay", !.phase = "completed", !.report.detail = detail]
      BY <1>14, <2>4, <3>1 DEF Replay
    <3>3. /\ experiment'.phase = "completed" /\ experiment'.kind = "replay"
          /\ experiment'.passes = experiment.passes /\ experiment'.corpora = experiment.corpora
      BY <1>2, <3>2 DEF Fields
    <3> QED BY <2>1, <2>2, <3>3 DEF EarlyInv, MeasuredPhases
  <2> QED BY <2>3, <2>4
<1> QED BY <1>3, <1>4, <1>5, <1>6, <1>7, <1>8, <1>10, <1>11, <1>12, <1>13, <1>14 DEF EvaluationNext

\* What is written before the last test is a part of the experiment.
LEMMA EarlyReports ==
    ASSUME EvaluationInv, Measurement(experiment), EarlyInv
    PROVE  EarlyReportsAreParts
<1>1. ASSUME NEW w \in early
      PROVE  /\ experiment.kind # "coverage" /\ w \in DOMAIN experiment.passes /\ w \in DOMAIN experiment.corpora
             /\ experiment.kind = "windows" => experiment.corpora[w] = Frozen
  BY <1>1 DEF EarlyInv, EvaluationInv, Accounted
<1>2. experiment.report # Absent => experiment.phase \in ReportedPhases
  BY DEF Measurement
<1>3. experiment.report # Absent /\ experiment.kind # "coverage" => early = DOMAIN experiment.passes
  BY <1>2 DEF EarlyInv, MeasuredPhases, ReportedPhases
<1>4. experiment.phase = "blocked" => experiment.report = Absent
  BY DEF EarlyInv
<1> QED BY <1>1, <1>3, <1>4 DEF EarlyReportsAreParts, Published

\* The report of a whole experiment appears only from a publication that compared code
\* and corpus on disk with those measured and found no drift; what the windows and the
\* evidence run write before that are parts: of a pass that is over, of a window built
\* on the frozen corpus, never of the confirmed queries, and all of them are there when
\* the whole is published.  For any cases, windows, edits and failing calls (run of the
\* confirmed evaluation, of the candidate windows and of the evidence).
THEOREM NothingDriftsUnseen == EvaluationSpec => PublishedWithoutDrift
<1>1. EvaluationInit => EvaluationInv /\ Measurement(experiment) /\ EarlyInv
  <2> SUFFICES ASSUME EvaluationInit PROVE Measurement(experiment) /\ EarlyInv
    BY EvaluationStart
  <2>1. /\ experiment.phase = "idle" /\ experiment.report = Absent /\ early = {}
        /\ experiment.passes = <<>> /\ experiment.corpora = <<>>
    BY DEF EvaluationInit, Unbegun
  <2> QED BY <2>1 DEF Measurement, EarlyInv, BegunPhases, MeasuredPhases
<1>2. EvaluationInv /\ Measurement(experiment) /\ EarlyInv /\ [EvaluationNext]_evaluationVars
        => (EvaluationInv /\ Measurement(experiment) /\ EarlyInv)'
  BY EvaluationStep, MeasurementStep, EarlyStep
<1>3. EvaluationInv /\ Measurement(experiment) /\ EarlyInv => EarlyReportsAreParts
  BY EarlyReports
<1>4. EvaluationSpec => []EarlyReportsAreParts
  BY <1>1, <1>2, <1>3, PTL DEF EvaluationSpec
<1> QED BY <1>4, PublicationIsUndrifted DEF PublishedWithoutDrift

-----------------------------------------------------------------------------
(* The contract of the semantic parser: the invariant of a file             *)

\* A graph of numbered ids, each with some of the others.
IsGraph(graph) == DOMAIN graph \subseteq Nat /\ \A id \in DOMAIN graph : graph[id] \subseteq DOMAIN graph

\* The ids a search has left.
LeftIds(s) == {id \in DOMAIN s.graph : s.colors[id] = 2}

\* The path is one of the graph, without repetition; its ids are those that are open.
PathSound(s) ==
    /\ s.stack \in Seq(DOMAIN s.graph) /\ s.frames \in Seq(SUBSET (DOMAIN s.graph))
    /\ Len(s.frames) = Len(s.stack)
    /\ \A id \in DOMAIN s.graph : s.colors[id] = 1 <=> \E i \in 1..Len(s.stack) : s.stack[i] = id
    /\ \A i, j \in 1..Len(s.stack) : s.stack[i] = s.stack[j] => i = j
    /\ \A i, j \in 1..Len(s.stack) : j = i + 1 => s.stack[j] \in s.graph[s.stack[i]]

\* What was followed of an id of the path was left or is the next of the path; what was
\* left leads only to what was left, and not round.
LeftSound(s) ==
    /\ \A i \in 1..Len(s.stack) :
          /\ s.frames[i] \subseteq s.graph[s.stack[i]]
          /\ \A id \in s.graph[s.stack[i]] \ s.frames[i] :
                id \in LeftIds(s) \/ \E j \in 1..Len(s.stack) : j = i + 1 /\ id = s.stack[j]
    /\ \A id \in LeftIds(s) : s.graph[id] \subseteq LeftIds(s)
    /\ \A ids \in SUBSET LeftIds(s) : ids # {} => \E id \in ids : s.graph[id] \cap ids = {}

SearchInv(s) ==
    /\ s = [of |-> s.of, graph |-> s.graph, colors |-> s.colors, stack |-> s.stack,
            frames |-> s.frames, cycle |-> s.cycle]
    /\ IsGraph(s.graph) /\ s.colors \in [DOMAIN s.graph -> {0, 1, 2}]
    /\ s.cycle = <<>> => PathSound(s) /\ LeftSound(s)
    /\ s.cycle # <<>> => OnCycle(s.graph, s.cycle) /\ s.cycle \in Seq(DOMAIN s.graph)

\* The records among the first lines of a file, and the sound ones of them.
RecordsTo(lines, n) == {l \in 1..n : lines[l] # Blank}
SoundLine(line) == Readable(line) /\ WellFormed(line)
SoundTo(lines, n) == {l \in RecordsTo(lines, n) : SoundLine(lines[l])}

\* The errors tell which of them are not sound, and which have a cycle.
ErrorsSound(errors, lines, n) ==
    /\ \A e \in errors : e[1] \in RecordsTo(lines, n)
    /\ \A l \in RecordsTo(lines, n) :
          /\ SoundLine(lines[l]) <=> ~\E e \in errors : e[1] = l
          /\ Readable(lines[l]) =>
                /\ (\E e \in errors : e[1] = l /\ e[3] = "RELATION_CYCLE") <=> Cyclic(RelationGraph(lines[l]))
                /\ (\E e \in errors : e[1] = l /\ e[3] = "SCOPE_CYCLE") <=> Cyclic(ScopeGraph(lines[l]))

\* The record that is searched: its issues so far.
RecordSearched(k, s) ==
    LET r == k.lines[k.at + 1]
    IN  /\ k.phase = "reading" /\ k.at < Len(k.lines) /\ Readable(r) /\ SearchInv(s)
        /\ \/ s.of = "edges" /\ s.graph = RelationGraph(r) /\ k.issues = LocalIssues(r)
           \/ /\ s.of = "scopes" /\ s.graph = ScopeGraph(r)
              /\ k.issues = LocalIssues(r) \cup Issue(Cyclic(RelationGraph(r)), <<"record", 0, "edges", 0>>, "RELATION_CYCLE")

\* What is counted of a file that is read.
Tallied(k, underway) ==
    /\ k.count = Cardinality(RecordsTo(k.lines, k.at)) + underway
    /\ k.valid = Cardinality(SoundTo(k.lines, k.at))
    /\ k.invalid = Cardinality(RecordsTo(k.lines, k.at)) - k.valid
    /\ \A c \in k.cycles : OnCycle(c.graph, c.path)

CheckFields(k) ==
    k = [phase |-> k.phase, lines |-> k.lines, at |-> k.at, count |-> k.count, valid |-> k.valid,
         invalid |-> k.invalid, partial |-> k.partial, errors |-> k.errors, issues |-> k.issues,
         cycles |-> k.cycles]

FileInv(k, s) ==
    /\ CheckFields(k)
    /\ k.phase \in {"idle", "reading", "passed", "failed"}
    /\ s = NoSearch \/ RecordSearched(k, s)
    /\ k.phase = "idle" => k = NothingChecked
    /\ k.phase = "reading" \/ (k.phase \in {"passed", "failed"} /\ k.lines # <<>>) =>
          /\ k.lines \in RecordFiles /\ k.at \in 0..Len(k.lines)
          /\ Tallied(k, IF s = NoSearch THEN 0 ELSE 1)
    /\ k.phase = "reading" => ErrorsSound(k.errors, k.lines, k.at)
    /\ k.phase \in {"passed", "failed"} /\ k.lines # <<>> =>
          /\ s = NoSearch /\ k.at = Len(k.lines)
          /\ IF k.count = 0 THEN k.phase = "failed"
             ELSE /\ ErrorsSound(k.errors, k.lines, k.at)
                  /\ k.phase = "passed" <=> k.errors = {}
\* The invariant the contract's proof rests on.
ContractInv == FileInv(checked, search)

-----------------------------------------------------------------------------
(* The contract: the search for a cycle is exact                            *)

\* A way round is made of ids that lead to each other.
LEMMA PathIsCyclic ==
    ASSUME NEW graph, NEW path \in Seq(DOMAIN graph), OnCycle(graph, path)
    PROVE  Cyclic(graph)
<1>1. PICK n \in Nat : n = Len(path)
  OBVIOUS
<1>2. /\ n > 1 /\ path[1] = path[n]
      /\ \A i \in 1..(n - 1) : path[i + 1] \in graph[path[i]]
  BY <1>1 DEF OnCycle, Last
<1> DEFINE ids == {path[i] : i \in 1..(n - 1)}
<1>3. \A i \in 1..n : path[i] \in DOMAIN graph
  BY <1>1
<1>4. ids \in SUBSET (DOMAIN graph) /\ path[1] \in ids
  BY <1>2, <1>3
<1>5. ASSUME NEW id \in ids PROVE graph[id] \cap ids # {}
  <2>1. PICK i \in 1..(n - 1) : id = path[i]
    OBVIOUS
  <2>2. path[i + 1] \in graph[id]
    BY <1>2, <2>1
  <2>3. path[i + 1] \in ids
    <3>1. CASE i + 1 = n
      BY <1>2, <1>4, <3>1
    <3>2. CASE i + 1 # n
      BY <2>1, <3>2
    <3> QED BY <3>1, <3>2
  <2> QED BY <2>2, <2>3
<1> QED
  <2> HIDE DEF ids
  <2> QED BY <1>4, <1>5 DEF Cyclic

\* A search starts with everything unvisited.
LEMMA SearchStarts ==
    ASSUME NEW of, NEW graph, IsGraph(graph)
    PROVE  SearchInv(SearchOf(of, graph))
<1>1. PICK s : s = SearchOf(of, graph)
  OBVIOUS
<1>2. /\ s = [of |-> of, graph |-> graph, colors |-> [id \in DOMAIN graph |-> 0],
              stack |-> <<>>, frames |-> <<>>, cycle |-> <<>>]
  BY <1>1 DEF SearchOf, NoSearch
<1>3. /\ s.of = of /\ s.graph = graph /\ s.colors = [id \in DOMAIN graph |-> 0]
      /\ s.stack = <<>> /\ s.frames = <<>> /\ s.cycle = <<>>
  BY <1>2
<1>4. s.colors \in [DOMAIN s.graph -> {0, 1, 2}] /\ LeftIds(s) = {}
  BY <1>3 DEF LeftIds
<1>5. s.stack \in Seq(DOMAIN s.graph) /\ s.frames \in Seq(SUBSET (DOMAIN s.graph))
      /\ Len(s.frames) = 0 /\ Len(s.stack) = 0
  BY <1>3
<1>6. PathSound(s)
  BY <1>3, <1>5 DEF PathSound
<1>7. LeftSound(s)
  BY <1>4, <1>5 DEF LeftSound
<1> QED BY <1>1, <1>2, <1>3, <1>4, <1>6, <1>7 DEF SearchInv

\* An id is opened that the last of the path leads to, or the first of a path.
LEMMA OpenedSound ==
    ASSUME NEW s, SearchInv(s), s.cycle = <<>>,
           NEW id \in DOMAIN s.graph, s.colors[id] = 0,
           NEW f \in Seq(SUBSET (DOMAIN s.graph)), Len(f) = Len(s.frames),
           \A i \in 1..Len(f) : f[i] = s.frames[i] \/ (i = Len(f) /\ f[i] = s.frames[i] \ {id}),
           Len(s.stack) > 0 => id \in s.graph[s.stack[Len(s.stack)]]
    PROVE  SearchInv(Opened([s EXCEPT !.frames = f], id))
<1>1. PICK t : t = Opened([s EXCEPT !.frames = f], id)
  OBVIOUS
<1>2. PICK V : V = DOMAIN s.graph
  OBVIOUS
<1>3. PathSound(s) /\ LeftSound(s) /\ IsGraph(s.graph) /\ s.colors \in [V -> {0, 1, 2}]
  BY <1>2 DEF SearchInv
<1>4. /\ t = [of |-> s.of, graph |-> s.graph, colors |-> [s.colors EXCEPT ![id] = 1],
              stack |-> Append(s.stack, id), frames |-> Append(f, s.graph[id]), cycle |-> s.cycle]
  BY <1>1 DEF Opened, SearchInv
<1>5. /\ t.of = s.of /\ t.graph = s.graph /\ t.colors = [s.colors EXCEPT ![id] = 1]
      /\ t.stack = Append(s.stack, id) /\ t.frames = Append(f, s.graph[id]) /\ t.cycle = <<>>
  BY <1>4
<1>6. PICK n \in Nat : n = Len(s.stack) /\ n = Len(f) /\ n = Len(s.frames)
  BY <1>3 DEF PathSound
<1>7. /\ Len(t.stack) = n + 1 /\ t.stack \in Seq(V) /\ t.stack[n + 1] = id
      /\ \A i \in 1..n : t.stack[i] = s.stack[i]
  <2>1. PICK stack, longer : stack = s.stack /\ longer = Append(stack, id)
    OBVIOUS
  <2>2. stack \in Seq(V) /\ Len(stack) = n /\ id \in V
    BY <1>2, <1>3, <1>6, <2>1 DEF PathSound
  <2>3. Len(longer) = n + 1 /\ longer \in Seq(V) /\ longer[n + 1] = id /\ \A i \in 1..n : longer[i] = stack[i]
    BY <2>1, <2>2
  <2> QED BY <1>5, <2>1, <2>3
<1>8. /\ Len(t.frames) = n + 1 /\ t.frames \in Seq(SUBSET V) /\ t.frames[n + 1] = s.graph[id]
      /\ \A i \in 1..n : t.frames[i] = f[i]
  <2>1. PICK W : W = SUBSET V
    OBVIOUS
  <2>2. f \in Seq(W) /\ s.graph[id] \in W
    BY <1>2, <1>3, <2>1 DEF IsGraph
  <2>3. PICK g : g = s.graph[id]
    OBVIOUS
  <2>4. PICK frames : frames = Append(f, g)
    OBVIOUS
  <2>5. Len(frames) = n + 1 /\ frames \in Seq(W) /\ frames[n + 1] = g /\ \A i \in 1..n : frames[i] = f[i]
    BY <1>6, <2>2, <2>3, <2>4
  <2> QED BY <1>5, <2>1, <2>3, <2>4, <2>5
<1>9. /\ t.colors \in [V -> {0, 1, 2}] /\ t.colors[id] = 1
      /\ \A v \in V : v # id => t.colors[v] = s.colors[v]
  <2>1. PICK colors : colors = s.colors
    OBVIOUS
  <2>2. PICK after : after = [colors EXCEPT ![id] = 1]
    OBVIOUS
  <2>3. colors \in [V -> {0, 1, 2}] /\ id \in V
    BY <1>2, <1>3, <2>1
  <2>4. after \in [V -> {0, 1, 2}] /\ after[id] = 1 /\ \A v \in V : v # id => after[v] = colors[v]
    BY <2>2, <2>3
  <2> QED BY <1>5, <2>1, <2>2, <2>4
<1>10. /\ \A v \in V : s.colors[v] = 1 <=> \E i \in 1..n : s.stack[i] = v
       /\ \A i, j \in 1..n : s.stack[i] = s.stack[j] => i = j
       /\ \A i, j \in 1..n : j = i + 1 => s.stack[j] \in s.graph[s.stack[i]]
       /\ \A i \in 1..n : s.stack[i] \in V
  BY <1>2, <1>3, <1>6 DEF PathSound
<1>11. \A i \in 1..n : s.stack[i] # id
  BY <1>2, <1>10
<1>12. LeftIds(t) = LeftIds(s)
  BY <1>2, <1>5, <1>9 DEF LeftIds
<1>13. PathSound(t)
  <2>1. \A v \in V : t.colors[v] = 1 <=> \E i \in 1..(n + 1) : t.stack[i] = v
    <3>1. ASSUME NEW v \in V, v # id PROVE t.colors[v] = 1 <=> \E i \in 1..(n + 1) : t.stack[i] = v
      <4>1. (\E i \in 1..(n + 1) : t.stack[i] = v) <=> \E i \in 1..n : s.stack[i] = v
        <5>1. \A i \in 1..(n + 1) : i \in 1..n \/ i = n + 1
          BY <1>6
        <5>2. \A i \in 1..n : i \in 1..(n + 1) /\ t.stack[i] = s.stack[i]
          BY <1>6, <1>7
        <5> QED BY <1>7, <3>1, <5>1, <5>2
      <4> QED BY <1>9, <1>10, <3>1, <4>1
    <3>2. t.colors[id] = 1 /\ \E i \in 1..(n + 1) : t.stack[i] = id
      BY <1>7, <1>9
    <3> QED BY <3>1, <3>2
  <2>2. \A i, j \in 1..(n + 1) : t.stack[i] = t.stack[j] => i = j
    BY <1>7, <1>10, <1>11
  <2>3. \A i, j \in 1..(n + 1) : j = i + 1 => t.stack[j] \in s.graph[t.stack[i]]
    <3>1. ASSUME NEW i \in 1..(n + 1), NEW j \in 1..(n + 1), j = i + 1
          PROVE  t.stack[j] \in s.graph[t.stack[i]]
      <4>1. i \in 1..n /\ t.stack[i] = s.stack[i] /\ (j = n + 1 => i = n)
        BY <1>6, <1>7, <3>1
      <4>2. CASE j = n + 1
        <5>1. t.stack[j] = id /\ i = n /\ id \in s.graph[s.stack[n]]
          BY <1>6, <1>7, <4>1, <4>2
        <5> QED BY <4>1, <5>1
      <4>3. CASE j # n + 1
        <5>1. j \in 1..n /\ t.stack[j] = s.stack[j] /\ s.stack[j] \in s.graph[s.stack[i]]
          BY <1>6, <1>7, <1>10, <3>1, <4>1, <4>3
        <5> QED BY <4>1, <5>1
      <4> QED BY <4>2, <4>3
    <3> QED BY <3>1
  <2>4. DOMAIN t.graph = V /\ t.graph = s.graph /\ Len(t.stack) = n + 1 /\ Len(t.frames) = n + 1
    BY <1>2, <1>5, <1>7, <1>8
  <2> QED BY <1>7, <1>8, <2>1, <2>2, <2>3, <2>4 DEF PathSound
<1>14. LeftSound(t)
  <2>1. ASSUME NEW i \in 1..(n + 1)
        PROVE  /\ t.frames[i] \subseteq s.graph[t.stack[i]]
               /\ \A v \in s.graph[t.stack[i]] \ t.frames[i] :
                     v \in LeftIds(s) \/ \E j \in 1..(n + 1) : j = i + 1 /\ v = t.stack[j]
    <3>1. CASE i = n + 1
      BY <1>7, <1>8, <3>1
    <3>2. CASE i # n + 1
      <4>1. i \in 1..n /\ t.stack[i] = s.stack[i] /\ t.frames[i] = f[i]
        BY <1>7, <1>8, <3>2
      <4>2. /\ s.frames[i] \subseteq s.graph[s.stack[i]]
            /\ \A v \in s.graph[s.stack[i]] \ s.frames[i] :
                  v \in LeftIds(s) \/ \E j \in 1..n : j = i + 1 /\ v = s.stack[j]
        BY <1>3, <1>6, <4>1 DEF LeftSound
      <4>3. f[i] = s.frames[i] \/ (i = n /\ f[i] = s.frames[i] \ {id})
        BY <1>6, <4>1
      <4>4. ASSUME NEW v \in s.graph[t.stack[i]] \ t.frames[i]
            PROVE  v \in LeftIds(s) \/ \E j \in 1..(n + 1) : j = i + 1 /\ v = t.stack[j]
        <5>1. CASE v \in s.frames[i]
          <6>1. i = n /\ v = id
            BY <4>1, <4>3, <4>4, <5>1
          <6> QED BY <1>7, <6>1
        <5>2. CASE v \notin s.frames[i]
          <6>1. v \in s.graph[s.stack[i]] \ s.frames[i]
            BY <4>1, <4>4, <5>2
          <6>2. v \in LeftIds(s) \/ \E j \in 1..n : j = i + 1 /\ v = s.stack[j]
            BY <4>2, <6>1
          <6>3. \A j \in 1..n : j \in 1..(n + 1) /\ t.stack[j] = s.stack[j]
            BY <1>6, <1>7
          <6> QED BY <6>2, <6>3
        <5> QED BY <5>1, <5>2
      <4> QED BY <4>1, <4>2, <4>3, <4>4
    <3> QED BY <3>1, <3>2
  <2>2. /\ \A v \in LeftIds(s) : s.graph[v] \subseteq LeftIds(s)
        /\ \A ids \in SUBSET LeftIds(s) : ids # {} => \E v \in ids : s.graph[v] \cap ids = {}
    BY <1>3 DEF LeftSound
  <2>3. t.graph = s.graph /\ Len(t.stack) = n + 1
    BY <1>5, <1>7
  <2> QED BY <1>12, <2>1, <2>2, <2>3 DEF LeftSound
<1> QED BY <1>1, <1>2, <1>3, <1>4, <1>5, <1>9, <1>13, <1>14 DEF SearchInv

\* The target that is followed is an id of the graph the last of the path leads to.
LEMMA NextTarget ==
    ASSUME SearchInv(search), NEW target, IsNext(target)
    PROVE  /\ search.cycle = <<>> /\ search.of # Null
           /\ Len(search.stack) > 0 /\ Len(search.frames) = Len(search.stack)
           /\ target \in search.frames[Len(search.stack)]
           /\ target \in search.graph[search.stack[Len(search.stack)]]
           /\ target \in DOMAIN search.graph
<1>1. PICK s : s = search
  OBVIOUS
<1>2. /\ s.cycle = <<>> /\ s.of # Null /\ s.frames # <<>>
      /\ Last(s.frames) # {} /\ target = Min(Last(s.frames))
  BY <1>1 DEF IsNext, Underway
<1>3. PathSound(s) /\ LeftSound(s) /\ IsGraph(s.graph)
  BY <1>1, <1>2 DEF SearchInv
<1>4. PICK n \in Nat : n = Len(s.stack) /\ n = Len(s.frames)
  BY <1>3 DEF PathSound
<1>5. n > 0 /\ Last(s.frames) = s.frames[n] /\ s.frames[n] \subseteq s.graph[s.stack[n]] /\ s.stack[n] \in DOMAIN s.graph
  <2>1. PICK W : W = SUBSET (DOMAIN s.graph)
    OBVIOUS
  <2>2. s.frames \in Seq(W)
    BY <1>3, <2>1 DEF PathSound
  <2>3. n > 0
    BY <1>2, <1>4, <2>2
  <2>4. s.frames[n] \subseteq s.graph[s.stack[n]]
    BY <1>3, <1>4, <2>3 DEF LeftSound
  <2>5. s.stack[n] \in DOMAIN s.graph
    BY <1>3, <1>4, <2>3 DEF PathSound
  <2> QED BY <1>4, <2>3, <2>4, <2>5 DEF Last
<1>6. s.graph[s.stack[n]] \subseteq DOMAIN s.graph /\ DOMAIN s.graph \subseteq Nat
  BY <1>3, <1>5 DEF IsGraph
<1>7. target \in s.frames[n]
  <2>1. PICK S \in SUBSET Nat : S = s.frames[n]
    BY <1>5, <1>6
  <2>2. S # {} /\ target = Min(S)
    BY <1>2, <1>5, <2>1
  <2>3. Min(S) \in S
    BY <2>2, MinOfNaturals
  <2> QED BY <2>1, <2>2, <2>3
<1> QED BY <1>1, <1>2, <1>4, <1>5, <1>6, <1>7

\* The first unvisited id is opened.
LEMMA RootSound ==
    ASSUME SearchInv(search), OpenRoot
    PROVE  SearchInv(search') /\ search'.of = search.of /\ search'.graph = search.graph
<1>1. PICK s : s = search
  OBVIOUS
<1>2. PICK id : id = Min(Unvisited(s))
  OBVIOUS
<1>3. /\ s.cycle = <<>> /\ s.frames = <<>> /\ Unvisited(s) # {} /\ search' = Opened(s, id)
  BY <1>1, <1>2 DEF OpenRoot, Underway
<1>4. id \in DOMAIN s.graph /\ s.colors[id] = 0
  <2>1. PICK S \in SUBSET Nat : S = Unvisited(s)
    BY <1>1 DEF Unvisited, SearchInv, IsGraph
  <2>2. id \in S
    BY <1>2, <1>3, <2>1, MinOfNaturals
  <2> QED BY <2>1, <2>2 DEF Unvisited
<1>5. s.frames \in Seq(SUBSET (DOMAIN s.graph)) /\ Len(s.stack) = Len(s.frames) /\ Len(s.frames) = 0
  BY <1>1, <1>3 DEF SearchInv, PathSound
<1>6. PICK f \in Seq(SUBSET (DOMAIN s.graph)) : f = s.frames
  BY <1>5
<1>7. [s EXCEPT !.frames = f] = s
  BY <1>1, <1>6 DEF SearchInv
<1>8. SearchInv(Opened([s EXCEPT !.frames = f], id))
  <2>1. Len(f) = Len(s.frames) /\ \A i \in 1..Len(f) : f[i] = s.frames[i]
    BY <1>6
  <2>2. Len(s.stack) > 0 => id \in s.graph[s.stack[Len(s.stack)]]
    BY <1>5
  <2>3. SearchInv(s) /\ s.cycle = <<>>
    BY <1>1, <1>3
  <2> QED BY <1>4, <2>1, <2>2, <2>3, OpenedSound
<1>9. Opened(s, id).of = s.of /\ Opened(s, id).graph = s.graph
  BY <1>1 DEF Opened, SearchInv
<1> QED BY <1>1, <1>3, <1>7, <1>8, <1>9

\* A target is followed.
LEMMA FollowSound ==
    ASSUME SearchInv(search), NEW target, Follow(target)
    PROVE  SearchInv(search') /\ search'.of = search.of /\ search'.graph = search.graph
<1>1. PICK s : s = search
  OBVIOUS
<1>2. PICK n : n = Len(s.stack)
  OBVIOUS
<1>3. IsNext(target)
  BY DEF Follow
<1>4. /\ s.cycle = <<>> /\ n > 0 /\ Len(s.frames) = n /\ target \in s.frames[n]
      /\ target \in s.graph[s.stack[n]] /\ target \in DOMAIN s.graph
  BY <1>1, <1>2, <1>3, NextTarget
<1>5. PathSound(s) /\ LeftSound(s) /\ IsGraph(s.graph) /\ s.colors \in [DOMAIN s.graph -> {0, 1, 2}]
  BY <1>1, <1>4 DEF SearchInv
<1>6. PICK f : f = [s.frames EXCEPT ![n] = s.frames[n] \ {target}]
  OBVIOUS
<1>7. /\ f \in Seq(SUBSET (DOMAIN s.graph)) /\ Len(f) = n /\ n \in Nat
      /\ f[n] = s.frames[n] \ {target} /\ \A i \in 1..n : i # n => f[i] = s.frames[i]
  <2>1. PICK W : W = SUBSET (DOMAIN s.graph)
    OBVIOUS
  <2>2. PICK frames : frames = s.frames
    OBVIOUS
  <2>3. frames \in Seq(W) /\ Len(frames) = n /\ n \in Nat /\ n \in 1..n
    BY <1>2, <1>4, <1>5, <2>1, <2>2 DEF PathSound
  <2>4. PICK top : top = frames[n] \ {target}
    OBVIOUS
  <2>5. top \in W
    BY <2>1, <2>3, <2>4
  <2>6. f = [frames EXCEPT ![n] = top]
    BY <1>6, <2>2, <2>4
  <2>7. f \in Seq(W) /\ Len(f) = n /\ f[n] = top /\ \A i \in 1..n : i # n => f[i] = frames[i]
    BY <2>3, <2>5, <2>6
  <2> QED BY <2>1, <2>2, <2>3, <2>4, <2>7
<1>8. PICK t : t = [s EXCEPT !.frames = f]
  OBVIOUS
<1>9. /\ Taken(target) = t
      /\ t = [of |-> s.of, graph |-> s.graph, colors |-> s.colors, stack |-> s.stack,
              frames |-> f, cycle |-> s.cycle]
  <2>1. t = [of |-> s.of, graph |-> s.graph, colors |-> s.colors, stack |-> s.stack,
             frames |-> f, cycle |-> s.cycle]
    BY <1>1, <1>8 DEF SearchInv
  <2>2. Taken(target) = t
    BY <1>1, <1>4, <1>6, <1>8 DEF Taken
  <2> QED BY <2>1, <2>2
<1>10. /\ t.of = s.of /\ t.graph = s.graph /\ t.colors = s.colors /\ t.stack = s.stack
       /\ t.frames = f /\ t.cycle = <<>>
  BY <1>4, <1>9
<1>11. CASE s.colors[target] = 0
  <2>1. search' = Opened(t, target)
    BY <1>9, <1>10, <1>11 DEF Follow
  <2>2. SearchInv(Opened([s EXCEPT !.frames = f], target))
    BY <1>1, <1>2, <1>4, <1>7, <1>11, OpenedSound
  <2>3. Opened(t, target).of = t.of /\ Opened(t, target).graph = t.graph
    BY <1>9 DEF Opened
  <2> QED BY <1>1, <1>8, <1>10, <2>1, <2>2, <2>3
<1>12. CASE s.colors[target] = 2
  <2>1. search' = t
    BY <1>9, <1>10, <1>12 DEF Follow
  <2>2. LeftIds(t) = LeftIds(s) /\ target \in LeftIds(s)
    BY <1>4, <1>10, <1>12 DEF LeftIds
  <2>3. PathSound(t)
    BY <1>2, <1>5, <1>7, <1>10 DEF PathSound
  <2>4. ASSUME NEW i \in 1..n
        PROVE  /\ f[i] \subseteq s.graph[s.stack[i]]
               /\ \A v \in s.graph[s.stack[i]] \ f[i] :
                     v \in LeftIds(s) \/ \E j \in 1..n : j = i + 1 /\ v = s.stack[j]
    <3>1. /\ s.frames[i] \subseteq s.graph[s.stack[i]]
          /\ \A v \in s.graph[s.stack[i]] \ s.frames[i] :
                v \in LeftIds(s) \/ \E j \in 1..n : j = i + 1 /\ v = s.stack[j]
      BY <1>2, <1>5 DEF LeftSound
    <3>2. f[i] = s.frames[i] \/ f[i] = s.frames[i] \ {target}
      BY <1>7
    <3> QED BY <2>2, <3>1, <3>2
  <2>5. /\ \A v \in LeftIds(s) : s.graph[v] \subseteq LeftIds(s)
        /\ \A ids \in SUBSET LeftIds(s) : ids # {} => \E v \in ids : s.graph[v] \cap ids = {}
    BY <1>5 DEF LeftSound
  <2>6. LeftSound(t)
    BY <1>2, <1>10, <2>2, <2>4, <2>5 DEF LeftSound
  <2> QED BY <1>1, <1>5, <1>9, <1>10, <2>1, <2>3, <2>6 DEF SearchInv
<1>13. CASE s.colors[target] = 1
  <2>1. PICK from : from = CHOOSE i \in DOMAIN t.stack : t.stack[i] = target
    OBVIOUS
  <2>2. PICK cycle : cycle = Append(SubSeq(s.stack, from, n), target)
    OBVIOUS
  <2>3. search' = [t EXCEPT !.cycle = cycle]
    <3>1. search' = CycleFound(t, target)
      BY <1>9, <1>10, <1>13 DEF Follow
    <3> QED BY <1>2, <1>10, <2>1, <2>2, <3>1 DEF CycleFound
  <2>4. from \in 1..n /\ s.stack[from] = target
    <3>0. DOMAIN s.stack = 1..n /\ \E i \in 1..n : s.stack[i] = target
      <4>1. PICK stack : stack = s.stack
        OBVIOUS
      <4>2. stack \in Seq(DOMAIN s.graph) /\ Len(stack) = n
        BY <1>2, <1>5, <4>1 DEF PathSound
      <4>3. \E i \in 1..Len(s.stack) : s.stack[i] = target
        BY <1>4, <1>5, <1>13 DEF PathSound
      <4> QED BY <1>2, <4>1, <4>2, <4>3
    <3>1. DOMAIN t.stack = 1..n /\ \E i \in 1..n : t.stack[i] = target
      BY <1>10, <3>0
    <3>2. from \in DOMAIN t.stack /\ t.stack[from] = target
      BY <2>1, <3>1
    <3> QED BY <1>10, <3>1, <3>2
  <2>5. /\ cycle \in Seq(DOMAIN s.graph) /\ OnCycle(s.graph, cycle) /\ cycle # <<>>
    <3>1. PICK stack, V : stack = s.stack /\ V = DOMAIN s.graph
      OBVIOUS
    <3>2. stack \in Seq(V) /\ Len(stack) = n /\ n \in Nat /\ target \in V
      BY <1>2, <1>4, <1>5, <1>7, <3>1 DEF PathSound
    <3>3. PICK tail : tail = SubSeq(stack, from, n)
      OBVIOUS
    <3>4. PICK m \in Nat : m = n - from + 1 /\ m > 0
      BY <2>4, <3>2
    <3>5. tail \in Seq(V) /\ Len(tail) = m /\ \A i \in 1..m : tail[i] = stack[from + i - 1]
      BY <2>4, <3>2, <3>3, <3>4
    <3>6. cycle = Append(tail, target)
      BY <2>2, <3>1, <3>3
    <3>7. /\ cycle \in Seq(V) /\ Len(cycle) = m + 1 /\ cycle[m + 1] = target
          /\ \A i \in 1..m : cycle[i] = tail[i]
      BY <3>2, <3>5, <3>6
    <3>8. cycle[1] = target /\ Head(cycle) = cycle[1] /\ Last(cycle) = cycle[m + 1]
      BY <2>4, <3>1, <3>4, <3>5, <3>7 DEF Last
    <3>9. ASSUME NEW i \in 1..m PROVE cycle[i + 1] \in s.graph[cycle[i]]
      <4>1. cycle[i] = stack[from + i - 1] /\ from + i - 1 \in 1..n
        BY <2>4, <3>2, <3>4, <3>5, <3>7
      <4>2. CASE i = m
        <5>1. from + i - 1 = n /\ cycle[i + 1] = target
          BY <2>4, <3>2, <3>4, <3>7, <4>2
        <5> QED BY <1>4, <3>1, <4>1, <5>1
      <4>3. CASE i # m
        <5>1. cycle[i + 1] = stack[from + i] /\ from + i \in 1..n /\ from + i = (from + i - 1) + 1
          BY <2>4, <3>2, <3>4, <3>5, <3>7, <4>3
        <5>2. stack[from + i] \in s.graph[stack[from + i - 1]]
          BY <1>2, <1>5, <3>1, <4>1, <5>1 DEF PathSound
        <5> QED BY <4>1, <5>1, <5>2
      <4> QED BY <4>2, <4>3
    <3> QED BY <3>1, <3>4, <3>7, <3>8, <3>9 DEF OnCycle
  <2>6. PICK u : u = [t EXCEPT !.cycle = cycle]
    OBVIOUS
  <2>7. /\ u = [of |-> s.of, graph |-> s.graph, colors |-> s.colors, stack |-> s.stack,
                frames |-> f, cycle |-> cycle]
    BY <1>9, <2>6
  <2>8. /\ u.of = s.of /\ u.graph = s.graph /\ u.colors = s.colors /\ u.stack = s.stack
        /\ u.frames = f /\ u.cycle = cycle
    BY <2>7
  <2> QED BY <1>1, <1>5, <2>3, <2>5, <2>6, <2>7, <2>8 DEF SearchInv
<1>14. s.colors[target] \in {0, 1, 2}
  BY <1>4, <1>5
<1> QED BY <1>11, <1>12, <1>13, <1>14

\* The last id of the path is left.
LEMMA BacktrackSound ==
    ASSUME SearchInv(search), Backtrack
    PROVE  SearchInv(search') /\ search'.of = search.of /\ search'.graph = search.graph
<1>1. PICK s : s = search
  OBVIOUS
<1>2. PICK t : t = search'
  OBVIOUS
<1>3. PICK V : V = DOMAIN s.graph
  OBVIOUS
<1>4. /\ s.cycle = <<>> /\ s.frames # <<>> /\ Last(s.frames) = {}
      /\ t = [s EXCEPT !.colors[Last(s.stack)] = 2, !.stack = Front(s.stack), !.frames = Front(s.frames)]
  BY <1>1, <1>2 DEF Backtrack, Underway
<1>5. PathSound(s) /\ LeftSound(s) /\ IsGraph(s.graph) /\ s.colors \in [V -> {0, 1, 2}]
  BY <1>1, <1>3, <1>4 DEF SearchInv
<1>6. PICK n \in Nat : n + 1 = Len(s.stack) /\ n + 1 = Len(s.frames)
  <2>1. PICK W : W = SUBSET (DOMAIN s.graph)
    OBVIOUS
  <2>2. PICK frames \in Seq(W) : frames = s.frames
    BY <1>5, <2>1 DEF PathSound
  <2>3. Len(frames) \in Nat /\ Len(frames) > 0 /\ Len(s.stack) = Len(frames)
    BY <1>4, <1>5, <2>2 DEF PathSound
  <2>4. Len(frames) - 1 \in Nat
    BY <2>3
  <2>5. PICK m \in Nat : m = Len(frames) - 1
    BY <2>4
  <2>6. m + 1 = Len(frames)
    BY <2>3, <2>5
  <2> QED BY <2>2, <2>3, <2>6
<1>7. PICK v : v = s.stack[n + 1]
  OBVIOUS
<1>8. /\ v \in V /\ Last(s.stack) = v /\ Front(s.stack) \in Seq(V) /\ Len(Front(s.stack)) = n
      /\ \A i \in 1..n : Front(s.stack)[i] = s.stack[i]
  <2>1. PICK stack \in Seq(V) : stack = s.stack
    BY <1>3, <1>5 DEF PathSound
  <2>2. PICK front : front = Front(stack)
    OBVIOUS
  <2>3. Len(stack) = n + 1 /\ front = SubSeq(stack, 1, n) /\ Last(stack) = stack[n + 1]
    BY <1>6, <2>1, <2>2 DEF Front, Last
  <2>4. stack[n + 1] \in V /\ front \in Seq(V) /\ Len(front) = n /\ \A i \in 1..n : front[i] = stack[i]
    BY <2>1, <2>3
  <2> QED BY <1>7, <2>1, <2>2, <2>3, <2>4
<1>9. /\ s.frames[n + 1] = {} /\ Front(s.frames) \in Seq(SUBSET V) /\ Len(Front(s.frames)) = n
      /\ \A i \in 1..n : Front(s.frames)[i] = s.frames[i]
  <2>1. PICK W : W = SUBSET V
    OBVIOUS
  <2>2. PICK frames \in Seq(W) : frames = s.frames
    BY <1>3, <1>5, <2>1 DEF PathSound
  <2>3. PICK front : front = Front(frames)
    OBVIOUS
  <2>4. Len(frames) = n + 1 /\ front = SubSeq(frames, 1, n) /\ Last(frames) = frames[n + 1]
    BY <1>6, <2>2, <2>3 DEF Front, Last
  <2>5. front \in Seq(W) /\ Len(front) = n /\ \A i \in 1..n : front[i] = frames[i]
    BY <2>2, <2>4
  <2> QED BY <1>4, <2>1, <2>2, <2>3, <2>4, <2>5
<1>10. PICK after : after = [s.colors EXCEPT ![v] = 2]
  OBVIOUS
<1>11. /\ after \in [V -> {0, 1, 2}] /\ after[v] = 2
       /\ \A id \in V : id # v => after[id] = s.colors[id]
  <2>1. PICK colors : colors = s.colors
    OBVIOUS
  <2>2. colors \in [V -> {0, 1, 2}] /\ after = [colors EXCEPT ![v] = 2] /\ v \in V
    BY <1>5, <1>8, <1>10, <2>1
  <2>3. after \in [V -> {0, 1, 2}] /\ after[v] = 2 /\ \A id \in V : id # v => after[id] = colors[id]
    BY <2>2
  <2> QED BY <2>1, <2>3
<1>12. PICK stack, frames : stack = Front(s.stack) /\ frames = Front(s.frames)
  OBVIOUS
<1>13. t = [of |-> s.of, graph |-> s.graph, colors |-> after, stack |-> stack,
            frames |-> frames, cycle |-> s.cycle]
  <2>1. t = [s EXCEPT !.colors = after, !.stack = stack, !.frames = frames]
    BY <1>4, <1>8, <1>10, <1>12, Zenon
  <2> QED BY <1>1, <2>1 DEF SearchInv
<1>14. /\ t.of = s.of /\ t.graph = s.graph /\ t.colors = after /\ t.stack = stack
       /\ t.frames = frames /\ t.cycle = <<>>
  <2>1. s.cycle = <<>>
    BY <1>4
  <2> QED BY <1>13, <2>1
<1>15. /\ stack \in Seq(V) /\ Len(stack) = n /\ \A i \in 1..n : stack[i] = s.stack[i]
       /\ frames \in Seq(SUBSET V) /\ Len(frames) = n /\ \A i \in 1..n : frames[i] = s.frames[i]
  <2>1. stack \in Seq(V) /\ Len(stack) = n /\ \A i \in 1..n : stack[i] = s.stack[i]
    BY <1>8, <1>12
  <2>2. PICK W : W = SUBSET V
    OBVIOUS
  <2>3. frames \in Seq(W) /\ Len(frames) = n /\ \A i \in 1..n : frames[i] = s.frames[i]
    BY <1>9, <1>12, <2>2
  <2> QED BY <2>1, <2>2, <2>3
<1>16. /\ \A id \in V : s.colors[id] = 1 <=> \E i \in 1..(n + 1) : s.stack[i] = id
       /\ \A i, j \in 1..(n + 1) : s.stack[i] = s.stack[j] => i = j
       /\ \A i, j \in 1..(n + 1) : j = i + 1 => s.stack[j] \in s.graph[s.stack[i]]
       /\ \A i \in 1..(n + 1) : s.stack[i] \in V
  BY <1>3, <1>5, <1>6 DEF PathSound
<1>17. /\ n + 1 \in 1..(n + 1) /\ \A i \in 1..n : i \in 1..(n + 1) /\ i # n + 1
       /\ \A i \in 1..(n + 1) : i \in 1..n \/ i = n + 1
  OBVIOUS
<1>18. \A i \in 1..n : s.stack[i] # v
  BY <1>7, <1>16, <1>17
<1>19. PICK L : L = LeftIds(s)
  OBVIOUS
<1>20. LeftIds(t) = L \cup {v} /\ v \notin L /\ L \subseteq V
  <2>1. s.colors[v] = 1
    BY <1>7, <1>8, <1>16, <1>17
  <2>2. L = {id \in V : s.colors[id] = 2} /\ LeftIds(t) = {id \in V : after[id] = 2}
    BY <1>3, <1>14, <1>19 DEF LeftIds
  <2> QED BY <1>8, <1>11, <2>1, <2>2
<1>21. s.graph[v] \subseteq L
  <2>1. /\ \A id \in s.graph[v] \ s.frames[n + 1] :
              id \in L \/ \E j \in 1..(n + 1) : j = (n + 1) + 1 /\ id = s.stack[j]
    BY <1>5, <1>6, <1>7, <1>17, <1>19 DEF LeftSound
  <2>2. \A j \in 1..(n + 1) : j # (n + 1) + 1
    OBVIOUS
  <2> QED BY <1>9, <2>1, <2>2
<1>22. PathSound(t)
  <2>1. ASSUME NEW id \in V PROVE after[id] = 1 <=> \E i \in 1..n : stack[i] = id
    <3>1. CASE id = v
      BY <1>11, <1>15, <1>18, <3>1
    <3>2. CASE id # v
      <4>1. (\E i \in 1..(n + 1) : s.stack[i] = id) <=> \E i \in 1..n : stack[i] = id
        BY <1>7, <1>15, <1>17, <3>2
      <4> QED BY <1>11, <1>16, <3>2, <4>1
    <3> QED BY <3>1, <3>2
  <2>2. \A i, j \in 1..n : stack[i] = stack[j] => i = j
    BY <1>15, <1>16, <1>17
  <2>3. \A i, j \in 1..n : j = i + 1 => stack[j] \in s.graph[stack[i]]
    BY <1>15, <1>16, <1>17
  <2> QED BY <1>3, <1>14, <1>15, <2>1, <2>2, <2>3 DEF PathSound
<1>23. LeftSound(t)
  <2>1. ASSUME NEW i \in 1..n
        PROVE  /\ frames[i] \subseteq s.graph[stack[i]]
               /\ \A id \in s.graph[stack[i]] \ frames[i] :
                     id \in L \cup {v} \/ \E j \in 1..n : j = i + 1 /\ id = stack[j]
    <3>1. /\ s.frames[i] \subseteq s.graph[s.stack[i]]
          /\ \A id \in s.graph[s.stack[i]] \ s.frames[i] :
                id \in L \/ \E j \in 1..(n + 1) : j = i + 1 /\ id = s.stack[j]
      BY <1>5, <1>6, <1>17, <1>19 DEF LeftSound
    <3>2. stack[i] = s.stack[i] /\ frames[i] = s.frames[i]
      BY <1>15
    <3>3. ASSUME NEW id \in s.graph[stack[i]] \ frames[i]
          PROVE  id \in L \cup {v} \/ \E j \in 1..n : j = i + 1 /\ id = stack[j]
      <4>1. id \in L \/ \E j \in 1..(n + 1) : j = i + 1 /\ id = s.stack[j]
        BY <3>1, <3>2
      <4>2. ASSUME NEW j \in 1..(n + 1), j = i + 1, id = s.stack[j]
            PROVE  id = v \/ (j \in 1..n /\ id = stack[j])
        BY <1>7, <1>15, <1>17, <4>2
      <4> QED BY <4>1, <4>2
    <3> QED BY <3>1, <3>2, <3>3
  <2>2. ASSUME NEW id \in L \cup {v} PROVE s.graph[id] \subseteq L
    BY <1>5, <1>19, <1>21 DEF LeftSound
  <2>3. ASSUME NEW ids \in SUBSET (L \cup {v}), ids # {}
        PROVE  \E id \in ids : s.graph[id] \cap ids = {}
    <3>1. PICK old : old = ids \ {v}
      OBVIOUS
    <3>2. CASE old = {}
      <4>1. ids = {v} /\ s.graph[v] \cap ids = {}
        BY <1>20, <1>21, <2>3, <3>1, <3>2
      <4> QED BY <4>1
    <3>3. CASE old # {}
      <4>1. old \in SUBSET L
        BY <3>1
      <4>2. PICK id \in old : s.graph[id] \cap old = {}
        BY <1>5, <1>19, <3>3, <4>1 DEF LeftSound
      <4>3. s.graph[id] \cap ids = {} /\ id \in ids
        BY <1>20, <2>2, <3>1, <4>1, <4>2
      <4> QED BY <4>3
    <3> QED BY <3>2, <3>3
  <2>4. t.graph = s.graph /\ LeftIds(t) = L \cup {v} /\ Len(t.stack) = n /\ t.stack = stack /\ t.frames = frames
    BY <1>14, <1>15, <1>20
  <2>5. \A id \in LeftIds(t) : s.graph[id] \subseteq LeftIds(t)
    BY <2>2, <2>4
  <2> QED BY <2>1, <2>3, <2>4, <2>5 DEF LeftSound
<1> QED BY <1>1, <1>2, <1>3, <1>5, <1>11, <1>13, <1>14, <1>22, <1>23 DEF SearchInv

\* A search that ends has found a cycle, or there is none.
LEMMA SearchIsExact ==
    ASSUME SearchInv(search), SearchEnds
    PROVE  /\ search.cycle # <<>> <=> Cyclic(search.graph)
           /\ search.cycle # <<>> => OnCycle(search.graph, search.cycle)
<1>1. PICK s : s = search
  OBVIOUS
<1>2. CASE s.cycle # <<>>
  <2>1. OnCycle(s.graph, s.cycle) /\ s.cycle \in Seq(DOMAIN s.graph)
    BY <1>1, <1>2 DEF SearchInv
  <2> QED BY <1>1, <1>2, <2>1, PathIsCyclic
<1>3. CASE s.cycle = <<>>
  <2>1. s.frames = <<>> /\ Unvisited(s) = {} /\ PathSound(s) /\ LeftSound(s)
    BY <1>1, <1>3 DEF SearchInv, SearchEnds
  <2>2. Len(s.stack) = 0
    BY <2>1 DEF PathSound
  <2>3. LeftIds(s) = DOMAIN s.graph
    <3>1. ASSUME NEW id \in DOMAIN s.graph PROVE s.colors[id] = 2
      <4>1. s.colors[id] \in {0, 1, 2}
        BY <1>1 DEF SearchInv
      <4>2. s.colors[id] # 1
        BY <2>1, <2>2 DEF PathSound
      <4>3. s.colors[id] # 0
        BY <2>1 DEF Unvisited
      <4> QED BY <4>1, <4>2, <4>3
    <3> QED BY <3>1 DEF LeftIds
  <2>4. ~Cyclic(s.graph)
    <3>1. \A ids \in SUBSET (DOMAIN s.graph) : ids # {} => \E id \in ids : s.graph[id] \cap ids = {}
      BY <2>1, <2>3 DEF LeftSound
    <3>2. SUFFICES ASSUME NEW ids \in (SUBSET DOMAIN s.graph) \ {{}}, \A id \in ids : s.graph[id] \cap ids # {}
                   PROVE  FALSE
      BY DEF Cyclic
    <3>3. ids \in SUBSET (DOMAIN s.graph) /\ ids # {}
      BY <3>2
    <3>4. PICK id \in ids : s.graph[id] \cap ids = {}
      BY <3>1, <3>3
    <3> QED BY <3>2, <3>4
  <2> QED BY <1>1, <1>3, <2>4
<1> QED BY <1>2, <1>3

-----------------------------------------------------------------------------
(* The contract: the issues are exact                                       *)

\* Issues none of which is of a cycle.
Acyclic(issues) == \A issue \in issues : issue[2] \notin {"RELATION_CYCLE", "SCOPE_CYCLE"}

\* The issues of an object's spans.
LEMMA SpansAreExact ==
    ASSUME NEW object, NEW query, NEW collection, NEW i
    PROVE  /\ SpanIssues(object, query, collection, i) = {} <=> SoundSpans(object, query)
           /\ Acyclic(SpanIssues(object, query, collection, i))
<1> DEFINE span(j) == object.source_spans[j]
           place(j) == <<collection, i, "source_spans", j>>
           inside(j) == 0 <= span(j).start /\ span(j).end <= Len(query)
           proper(j) == span(j).start < span(j).end
           same(j) == SubSeq(query, span(j).start + 1, span(j).end) = span(j).text
           IssuesAt(j) == Issue(~inside(j), place(j), "SPAN_OUT_OF_BOUNDS")
                    \cup Issue(~proper(j), place(j), "SPAN_EMPTY_OR_REVERSED")
                    \cup Issue(inside(j) /\ proper(j) /\ ~same(j), place(j), "SPAN_TEXT_MISMATCH")
<1>1. PICK all : all = SpanIssues(object, query, collection, i)
  OBVIOUS
<1>2. all = UNION {IssuesAt(j) : j \in DOMAIN object.source_spans}
  BY <1>1 DEF SpanIssues
<1>3. SoundSpans(object, query) <=> \A j \in DOMAIN object.source_spans : inside(j) /\ proper(j) /\ same(j)
  BY DEF SoundSpans
<1>4. ASSUME NEW j \in DOMAIN object.source_spans
      PROVE  /\ IssuesAt(j) = {} <=> inside(j) /\ proper(j) /\ same(j)
             /\ \A issue \in IssuesAt(j) : issue[2] \notin {"RELATION_CYCLE", "SCOPE_CYCLE"}
  <2>1. PICK where, ok, long, equal :
              where = place(j) /\ (ok <=> inside(j)) /\ (long <=> proper(j)) /\ (equal <=> same(j))
    <3> HIDE DEF inside, proper, same, place
    <3> QED OBVIOUS
  <2> HIDE DEF inside, proper, same, place
  <2>2. IssuesAt(j) = (IF ~ok THEN {<<where, "SPAN_OUT_OF_BOUNDS">>} ELSE {})
                \cup (IF ~long THEN {<<where, "SPAN_EMPTY_OR_REVERSED">>} ELSE {})
                \cup (IF ok /\ long /\ ~equal THEN {<<where, "SPAN_TEXT_MISMATCH">>} ELSE {})
    BY <2>1 DEF Issue
  <2> HIDE DEF IssuesAt
  <2>3. \A issue \in IssuesAt(j) : issue[2] \notin {"RELATION_CYCLE", "SCOPE_CYCLE"}
    BY <2>2
  <2>4. CASE ok /\ long /\ equal
    BY <2>1, <2>2, <2>3, <2>4
  <2>5. CASE ~ok \/ ~long
    BY <2>1, <2>2, <2>3, <2>5
  <2>6. CASE ok /\ long /\ ~equal
    BY <2>1, <2>2, <2>3, <2>6
  <2> QED BY <2>1, <2>4, <2>5, <2>6
<1> HIDE DEF IssuesAt, inside, proper, same
<1>5. all = {} <=> \A j \in DOMAIN object.source_spans : IssuesAt(j) = {}
  BY <1>2
<1>6. \A issue \in all : issue[2] \notin {"RELATION_CYCLE", "SCOPE_CYCLE"}
  BY <1>2, <1>4
<1> QED BY <1>1, <1>3, <1>4, <1>5, <1>6 DEF Acyclic

\* The issues of the ids of a list.
LEMMA IdsAreExact ==
    ASSUME NEW ids, NEW collection, NEW field, Len(ids) \in Nat, DOMAIN ids = 1..Len(ids)
    PROVE  /\ (\A i \in DOMAIN ids : IdIssues(ids, collection, i, field) = {}) <=> Distinct(ids)
           /\ \A i \in DOMAIN ids : Acyclic(IdIssues(ids, collection, i, field))
<1>1. ASSUME NEW i \in DOMAIN ids
      PROVE  /\ IdIssues(ids, collection, i, field) = {}
                   <=> ids[i] # 0 /\ \A k \in 1..(i - 1) : ids[k] # ids[i]
             /\ Acyclic(IdIssues(ids, collection, i, field))
  <2> DEFINE again == \E k \in 1..(i - 1) : ids[k] = ids[i]
  <2>1. IdIssues(ids, collection, i, field) = Issue(ids[i] = 0, <<collection, i, field, 0>>, "EMPTY")
           \cup Issue(ids[i] # 0 /\ again, <<collection, i, field, 0>>, "DUPLICATE")
    BY DEF IdIssues
  <2>2. again <=> ~\A k \in 1..(i - 1) : ids[k] # ids[i]
    OBVIOUS
  <2> HIDE DEF again
  <2>3. PICK all : all = IdIssues(ids, collection, i, field)
    OBVIOUS
  <2>4. all = (IF ids[i] = 0 THEN {<<<<collection, i, field, 0>>, "EMPTY">>} ELSE {})
              \cup (IF ids[i] # 0 /\ again THEN {<<<<collection, i, field, 0>>, "DUPLICATE">>} ELSE {})
    BY <2>1, <2>3 DEF Issue
  <2>5. all = {} <=> ids[i] # 0 /\ ~again
    BY <2>4
  <2>6. \A issue \in all : issue[2] \notin {"RELATION_CYCLE", "SCOPE_CYCLE"}
    BY <2>4
  <2> QED BY <2>2, <2>3, <2>5, <2>6 DEF Acyclic
<1>2. Distinct(ids) <=> /\ \A i \in DOMAIN ids : ids[i] # 0
                        /\ \A i, k \in DOMAIN ids : ids[i] = ids[k] => i = k
  BY DEF Distinct, Range, IsInjective
<1>3. (\A i, k \in DOMAIN ids : ids[i] = ids[k] => i = k)
         <=> \A i \in DOMAIN ids : \A k \in 1..(i - 1) : ids[k] # ids[i]
  <2>1. ASSUME \A i, k \in DOMAIN ids : ids[i] = ids[k] => i = k, NEW i \in DOMAIN ids, NEW k \in 1..(i - 1)
        PROVE  ids[k] # ids[i]
    BY <2>1
  <2>2. ASSUME \A i \in DOMAIN ids : \A k \in 1..(i - 1) : ids[k] # ids[i],
               NEW i \in DOMAIN ids, NEW k \in DOMAIN ids, ids[i] = ids[k]
        PROVE  i = k
    <3>1. i \in Nat /\ k \in Nat /\ i >= 1 /\ k >= 1
      OBVIOUS
    <3>2. CASE i < k
      <4>1. i \in 1..(k - 1)
        BY <3>1, <3>2
      <4> QED BY <2>2, <4>1
    <3>3. CASE k < i
      <4>1. k \in 1..(i - 1)
        BY <3>1, <3>3
      <4> QED BY <2>2, <4>1
    <3> QED BY <3>1, <3>2, <3>3
  <2> QED BY <2>1, <2>2
<1>4. (\A i \in DOMAIN ids : IdIssues(ids, collection, i, field) = {})
         <=> /\ \A i \in DOMAIN ids : ids[i] # 0
             /\ \A i \in DOMAIN ids : \A k \in 1..(i - 1) : ids[k] # ids[i]
  BY <1>1
<1> QED BY <1>1, <1>2, <1>3, <1>4

\* An act is one its node allows.
LEMMA ActsAreExact ==
    ASSUME NEW node, NEW place, node.node_type \in NodeTypes, node.act \in Acts \cup {Null}
    PROVE  /\ ActIssues(node, place) = {} <=> node.act \in Allowed[node.node_type]
           /\ Acyclic(ActIssues(node, place))
<1>1. Null \notin Acts
  BY ContractAssumption
<1>2. PICK act, type : act = node.act /\ type = node.node_type
  OBVIOUS
<1>3. /\ act \in {"VERIFY_ASSERTION", "DENY_REQUEST", "REPORT_ASSERTION", Null}
      /\ type \in {"USER_REQUEST", "REPORTED_ASSERTION", "ENTITY", "CONDITION"}
      /\ Null \notin {"VERIFY_ASSERTION", "DENY_REQUEST", "REPORT_ASSERTION"}
  BY <1>1, <1>2 DEF Acts, NodeTypes, Acting, OfRequests
<1>4. act \in Allowed[type] <=>
         /\ type = "USER_REQUEST" => act \in {"VERIFY_ASSERTION", "DENY_REQUEST"}
         /\ type = "REPORTED_ASSERTION" => act = "REPORT_ASSERTION"
         /\ type \in {"ENTITY", "CONDITION"} => act = Null
  BY <1>3 DEF Allowed
<1>5. ActIssues(node, place) = {} <=>
         /\ ~(type \in Acting /\ act = Null)
         /\ ~(\/ act \in OfRequests /\ type # "USER_REQUEST"
              \/ act = "REPORT_ASSERTION" /\ type # "REPORTED_ASSERTION")
  BY <1>2 DEF ActIssues, Issue
<1>6. Acyclic(ActIssues(node, place))
  BY DEF ActIssues, Issue, Acyclic
<1> QED BY <1>2, <1>3, <1>4, <1>5, <1>6 DEF Acting, OfRequests

\* What a readable record of a file is made of.
Typing(r) ==
    /\ \A objects \in {r.nodes, r.edges, r.scopes} :
          Len(objects) \in Nat /\ DOMAIN objects = 1..Len(objects)
    /\ \A node \in Range(r.nodes) :
          /\ node.node_id \in Nat /\ node.node_type \in NodeTypes
          /\ node.act \in Acts \cup {Null}
    /\ \A edge \in Range(r.edges) : {edge.edge_id, edge.source, edge.target} \subseteq Nat
    /\ \A scope \in Range(r.scopes) :
          /\ scope.scope_id \in Nat /\ scope.parent_scope_id \in Nat \cup {Null}
          /\ Len(scope.node_ids) \in Nat /\ DOMAIN scope.node_ids = 1..Len(scope.node_ids)

\* The ids a scope lists.
LEMMA ListedAreExact ==
    ASSUME NEW r, NEW i, NEW ids, Len(ids) \in Nat, DOMAIN ids = 1..Len(ids), ids = r.scopes[i].node_ids
    PROVE  /\ ListedIssues(r, i) = {} <=> Distinct(ids) /\ Range(ids) \subseteq NodeIds(r)
           /\ Acyclic(ListedIssues(r, i))
<1> DEFINE listedId(j) == r.scopes[i].node_ids[j]
           IssuesAt(j) == Issue(listedId(j) = 0, <<"scopes", i, "node_ids", j>>, "EMPTY_SCOPE_NODE_ID")
                    \cup Issue(listedId(j) # 0 /\ \E k \in 1..(j - 1) : listedId(k) = listedId(j),
                               <<"scopes", i, "node_ids", j>>, "DUPLICATE_SCOPE_NODE_ID")
                    \cup Issue(listedId(j) \notin NodeIds(r), <<"scopes", i, "node_ids", j>>,
                               "DANGLING_SCOPE_NODE")
<1>0. PICK listed : listed = ListedIssues(r, i)
  OBVIOUS
<1>1. \A issue : issue \in listed <=> \E j \in DOMAIN ids : issue \in IssuesAt(j)
  <2>1. listed = UNION {IssuesAt(j) : j \in DOMAIN r.scopes[i].node_ids}
    BY <1>0 DEF ListedIssues
  <2> HIDE DEF IssuesAt
  <2> QED BY <2>1
<1>2. ASSUME NEW j \in DOMAIN ids
      PROVE  /\ IssuesAt(j) = {} <=> /\ IdIssues(ids, "scopes", j, "node_ids") = {}
                               /\ ids[j] \in NodeIds(r)
             /\ \A issue \in IssuesAt(j) : issue[2] \notin {"RELATION_CYCLE", "SCOPE_CYCLE"}
  <2>1. PICK again, where, out :
              /\ again <=> \E k \in 1..(j - 1) : ids[k] = ids[j]
              /\ where = <<"scopes", i, "node_ids", j>>
              /\ out <=> ids[j] \notin NodeIds(r)
    OBVIOUS
  <2>2. IssuesAt(j) = (IF ids[j] = 0 THEN {<<where, "EMPTY_SCOPE_NODE_ID">>} ELSE {})
                \cup (IF ids[j] # 0 /\ again THEN {<<where, "DUPLICATE_SCOPE_NODE_ID">>} ELSE {})
                \cup (IF out THEN {<<where, "DANGLING_SCOPE_NODE">>} ELSE {})
    BY <2>1 DEF Issue
  <2>3. PICK own : own = IdIssues(ids, "scopes", j, "node_ids")
    OBVIOUS
  <2>4. PICK place : place = <<"scopes", j, "node_ids", 0>>
    OBVIOUS
  <2>5. own = (IF ids[j] = 0 THEN {<<place, "EMPTY">>} ELSE {})
              \cup (IF ids[j] # 0 /\ again THEN {<<place, "DUPLICATE">>} ELSE {})
    BY <2>1, <2>3, <2>4 DEF IdIssues, Issue
  <2> HIDE DEF IssuesAt
  <2>6. own = {} <=> ids[j] # 0 /\ ~again
    BY <2>5
  <2>7. IssuesAt(j) = {} <=> ids[j] # 0 /\ ~again /\ ~out
    BY <2>2
  <2>8. \A issue \in IssuesAt(j) : issue[2] \notin {"RELATION_CYCLE", "SCOPE_CYCLE"}
    BY <2>2
  <2> QED BY <2>1, <2>3, <2>6, <2>7, <2>8
<1> HIDE DEF IssuesAt
<1>3. listed = {} <=> \A j \in DOMAIN ids : IssuesAt(j) = {}
  BY <1>1
<1>4. (\A j \in DOMAIN ids : IdIssues(ids, "scopes", j, "node_ids") = {}) <=> Distinct(ids)
  BY IdsAreExact
<1>5. Range(ids) \subseteq NodeIds(r) <=> \A j \in DOMAIN ids : ids[j] \in NodeIds(r)
  BY DEF Range
<1>6. listed = {} <=> Distinct(ids) /\ Range(ids) \subseteq NodeIds(r)
  BY <1>2, <1>3, <1>4, <1>5
<1>7. Acyclic(listed)
  BY <1>1, <1>2 DEF Acyclic
<1> QED BY <1>0, <1>6, <1>7

\* The issues of a scope.
LEMMA ScopesAreExact ==
    ASSUME NEW r, Typing(r), NEW i \in DOMAIN r.scopes
    PROVE  /\ ScopeIssues(r, i) = {} <=>
                 /\ IdIssues(IdsOf(r.scopes, "scope_id"), "scopes", i, "scope_id") = {}
                 /\ SoundScope(r.scopes[i], r)
                 /\ r.scopes[i].parent_scope_id # r.scopes[i].scope_id
           /\ Acyclic(IdIssues(IdsOf(r.scopes, "scope_id"), "scopes", i, "scope_id"))
                 => Acyclic(ScopeIssues(r, i))
<1>1. PICK scope, ids : scope = r.scopes[i] /\ ids = scope.node_ids
  OBVIOUS
<1>2. PICK listed : listed = ListedIssues(r, i)
  OBVIOUS
<1>3. Len(ids) \in Nat /\ DOMAIN ids = 1..Len(ids)
  BY <1>1 DEF Typing, Range
<1>4. /\ listed = {} <=> Distinct(ids) /\ Range(ids) \subseteq NodeIds(r)
      /\ Acyclic(listed)
  BY <1>1, <1>2, <1>3, ListedAreExact
<1>5. PICK spans : spans = SpanIssues(scope, r.query, "scopes", i)
  OBVIOUS
<1>6. (spans = {} <=> SoundSpans(scope, r.query)) /\ Acyclic(spans)
  BY <1>5, SpansAreExact
<1>7. PICK own : own = IdIssues(IdsOf(r.scopes, "scope_id"), "scopes", i, "scope_id")
  OBVIOUS
<1>8. PICK all, at, up : /\ all = ScopeIssues(r, i)
                         /\ at = <<"scopes", i, "source_spans", 0>>
                         /\ up = <<"scopes", i, "parent_scope_id", 0>>
  OBVIOUS
<1>9. all = own \cup (IF scope.source_spans = <<>> THEN {<<at, "SCOPE_SOURCE_SPAN_REQUIRED">>} ELSE {})
            \cup spans \cup listed
            \cup (IF scope.parent_scope_id = scope.scope_id THEN {<<up, "SCOPE_SELF_PARENT">>} ELSE {})
            \cup (IF scope.parent_scope_id \notin {scope.scope_id, Null} \cup ScopeIds(r)
                  THEN {<<up, "DANGLING_SCOPE_PARENT">>} ELSE {})
  <2>1. all = own \cup Issue(scope.source_spans = <<>>, at, "SCOPE_SOURCE_SPAN_REQUIRED")
              \cup spans \cup listed
              \cup Issue(scope.parent_scope_id = scope.scope_id, up, "SCOPE_SELF_PARENT")
              \cup Issue(scope.parent_scope_id \notin {scope.scope_id, Null} \cup ScopeIds(r),
                         up, "DANGLING_SCOPE_PARENT")
    BY <1>1, <1>2, <1>5, <1>7, <1>8 DEF ScopeIssues
  <2>2. /\ Issue(scope.source_spans = <<>>, at, "SCOPE_SOURCE_SPAN_REQUIRED")
              = IF scope.source_spans = <<>> THEN {<<at, "SCOPE_SOURCE_SPAN_REQUIRED">>} ELSE {}
        /\ Issue(scope.parent_scope_id = scope.scope_id, up, "SCOPE_SELF_PARENT")
              = IF scope.parent_scope_id = scope.scope_id THEN {<<up, "SCOPE_SELF_PARENT">>} ELSE {}
        /\ Issue(scope.parent_scope_id \notin {scope.scope_id, Null} \cup ScopeIds(r),
                 up, "DANGLING_SCOPE_PARENT")
              = IF scope.parent_scope_id \notin {scope.scope_id, Null} \cup ScopeIds(r)
                THEN {<<up, "DANGLING_SCOPE_PARENT">>} ELSE {}
    BY DEF Issue
  <2> QED BY <2>1, <2>2
<1>10. all = {} <=> /\ own = {} /\ scope.source_spans # <<>> /\ spans = {} /\ listed = {}
                    /\ scope.parent_scope_id # scope.scope_id
                    /\ scope.parent_scope_id \in {scope.scope_id, Null} \cup ScopeIds(r)
  BY <1>9
<1>11. Acyclic(own) => Acyclic(all)
  BY <1>4, <1>6, <1>9 DEF Acyclic
<1>12. SoundScope(scope, r) <=>
          /\ scope.source_spans # <<>> /\ SoundSpans(scope, r.query)
          /\ Distinct(ids) /\ Range(ids) \subseteq NodeIds(r)
          /\ scope.parent_scope_id \in {Null} \cup ScopeIds(r)
  BY <1>1 DEF SoundScope, Sourced
<1>13. scope.parent_scope_id # scope.scope_id =>
          (scope.parent_scope_id \in {scope.scope_id, Null} \cup ScopeIds(r)
               <=> scope.parent_scope_id \in {Null} \cup ScopeIds(r))
  OBVIOUS
<1>14. all = {} <=> own = {} /\ SoundScope(scope, r) /\ scope.parent_scope_id # scope.scope_id
  BY <1>4, <1>6, <1>10, <1>12, <1>13
<1> QED BY <1>1, <1>7, <1>8, <1>11, <1>14

\* The issues of a node.
LEMMA NodesAreExact ==
    ASSUME NEW r, Typing(r), NEW i \in DOMAIN r.nodes
    PROVE  /\ NodeIssues(r, i) = {} <=>
                 /\ IdIssues(IdsOf(r.nodes, "node_id"), "nodes", i, "node_id") = {}
                 /\ SoundNode(r.nodes[i], r)
           /\ Acyclic(IdIssues(IdsOf(r.nodes, "node_id"), "nodes", i, "node_id"))
                 => Acyclic(NodeIssues(r, i))
<1>1. PICK node, act : node = r.nodes[i] /\ act = <<"nodes", i, "act", 0>>
  OBVIOUS
<1>2. node.node_type \in NodeTypes /\ node.act \in Acts \cup {Null}
  BY <1>1 DEF Typing, Range
<1>3. PICK spans : spans = SpanIssues(node, r.query, "nodes", i)
  OBVIOUS
<1>4. (spans = {} <=> SoundSpans(node, r.query)) /\ Acyclic(spans)
  BY <1>3, SpansAreExact
<1>5. PICK own : own = IdIssues(IdsOf(r.nodes, "node_id"), "nodes", i, "node_id")
  OBVIOUS
<1>6. PICK acts : acts = ActIssues(node, act)
  OBVIOUS
<1>7. (acts = {} <=> node.act \in Allowed[node.node_type]) /\ Acyclic(acts)
  BY <1>2, <1>6, ActsAreExact
<1>8. PICK all, text, at, in : /\ all = NodeIssues(r, i)
                               /\ text = <<"nodes", i, "text", 0>>
                               /\ at = <<"nodes", i, "source_spans", 0>>
                               /\ in = <<"nodes", i, "scope_id", 0>>
  OBVIOUS
<1>9. all = own \cup (IF node.text = <<>> THEN {<<text, "NODE_TEXT_REQUIRED">>} ELSE {})
            \cup (IF node.source_spans = <<>> THEN {<<at, "NODE_SOURCE_SPAN_REQUIRED">>} ELSE {})
            \cup spans \cup acts
            \cup (IF node.scope_id = 0 THEN {<<in, "EMPTY_NODE_SCOPE_ID">>} ELSE {})
            \cup (IF node.scope_id \notin {0, Null} \cup ScopeIds(r)
                  THEN {<<in, "DANGLING_NODE_SCOPE">>} ELSE {})
  BY <1>1, <1>3, <1>5, <1>6, <1>8 DEF NodeIssues, Issue
<1>10. all = {} <=> /\ own = {} /\ node.text # <<>> /\ node.source_spans # <<>> /\ spans = {} /\ acts = {}
                    /\ node.scope_id # 0 /\ node.scope_id \in {0, Null} \cup ScopeIds(r)
  BY <1>9
<1>11. Acyclic(own) => Acyclic(all)
  BY <1>4, <1>7, <1>9 DEF Acyclic
<1>12. 0 \notin ScopeIds(r) /\ Null # 0
  BY ContractAssumption DEF ScopeIds
<1>13. node.scope_id # 0 /\ node.scope_id \in {0, Null} \cup ScopeIds(r)
          <=> node.scope_id \in {Null} \cup ScopeIds(r)
  BY <1>12
<1> QED BY <1>1, <1>4, <1>5, <1>7, <1>8, <1>10, <1>11, <1>13 DEF SoundNode, Sourced

\* The issues of a relation.
LEMMA EdgesAreExact ==
    ASSUME NEW r, NEW i \in DOMAIN r.edges
    PROVE  /\ EdgeIssues(r, i) = {} <=>
                 /\ IdIssues(IdsOf(r.edges, "edge_id"), "edges", i, "edge_id") = {}
                 /\ SoundEdge(r.edges[i], r)
           /\ Acyclic(IdIssues(IdsOf(r.edges, "edge_id"), "edges", i, "edge_id"))
                 => Acyclic(EdgeIssues(r, i))
<1>1. PICK edge : edge = r.edges[i]
  OBVIOUS
<1>2. PICK spans : spans = SpanIssues(edge, r.query, "edges", i)
  OBVIOUS
<1>3. (spans = {} <=> SoundSpans(edge, r.query)) /\ Acyclic(spans)
  BY <1>2, SpansAreExact
<1>4. PICK own : own = IdIssues(IdsOf(r.edges, "edge_id"), "edges", i, "edge_id")
  OBVIOUS
<1>5. PICK all, from, to : /\ all = EdgeIssues(r, i)
                           /\ from = <<"edges", i, "source", 0>> /\ to = <<"edges", i, "target", 0>>
  OBVIOUS
<1>6. PICK source, target : source = edge["source"] /\ target = edge["target"]
  OBVIOUS
<1>7. all = own \cup (IF source \notin NodeIds(r) THEN {<<from, "DANGLING_EDGE_SOURCE">>} ELSE {})
            \cup (IF target \notin NodeIds(r) THEN {<<to, "DANGLING_EDGE_TARGET">>} ELSE {})
            \cup spans
  BY <1>1, <1>2, <1>4, <1>5, <1>6 DEF EdgeIssues, Issue
<1>8. all = {} <=> own = {} /\ source \in NodeIds(r) /\ target \in NodeIds(r) /\ spans = {}
  BY <1>7
<1>9. Acyclic(own) => Acyclic(all)
  BY <1>3, <1>7 DEF Acyclic
<1>10. SoundEdge(edge, r) <=> SoundSpans(edge, r.query) /\ source \in NodeIds(r) /\ target \in NodeIds(r)
  BY <1>6 DEF SoundEdge
<1> QED BY <1>1, <1>3, <1>4, <1>5, <1>8, <1>9, <1>10

\* The issues of an output that is missing.
LEMMA OutputsAreExact ==
    ASSUME NEW r, NEW i \in DOMAIN r.missing_outputs
    PROVE  /\ MissingIssues(r, i) = {} <=> SoundOutput(r.missing_outputs[i], r)
           /\ Acyclic(MissingIssues(r, i))
<1>1. PICK output : output = r.missing_outputs[i]
  OBVIOUS
<1>2. PICK spans : spans = SpanIssues(output, r.query, "missing_outputs", i)
  OBVIOUS
<1>3. (spans = {} <=> SoundSpans(output, r.query)) /\ Acyclic(spans)
  BY <1>2, SpansAreExact
<1>4. PICK all, type, reason : /\ all = MissingIssues(r, i)
                               /\ type = <<"missing_outputs", i, "output_type", 0>>
                               /\ reason = <<"missing_outputs", i, "reason", 0>>
  OBVIOUS
<1>5. all = (IF output.output_type = <<>> THEN {<<type, "MISSING_OUTPUT_KIND_REQUIRED">>} ELSE {})
            \cup (IF output.reason = <<>> THEN {<<reason, "MISSING_OUTPUT_REASON_REQUIRED">>} ELSE {})
            \cup spans
  BY <1>1, <1>2, <1>4 DEF MissingIssues, Issue
<1>6. all = {} <=> output.output_type # <<>> /\ output.reason # <<>> /\ spans = {}
  BY <1>5
<1>7. Acyclic(all)
  BY <1>3, <1>5 DEF Acyclic
<1> QED BY <1>1, <1>3, <1>4, <1>6, <1>7 DEF SoundOutput

\* The issues of a record but for the cycles: there is none when it is well formed but for them.
LEMMA LocalAreExact ==
    ASSUME NEW r, Typing(r)
    PROVE  /\ LocalIssues(r) = {} <=>
                 /\ r.schema_version = SupportedVersion /\ r.query # <<>>
                 /\ Distinct(IdsOf(r.nodes, "node_id")) /\ Distinct(IdsOf(r.edges, "edge_id"))
                 /\ Distinct(IdsOf(r.scopes, "scope_id"))
                 /\ \A i \in DOMAIN r.nodes : SoundNode(r.nodes[i], r)
                 /\ \A i \in DOMAIN r.edges : SoundEdge(r.edges[i], r)
                 /\ \A i \in DOMAIN r.scopes : /\ SoundScope(r.scopes[i], r)
                                               /\ r.scopes[i].parent_scope_id # r.scopes[i].scope_id
                 /\ \A i \in DOMAIN r.missing_outputs : SoundOutput(r.missing_outputs[i], r)
                 /\ (r.status = "COMPLETE") = (r.missing_outputs = <<>>)
           /\ Acyclic(LocalIssues(r))
<1>1. PICK nodes, edges, scopes : /\ nodes = IdsOf(r.nodes, "node_id")
                                  /\ edges = IdsOf(r.edges, "edge_id")
                                  /\ scopes = IdsOf(r.scopes, "scope_id")
  OBVIOUS
<1>2. ASSUME NEW objects \in {r.nodes, r.edges, r.scopes}, NEW field
      PROVE  Len(IdsOf(objects, field)) = Len(objects) /\ DOMAIN IdsOf(objects, field) = DOMAIN objects
  <2>1. Len(objects) \in Nat /\ DOMAIN objects = 1..Len(objects)
    BY DEF Typing
  <2> QED BY <2>1 DEF IdsOf
<1>3. /\ Len(nodes) \in Nat /\ DOMAIN nodes = 1..Len(nodes) /\ DOMAIN nodes = DOMAIN r.nodes
      /\ Len(edges) \in Nat /\ DOMAIN edges = 1..Len(edges) /\ DOMAIN edges = DOMAIN r.edges
      /\ Len(scopes) \in Nat /\ DOMAIN scopes = 1..Len(scopes) /\ DOMAIN scopes = DOMAIN r.scopes
  BY <1>1, <1>2 DEF Typing
<1>4. /\ (\A i \in DOMAIN nodes : IdIssues(nodes, "nodes", i, "node_id") = {}) <=> Distinct(nodes)
      /\ \A i \in DOMAIN nodes : Acyclic(IdIssues(nodes, "nodes", i, "node_id"))
  BY <1>3, IdsAreExact
<1>5. /\ (\A i \in DOMAIN edges : IdIssues(edges, "edges", i, "edge_id") = {}) <=> Distinct(edges)
      /\ \A i \in DOMAIN edges : Acyclic(IdIssues(edges, "edges", i, "edge_id"))
  BY <1>3, IdsAreExact
<1>6. /\ (\A i \in DOMAIN scopes : IdIssues(scopes, "scopes", i, "scope_id") = {}) <=> Distinct(scopes)
      /\ \A i \in DOMAIN scopes : Acyclic(IdIssues(scopes, "scopes", i, "scope_id"))
  BY <1>3, IdsAreExact
<1>7. ASSUME NEW i \in DOMAIN r.nodes
      PROVE  /\ NodeIssues(r, i) = {} <=>
                   IdIssues(nodes, "nodes", i, "node_id") = {} /\ SoundNode(r.nodes[i], r)
             /\ Acyclic(NodeIssues(r, i))
  BY <1>1, <1>3, <1>4, NodesAreExact
<1>8. ASSUME NEW i \in DOMAIN r.edges
      PROVE  /\ EdgeIssues(r, i) = {} <=>
                   IdIssues(edges, "edges", i, "edge_id") = {} /\ SoundEdge(r.edges[i], r)
             /\ Acyclic(EdgeIssues(r, i))
  BY <1>1, <1>3, <1>5, EdgesAreExact
<1>9. ASSUME NEW i \in DOMAIN r.scopes
      PROVE  /\ ScopeIssues(r, i) = {} <=>
                   /\ IdIssues(scopes, "scopes", i, "scope_id") = {} /\ SoundScope(r.scopes[i], r)
                   /\ r.scopes[i].parent_scope_id # r.scopes[i].scope_id
             /\ Acyclic(ScopeIssues(r, i))
  BY <1>1, <1>3, <1>6, ScopesAreExact
<1>10. PICK header, status, all : header = HeaderIssues(r) /\ status = StatusIssues(r) /\ all = LocalIssues(r)
  OBVIOUS
<1>11. /\ header = {} <=> r.schema_version = SupportedVersion /\ r.query # <<>>
       /\ Acyclic(header)
  <2>1. PICK version, query : version = <<"record", 0, "schema_version", 0>> /\ query = <<"record", 0, "query", 0>>
    OBVIOUS
  <2>2. header = (IF r.schema_version # SupportedVersion THEN {<<version, "UNSUPPORTED_SCHEMA_VERSION">>} ELSE {})
                 \cup (IF r.query = <<>> THEN {<<query, "EMPTY_QUERY">>} ELSE {})
    BY <1>10, <2>1 DEF HeaderIssues, Issue
  <2>3. header = {} <=> r.schema_version = SupportedVersion /\ r.query # <<>>
    BY <2>2
  <2>4. Acyclic(header)
    BY <2>2 DEF Acyclic
  <2> QED BY <2>3, <2>4
<1>12. /\ status = {} <=> ((r.status = "COMPLETE") <=> (r.missing_outputs = <<>>))
       /\ Acyclic(status)
  <2>1. PICK place : place = <<"record", 0, "missing_outputs", 0>>
    OBVIOUS
  <2>2. status = (IF r.status = "COMPLETE" /\ r.missing_outputs # <<>>
                  THEN {<<place, "MISSING_OUTPUT_STATUS_MISMATCH">>} ELSE {})
                 \cup (IF r.status # "COMPLETE" /\ r.missing_outputs = <<>>
                       THEN {<<place, "MISSING_OUTPUTS_REQUIRED">>} ELSE {})
    BY <1>10, <2>1 DEF StatusIssues, Issue
  <2>3. status = {} <=> ((r.status = "COMPLETE") <=> (r.missing_outputs = <<>>))
    BY <2>2
  <2>4. Acyclic(status)
    BY <2>2 DEF Acyclic
  <2> QED BY <2>3, <2>4
<1>13. \A issue : issue \in all <=>
           \/ issue \in header \/ issue \in status
           \/ \E i \in DOMAIN r.scopes : issue \in ScopeIssues(r, i)
           \/ \E i \in DOMAIN r.nodes : issue \in NodeIssues(r, i)
           \/ \E i \in DOMAIN r.edges : issue \in EdgeIssues(r, i)
           \/ \E i \in DOMAIN r.missing_outputs : issue \in MissingIssues(r, i)
  <2> DEFINE a == UNION {ScopeIssues(r, i) : i \in DOMAIN r.scopes}
             b == UNION {NodeIssues(r, i) : i \in DOMAIN r.nodes}
             c == UNION {EdgeIssues(r, i) : i \in DOMAIN r.edges}
             d == UNION {MissingIssues(r, i) : i \in DOMAIN r.missing_outputs}
  <2>1. LocalIssues(r) = HeaderIssues(r) \cup a \cup b \cup c \cup d \cup StatusIssues(r)
    BY Zenon DEF LocalIssues
  <2>2. \A issue : issue \in a <=> \E i \in DOMAIN r.scopes : issue \in ScopeIssues(r, i)
    OBVIOUS
  <2>3. \A issue : issue \in b <=> \E i \in DOMAIN r.nodes : issue \in NodeIssues(r, i)
    OBVIOUS
  <2>4. \A issue : issue \in c <=> \E i \in DOMAIN r.edges : issue \in EdgeIssues(r, i)
    OBVIOUS
  <2>5. \A issue : issue \in d <=> \E i \in DOMAIN r.missing_outputs : issue \in MissingIssues(r, i)
    OBVIOUS
  <2> HIDE DEF a, b, c, d
  <2>6. all = header \cup a \cup b \cup c \cup d \cup status
    BY <1>10, <2>1
  <2> QED BY <2>2, <2>3, <2>4, <2>5, <2>6
<1>14. all = {} <=> /\ header = {} /\ status = {}
                    /\ \A i \in DOMAIN r.scopes : ScopeIssues(r, i) = {}
                    /\ \A i \in DOMAIN r.nodes : NodeIssues(r, i) = {}
                    /\ \A i \in DOMAIN r.edges : EdgeIssues(r, i) = {}
                    /\ \A i \in DOMAIN r.missing_outputs : MissingIssues(r, i) = {}
  BY <1>13
<1>15. \A i \in DOMAIN r.missing_outputs : /\ MissingIssues(r, i) = {} <=> SoundOutput(r.missing_outputs[i], r)
                                           /\ Acyclic(MissingIssues(r, i))
  BY OutputsAreExact
<1>16. Acyclic(all)
  BY <1>7, <1>8, <1>9, <1>11, <1>12, <1>13, <1>15 DEF Acyclic
<1>17. (\A i \in DOMAIN r.nodes : NodeIssues(r, i) = {})
           <=> Distinct(nodes) /\ \A i \in DOMAIN r.nodes : SoundNode(r.nodes[i], r)
  BY <1>3, <1>4, <1>7
<1>18. (\A i \in DOMAIN r.edges : EdgeIssues(r, i) = {})
           <=> Distinct(edges) /\ \A i \in DOMAIN r.edges : SoundEdge(r.edges[i], r)
  BY <1>3, <1>5, <1>8
<1>19. (\A i \in DOMAIN r.scopes : ScopeIssues(r, i) = {})
           <=> /\ Distinct(scopes)
               /\ \A i \in DOMAIN r.scopes : /\ SoundScope(r.scopes[i], r)
                                             /\ r.scopes[i].parent_scope_id # r.scopes[i].scope_id
  BY <1>3, <1>6, <1>9
<1>20. (\A i \in DOMAIN r.missing_outputs : MissingIssues(r, i) = {})
           <=> \A i \in DOMAIN r.missing_outputs : SoundOutput(r.missing_outputs[i], r)
  BY <1>15
<1>21. ((r.status = "COMPLETE") <=> (r.missing_outputs = <<>>)) <=> (r.status = "COMPLETE") = (r.missing_outputs = <<>>)
  OBVIOUS
<1> QED BY <1>1, <1>10, <1>11, <1>12, <1>14, <1>16, <1>17, <1>18, <1>19, <1>20, <1>21

\* The graphs of a record are graphs of numbered ids.
LEMMA RecordGraphs ==
    ASSUME NEW r, Typing(r)
    PROVE  IsGraph(RelationGraph(r)) /\ IsGraph(ScopeGraph(r))
<1>1. NodeIds(r) \subseteq Nat
  BY DEF Typing, NodeIds, IdsOf, Range
<1>2. ScopeIds(r) \subseteq Nat
  BY DEF Typing, ScopeIds, IdsOf, Range
<1>3. ASSUME NEW links, NEW ids, ids \subseteq Nat PROVE IsGraph(Graph(links, ids))
  <2>1. PICK graph : graph = Graph(links, ids)
    OBVIOUS
  <2>2. DOMAIN graph = ids /\ \A id \in ids : graph[id] \subseteq ids
    BY <2>1 DEF Graph
  <2> QED BY <1>3, <2>1, <2>2 DEF IsGraph
<1>4. PICK links : links = [i \in DOMAIN r.scopes |->
                               [source |-> r.scopes[i].scope_id, target |-> r.scopes[i].parent_scope_id]]
  OBVIOUS
<1> QED BY <1>1, <1>2, <1>3 DEF RelationGraph, ScopeGraph

\* A scope that is its own parent is a cycle.
LEMMA NoSelfParent ==
    ASSUME NEW r, Typing(r), NEW i \in DOMAIN r.scopes, r.scopes[i].scope_id # 0,
           r.scopes[i].parent_scope_id = r.scopes[i].scope_id
    PROVE  Cyclic(ScopeGraph(r))
<1>1. PICK id : id = r.scopes[i].scope_id
  OBVIOUS
<1>2. id \in ScopeIds(r)
  BY <1>1 DEF ScopeIds, IdsOf, Range
<1>3. PICK links : links = [k \in DOMAIN r.scopes |->
                               [source |-> r.scopes[k].scope_id, target |-> r.scopes[k].parent_scope_id]]
  OBVIOUS
<1>4. DOMAIN links = DOMAIN r.scopes /\ links[i].source = id /\ links[i].target = id
  BY <1>1, <1>3
<1>5. PICK ids, graph : ids = ScopeIds(r) /\ graph = ScopeGraph(r)
  OBVIOUS
<1>6. graph = Graph(links, ids)
  BY <1>3, <1>5 DEF ScopeGraph
<1>7. DOMAIN graph = ids /\ graph[id] = {links[k].target : k \in {k \in DOMAIN links : links[k].source = id}} \cap ids
  BY <1>2, <1>5, <1>6 DEF Graph
<1>8. id \in graph[id]
  BY <1>2, <1>4, <1>5, <1>7
<1>9. {id} \in (SUBSET DOMAIN graph) \ {{}} /\ \A x \in {id} : graph[x] \cap {id} # {}
  BY <1>2, <1>5, <1>7, <1>8
<1> QED BY <1>5, <1>9 DEF Cyclic

\* A record has an issue or a cycle exactly when it is not well formed.
LEMMA IssuesAreExact ==
    ASSUME NEW r, Typing(r)
    PROVE  /\ WellFormed(r) <=> /\ LocalIssues(r) = {}
                                /\ ~Cyclic(RelationGraph(r)) /\ ~Cyclic(ScopeGraph(r))
           /\ Acyclic(LocalIssues(r))
<1>1. PICK scopes : scopes = IdsOf(r.scopes, "scope_id")
  OBVIOUS
<1>2. ASSUME Distinct(scopes), ~Cyclic(ScopeGraph(r)), NEW i \in DOMAIN r.scopes
      PROVE  r.scopes[i].parent_scope_id # r.scopes[i].scope_id
  <2>1. r.scopes[i].scope_id # 0
    <3>1. DOMAIN scopes = DOMAIN r.scopes /\ scopes[i] = r.scopes[i].scope_id
      BY <1>1 DEF IdsOf
    <3> QED BY <1>2, <3>1 DEF Distinct, Range
  <2> QED BY <1>2, <2>1, NoSelfParent
<1>3. LocalIssues(r) = {} <=>
                 /\ r.schema_version = SupportedVersion /\ r.query # <<>>
                 /\ Distinct(IdsOf(r.nodes, "node_id")) /\ Distinct(IdsOf(r.edges, "edge_id"))
                 /\ Distinct(IdsOf(r.scopes, "scope_id"))
                 /\ \A i \in DOMAIN r.nodes : SoundNode(r.nodes[i], r)
                 /\ \A i \in DOMAIN r.edges : SoundEdge(r.edges[i], r)
                 /\ \A i \in DOMAIN r.scopes : /\ SoundScope(r.scopes[i], r)
                                               /\ r.scopes[i].parent_scope_id # r.scopes[i].scope_id
                 /\ \A i \in DOMAIN r.missing_outputs : SoundOutput(r.missing_outputs[i], r)
                 /\ (r.status = "COMPLETE") = (r.missing_outputs = <<>>)
  BY LocalAreExact
<1>4. Acyclic(LocalIssues(r))
  BY LocalAreExact
<1> QED BY <1>1, <1>2, <1>3, <1>4 DEF WellFormed

-----------------------------------------------------------------------------
(* The contract: a file that is read                                        *)

\* A readable line is a record.
LEMMA LinesTyped ==
    ASSUME NEW lines \in RecordFiles
    PROVE  /\ Len(lines) \in Nat /\ DOMAIN lines = 1..Len(lines)
           /\ \A l \in DOMAIN lines : Readable(lines[l]) => Typing(lines[l])
<1>1. ASSUME NEW l \in DOMAIN lines, Readable(lines[l]) PROVE Typing(lines[l])
  <2>1. PICK r : r = lines[l]
    OBVIOUS
  <2>2. r \in {line \in Range(lines) : Readable(line)}
    BY <1>1, <2>1 DEF Range
  <2>3. Typing(r)
    BY <2>2, ContractAssumption DEF Typing
  <2> QED BY <2>1, <2>3
<1> QED BY <1>1, ContractAssumption

\* What the records of a file grow by with the next line.
LEMMA OneLineMore ==
    ASSUME NEW lines \in RecordFiles, NEW n \in Nat, n < Len(lines)
    PROVE  /\ Cardinality(RecordsTo(lines, n)) \in Nat /\ Cardinality(SoundTo(lines, n)) \in Nat
           /\ lines[n + 1] = Blank =>
                 RecordsTo(lines, n + 1) = RecordsTo(lines, n) /\ SoundTo(lines, n + 1) = SoundTo(lines, n)
           /\ lines[n + 1] # Blank =>
                 /\ RecordsTo(lines, n + 1) = RecordsTo(lines, n) \cup {n + 1}
                 /\ Cardinality(RecordsTo(lines, n + 1)) = Cardinality(RecordsTo(lines, n)) + 1
                 /\ Cardinality(SoundTo(lines, n + 1))
                       = Cardinality(SoundTo(lines, n)) + (IF SoundLine(lines[n + 1]) THEN 1 ELSE 0)
<1>1. Len(lines) \in Nat /\ DOMAIN lines = 1..Len(lines)
  BY LinesTyped
<1>2. 1..(n + 1) = (1..n) \cup {n + 1} /\ n + 1 \notin 1..n
  OBVIOUS
<1>3. PICK records, sound : records = RecordsTo(lines, n) /\ sound = SoundTo(lines, n)
  OBVIOUS
<1>4. /\ records = {l \in 1..n : lines[l] # Blank} /\ sound = {l \in records : SoundLine(lines[l])}
  BY <1>3 DEF RecordsTo, SoundTo
<1>5. IsFiniteSet(1..n) /\ records \subseteq 1..n /\ sound \subseteq 1..n
  <2>1. 1 \in Int /\ n \in Int
    OBVIOUS
  <2>2. IsFiniteSet(1..n)
    BY <2>1, FS_Interval
  <2> QED BY <1>4, <2>2
<1>6. IsFiniteSet(records) /\ IsFiniteSet(sound)
  <2>1. PICK line : line = 1..n
    OBVIOUS
  <2>2. IsFiniteSet(line) /\ records \in SUBSET line /\ sound \in SUBSET line
    BY <1>5, <2>1
  <2> QED BY <2>2, FS_Subset
<1>7. Cardinality(records) \in Nat /\ Cardinality(sound) \in Nat
  BY <1>6, FS_CardinalityType
<1>8. PICK more, better : more = RecordsTo(lines, n + 1) /\ better = SoundTo(lines, n + 1)
  OBVIOUS
<1>9. /\ more = {l \in 1..(n + 1) : lines[l] # Blank} /\ better = {l \in more : SoundLine(lines[l])}
  BY <1>8 DEF RecordsTo, SoundTo
<1>10. CASE lines[n + 1] = Blank
  <2>1. more = records
    BY <1>2, <1>4, <1>9, <1>10
  <2>2. better = sound
    BY <1>4, <1>9, <2>1
  <2> QED BY <1>3, <1>7, <1>8, <1>10, <2>1, <2>2
<1>11. CASE lines[n + 1] # Blank
  <2>1. more = records \cup {n + 1} /\ n + 1 \notin records /\ n + 1 \notin sound
    BY <1>2, <1>4, <1>5, <1>9, <1>11
  <2>2. Cardinality(more) = Cardinality(records) + 1
    BY <1>6, <2>1, FS_AddElement
  <2>3. CASE SoundLine(lines[n + 1])
    <3>1. better = sound \cup {n + 1}
      BY <1>4, <1>9, <2>1, <2>3
    <3>2. Cardinality(better) = Cardinality(sound) + 1
      BY <1>6, <2>1, <3>1, FS_AddElement
    <3> QED BY <1>3, <1>7, <1>8, <1>11, <2>1, <2>2, <2>3, <3>2
  <2>4. CASE ~SoundLine(lines[n + 1])
    <3>1. better = sound
      BY <1>4, <1>9, <2>1, <2>4
    <3> QED BY <1>3, <1>7, <1>8, <1>11, <2>1, <2>2, <2>4, <3>1
  <2> QED BY <2>3, <2>4
<1> QED BY <1>10, <1>11

\* The errors tell as much of one record more when the ones added tell it of that record.
LEMMA ErrorsGrow ==
    ASSUME NEW lines \in RecordFiles, NEW n \in Nat, n < Len(lines), lines[n + 1] # Blank,
           NEW errors, ErrorsSound(errors, lines, n),
           NEW added, \A e \in added : e[1] = n + 1,
           SoundLine(lines[n + 1]) <=> added = {},
           Readable(lines[n + 1]) =>
              /\ (\E e \in added : e[3] = "RELATION_CYCLE") <=> Cyclic(RelationGraph(lines[n + 1]))
              /\ (\E e \in added : e[3] = "SCOPE_CYCLE") <=> Cyclic(ScopeGraph(lines[n + 1]))
    PROVE  ErrorsSound(errors \cup added, lines, n + 1)
<1>1. PICK records : records = RecordsTo(lines, n)
  OBVIOUS
<1>2. RecordsTo(lines, n + 1) = records \cup {n + 1}
  BY <1>1, OneLineMore
<1>3. n + 1 \notin records
  BY <1>1 DEF RecordsTo
<1>4. PICK all : all = errors \cup added
  OBVIOUS
<1>5. /\ \A e \in errors : e[1] \in records
      /\ \A l \in records :
          /\ SoundLine(lines[l]) <=> ~\E e \in errors : e[1] = l
          /\ Readable(lines[l]) =>
                /\ (\E e \in errors : e[1] = l /\ e[3] = "RELATION_CYCLE") <=> Cyclic(RelationGraph(lines[l]))
                /\ (\E e \in errors : e[1] = l /\ e[3] = "SCOPE_CYCLE") <=> Cyclic(ScopeGraph(lines[l]))
  BY <1>1 DEF ErrorsSound
<1>6. \A e \in all : e[1] \in records \cup {n + 1}
  BY <1>4, <1>5
<1>7. ASSUME NEW l \in records
      PROVE  /\ SoundLine(lines[l]) <=> ~\E e \in all : e[1] = l
             /\ Readable(lines[l]) =>
                /\ (\E e \in all : e[1] = l /\ e[3] = "RELATION_CYCLE") <=> Cyclic(RelationGraph(lines[l]))
                /\ (\E e \in all : e[1] = l /\ e[3] = "SCOPE_CYCLE") <=> Cyclic(ScopeGraph(lines[l]))
  <2>1. \A e \in all : e[1] = l <=> e \in errors /\ e[1] = l
    BY <1>3, <1>4
  <2>2. \A e \in errors : e \in all
    BY <1>4
  <2> QED BY <1>5, <2>1, <2>2
<1>8. /\ SoundLine(lines[n + 1]) <=> ~\E e \in all : e[1] = n + 1
      /\ Readable(lines[n + 1]) =>
            /\ (\E e \in all : e[1] = n + 1 /\ e[3] = "RELATION_CYCLE") <=> Cyclic(RelationGraph(lines[n + 1]))
            /\ (\E e \in all : e[1] = n + 1 /\ e[3] = "SCOPE_CYCLE") <=> Cyclic(ScopeGraph(lines[n + 1]))
  <2>1. \A e \in all : e[1] = n + 1 <=> e \in added
    BY <1>3, <1>4, <1>5
  <2>2. \A e \in added : e \in all
    BY <1>4
  <2> QED BY <2>1, <2>2
<1> QED BY <1>2, <1>4, <1>6, <1>7, <1>8 DEF ErrorsSound

\* A file is opened, or cannot be read.
LEMMA FileOpened ==
    ASSUME FileInv(checked, search), checked.phase = "idle",
           \/ \E lines \in RecordFiles : CheckFile(lines)
           \/ ReadFails
    PROVE  FileInv(checked', search')
<1>1. PICK k, s : k = checked' /\ s = search'
  OBVIOUS
<1>2. s = NoSearch
  BY <1>1 DEF FileInv, RecordSearched, CheckFile, ReadFails
<1>3. CASE \E lines \in RecordFiles : CheckFile(lines)
  <2>1. PICK lines \in RecordFiles : CheckFile(lines)
    BY <1>3
  <2>2. k = [phase |-> "reading", lines |-> lines, at |-> 0, count |-> 0, valid |-> 0,
             invalid |-> 0, partial |-> 0, errors |-> {}, issues |-> {}, cycles |-> {}]
    BY <1>1, <2>1 DEF CheckFile, NothingChecked
  <2>3. Len(lines) \in Nat
    BY LinesTyped
  <2>4. RecordsTo(lines, 0) = {} /\ SoundTo(lines, 0) = {}
    BY DEF RecordsTo, SoundTo
  <2>5. Cardinality({}) = 0
    BY FS_EmptySet
  <2>6. Tallied(k, 0)
    BY <2>2, <2>4, <2>5 DEF Tallied
  <2>7. ErrorsSound(k.errors, lines, 0)
    BY <2>2, <2>4 DEF ErrorsSound
  <2>8. k.phase = "reading" /\ k.lines = lines /\ k.at = 0 /\ CheckFields(k)
    BY <2>2 DEF CheckFields
  <2> QED BY <1>1, <1>2, <2>3, <2>6, <2>7, <2>8 DEF FileInv
<1>4. CASE ReadFails
  <2>1. k = [phase |-> "failed", lines |-> <<>>, at |-> 0, count |-> 0, valid |-> 0,
             invalid |-> 0, partial |-> 0, errors |-> {<<0, <<"input", 0, "", 0>>, "INPUT_READ_ERROR">>},
             issues |-> {}, cycles |-> {}]
    BY <1>1, <1>4 DEF ReadFails, NothingChecked
  <2>2. k.phase = "failed" /\ k.lines = <<>> /\ CheckFields(k)
    BY <2>1 DEF CheckFields
  <2> QED BY <1>1, <1>2, <2>2 DEF FileInv
<1> QED BY <1>3, <1>4

\* What the next line may be.
LEMMA LineRead ==
    ASSUME FileInv(checked, search), SkipBlank \/ RejectLine
    PROVE  FileInv(checked', search')
<1>1. PICK old, k, n, lines : old = checked /\ k = checked' /\ n = checked.at /\ lines = checked.lines
  OBVIOUS
<1>2. old.phase = "reading" /\ search = NoSearch /\ search' = NoSearch /\ n < Len(lines)
  BY <1>1 DEF SkipBlank, RejectLine, Reading
<1>3. /\ lines \in RecordFiles /\ n \in 0..Len(lines) /\ Tallied(old, 0)
      /\ ErrorsSound(old.errors, lines, n) /\ CheckFields(old)
  BY <1>1, <1>2 DEF FileInv
<1>4. Len(lines) \in Nat /\ n \in Nat /\ n + 1 \in 0..Len(lines)
  BY <1>2, <1>3, LinesTyped
<1>5. CASE SkipBlank
  <2>1. lines[n + 1] = Blank
    BY <1>1, <1>5 DEF SkipBlank, NextLine
  <2>2. k = [phase |-> old.phase, lines |-> old.lines, at |-> old.at + 1, count |-> old.count, valid |-> old.valid,
             invalid |-> old.invalid, partial |-> old.partial, errors |-> old.errors, issues |-> old.issues,
             cycles |-> old.cycles]
    BY <1>1, <1>3, <1>5 DEF SkipBlank, CheckFields
  <2>3. /\ k.phase = "reading" /\ k.lines = lines /\ k.at = n + 1 /\ k.errors = old.errors /\ CheckFields(k)
        /\ k.count = old.count /\ k.valid = old.valid /\ k.invalid = old.invalid /\ k.cycles = old.cycles
    BY <1>1, <1>2, <2>2 DEF CheckFields
  <2>4. RecordsTo(lines, n + 1) = RecordsTo(lines, n) /\ SoundTo(lines, n + 1) = SoundTo(lines, n)
    BY <1>2, <1>3, <1>4, <2>1, OneLineMore
  <2>5. Tallied(k, 0)
    BY <1>1, <1>3, <2>3, <2>4 DEF Tallied
  <2>6. ErrorsSound(k.errors, lines, n + 1)
    BY <1>3, <2>3, <2>4 DEF ErrorsSound
  <2> QED BY <1>1, <1>2, <1>3, <1>4, <2>3, <2>5, <2>6 DEF FileInv
<1>6. CASE RejectLine
  <2>1. PICK line : line = lines[n + 1]
    OBVIOUS
  <2>2. line # Blank /\ ~Readable(line)
    BY <1>1, <1>6, <2>1 DEF RejectLine, NextLine
  <2>3. PICK code, place : /\ code = (IF NextLine = Unparsable THEN "INVALID_JSON" ELSE "CONTRACT_DECODE_ERROR")
                           /\ place = <<"line", 0, "", 0>>
    OBVIOUS
  <2>4. PICK added : added = Reported({<<place, code>>})
    OBVIOUS
  <2>5. added = {<<n + 1, place, code>>}
    BY <1>1, <2>4 DEF Reported
  <2>6. k = [phase |-> old.phase, lines |-> old.lines, at |-> old.at + 1, count |-> old.count + 1, valid |-> old.valid,
             invalid |-> old.invalid + 1, partial |-> old.partial, errors |-> old.errors \cup added,
             issues |-> old.issues, cycles |-> old.cycles]
    BY <1>1, <1>3, <1>6, <2>3, <2>4 DEF RejectLine, CheckFields
  <2>7. /\ k.phase = "reading" /\ k.lines = lines /\ k.at = n + 1 /\ k.errors = old.errors \cup added
        /\ CheckFields(k) /\ k.count = old.count + 1 /\ k.valid = old.valid /\ k.invalid = old.invalid + 1
        /\ k.cycles = old.cycles
    BY <1>1, <1>2, <2>6 DEF CheckFields
  <2>8. ~SoundLine(line)
    BY <2>2 DEF SoundLine
  <2>9. /\ Cardinality(RecordsTo(lines, n)) \in Nat /\ Cardinality(SoundTo(lines, n)) \in Nat
        /\ Cardinality(RecordsTo(lines, n + 1)) = Cardinality(RecordsTo(lines, n)) + 1
        /\ Cardinality(SoundTo(lines, n + 1)) = Cardinality(SoundTo(lines, n)) + (IF SoundLine(line) THEN 1 ELSE 0)
    BY <1>2, <1>3, <1>4, <2>1, <2>2, OneLineMore
  <2>10. Tallied(k, 0)
    BY <1>1, <1>3, <2>7, <2>8, <2>9 DEF Tallied
  <2>11. ErrorsSound(old.errors \cup added, lines, n + 1)
    <3>1. (\A e \in added : e[1] = n + 1) /\ added # {}
      BY <2>5
    <3> QED BY <1>2, <1>3, <1>4, <2>1, <2>2, <2>8, <3>1, ErrorsGrow
  <2> QED BY <1>1, <1>2, <1>3, <1>4, <2>7, <2>10, <2>11 DEF FileInv
<1> QED BY <1>5, <1>6

\* A record is searched.
LEMMA RecordOpened ==
    ASSUME FileInv(checked, search), ValidateLine
    PROVE  FileInv(checked', search')
<1>1. PICK old, k, t, n, lines : /\ old = checked /\ k = checked' /\ t = search'
                                 /\ n = checked.at /\ lines = checked.lines
  OBVIOUS
<1>2. old.phase = "reading" /\ search = NoSearch /\ n < Len(lines) /\ Readable(lines[n + 1])
  BY <1>1 DEF ValidateLine, Reading, NextLine
<1>3. /\ lines \in RecordFiles /\ n \in 0..Len(lines) /\ Tallied(old, 0)
      /\ ErrorsSound(old.errors, lines, n) /\ CheckFields(old)
  BY <1>1, <1>2 DEF FileInv
<1>4. PICK r : r = lines[n + 1]
  OBVIOUS
<1>5. Len(lines) \in Nat /\ n \in Nat /\ n + 1 \in DOMAIN lines
  BY <1>2, <1>3, LinesTyped
<1>6. Typing(r)
  BY <1>2, <1>3, <1>4, <1>5, LinesTyped
<1>7. IsGraph(RelationGraph(r))
  BY <1>6, RecordGraphs
<1>8. t = SearchOf("edges", RelationGraph(r))
  BY <1>1, <1>4 DEF ValidateLine, NextLine
<1>9. SearchInv(t)
  BY <1>7, <1>8, SearchStarts
<1>10. t.of = "edges" /\ t.graph = RelationGraph(r)
  BY <1>8 DEF SearchOf, NoSearch
<1>11. PICK partial : partial = old.partial + (IF NextLine.missing_outputs = <<>> THEN 0 ELSE 1)
  OBVIOUS
<1>12. k = [phase |-> old.phase, lines |-> old.lines, at |-> old.at, count |-> old.count + 1, valid |-> old.valid,
            invalid |-> old.invalid, partial |-> partial, errors |-> old.errors, issues |-> LocalIssues(r),
            cycles |-> old.cycles]
  <2>1. NextLine = r
    BY <1>1, <1>4 DEF NextLine
  <2> QED BY <1>1, <1>3, <1>11, <2>1 DEF ValidateLine, CheckFields
<1>13. /\ k.phase = "reading" /\ k.lines = lines /\ k.at = n /\ k.errors = old.errors /\ CheckFields(k)
       /\ k.count = old.count + 1 /\ k.valid = old.valid /\ k.invalid = old.invalid /\ k.cycles = old.cycles
       /\ k.issues = LocalIssues(r)
  BY <1>1, <1>2, <1>12 DEF CheckFields
<1>14. RecordSearched(k, t)
  BY <1>2, <1>4, <1>9, <1>10, <1>13 DEF RecordSearched
<1>15. t # NoSearch
  BY <1>10, ContractAssumption DEF NoSearch
<1>16. Cardinality(RecordsTo(lines, n)) \in Nat
  BY <1>2, <1>3, <1>5, OneLineMore
<1>17. Tallied(k, 1)
  BY <1>1, <1>3, <1>13, <1>16 DEF Tallied
<1>18. ErrorsSound(k.errors, lines, n)
  BY <1>3, <1>13
<1> QED BY <1>1, <1>3, <1>13, <1>14, <1>15, <1>17, <1>18 DEF FileInv

\* The search goes on.
LEMMA SearchGoesOn ==
    ASSUME FileInv(checked, search), UNCHANGED checked, Underway,
           SearchInv(search) => SearchInv(search') /\ search'.of = search.of /\ search'.graph = search.graph
    PROVE  FileInv(checked', search')
<1>1. PICK k, s, t : k = checked /\ s = search /\ t = search'
  OBVIOUS
<1>2. s.of # Null /\ s # NoSearch
  BY <1>1 DEF Underway, NoSearch
<1>3. RecordSearched(k, s)
  BY <1>1, <1>2 DEF FileInv
<1>4. SearchInv(s)
  BY <1>3 DEF RecordSearched
<1>5. SearchInv(t) /\ t.of = s.of /\ t.graph = s.graph
  BY <1>1, <1>4
<1>6. RecordSearched(k, t)
  BY <1>3, <1>5 DEF RecordSearched
<1>7. t # NoSearch
  BY <1>2, <1>5 DEF NoSearch
<1>8. FileInv(k, s) /\ k.phase = "reading"
  BY <1>1, <1>3 DEF RecordSearched
<1>9. FileInv(k, t)
  BY <1>2, <1>6, <1>7, <1>8 DEF FileInv
<1> QED BY <1>1, <1>9

\* A step of the search keeps the invariant of the file.
LEMMA SearchSteps ==
    ASSUME FileInv(checked, search), OpenRoot \/ (\E target \in DOMAIN search.graph : Follow(target)) \/ Backtrack
    PROVE  FileInv(checked', search')
<1>1. UNCHANGED checked /\ Underway
  BY DEF OpenRoot, Follow, IsNext, Backtrack
<1>2. SearchInv(search) => SearchInv(search') /\ search'.of = search.of /\ search'.graph = search.graph
  BY RootSound, FollowSound, BacktrackSound
<1> QED BY <1>1, <1>2, SearchGoesOn

\* The cycle of the relations is noted, and the scopes are searched.
LEMMA RelationsSearched ==
    ASSUME FileInv(checked, search), EndSearch, search.of = "edges"
    PROVE  FileInv(checked', search')
<1>1. PICK old, k, s, t, n, lines : /\ old = checked /\ k = checked' /\ s = search /\ t = search'
                                    /\ n = checked.at /\ lines = checked.lines
  OBVIOUS
<1>2. s # NoSearch
  BY <1>1, ContractAssumption DEF NoSearch
<1>3. RecordSearched(old, s)
  BY <1>1, <1>2 DEF FileInv
<1>4. PICK r : r = lines[n + 1]
  OBVIOUS
<1>5. /\ old.phase = "reading" /\ n < Len(lines) /\ Readable(r) /\ SearchInv(s)
      /\ s.graph = RelationGraph(r) /\ old.issues = LocalIssues(r)
  BY <1>1, <1>3, <1>4 DEF RecordSearched
<1>6. /\ lines \in RecordFiles /\ n \in 0..Len(lines) /\ Tallied(old, 1)
      /\ ErrorsSound(old.errors, lines, n) /\ CheckFields(old)
  BY <1>1, <1>2, <1>5 DEF FileInv
<1>7. Len(lines) \in Nat /\ n \in Nat /\ n + 1 \in DOMAIN lines
  BY <1>5, <1>6, LinesTyped
<1>8. Typing(r)
  BY <1>4, <1>5, <1>6, <1>7, LinesTyped
<1>9. SearchEnds
  BY DEF EndSearch
<1>10. /\ s.cycle # <<>> <=> Cyclic(s.graph)
       /\ s.cycle # <<>> => OnCycle(s.graph, s.cycle)
  BY <1>1, <1>5, <1>9, SearchIsExact
<1>11. PICK issues, cycles :
          /\ issues = old.issues \cup Issue(s.cycle # <<>>, <<"record", 0, "edges", 0>>, "RELATION_CYCLE")
          /\ cycles = IF s.cycle = <<>> THEN old.cycles
                      ELSE old.cycles \cup {[line |-> n + 1, graph |-> s.graph, path |-> s.cycle]}
  OBVIOUS
<1>12. /\ checked' = [checked EXCEPT !.issues = issues, !.cycles = cycles]
       /\ t = SearchOf("scopes", ScopeGraph(NextLine))
  BY <1>1, <1>11 DEF EndSearch
<1>13. k = [phase |-> old.phase, lines |-> old.lines, at |-> old.at, count |-> old.count, valid |-> old.valid,
            invalid |-> old.invalid, partial |-> old.partial, errors |-> old.errors, issues |-> issues,
            cycles |-> cycles]
  BY <1>1, <1>6, <1>12 DEF CheckFields
<1>14. /\ k.phase = "reading" /\ k.lines = lines /\ k.at = n /\ k.errors = old.errors /\ CheckFields(k)
       /\ k.count = old.count /\ k.valid = old.valid /\ k.invalid = old.invalid /\ k.cycles = cycles
       /\ k.issues = issues
  BY <1>1, <1>5, <1>13 DEF CheckFields
<1>15. issues = LocalIssues(r) \cup Issue(Cyclic(RelationGraph(r)), <<"record", 0, "edges", 0>>, "RELATION_CYCLE")
  BY <1>5, <1>10, <1>11 DEF Issue
<1>16. t = SearchOf("scopes", ScopeGraph(r))
  BY <1>1, <1>4, <1>12 DEF NextLine
<1>17. IsGraph(ScopeGraph(r))
  BY <1>8, RecordGraphs
<1>18. SearchInv(t)
  BY <1>16, <1>17, SearchStarts
<1>19. t.of = "scopes" /\ t.graph = ScopeGraph(r)
  BY <1>16 DEF SearchOf, NoSearch
<1>20. RecordSearched(k, t)
  BY <1>4, <1>5, <1>14, <1>15, <1>18, <1>19 DEF RecordSearched
<1>21. t # NoSearch
  BY <1>19, ContractAssumption DEF NoSearch
<1>22. \A c \in cycles : OnCycle(c.graph, c.path)
  <2>1. \A c \in old.cycles : OnCycle(c.graph, c.path)
    BY <1>6 DEF Tallied
  <2> QED BY <1>10, <1>11, <2>1
<1>23. Tallied(k, 1)
  BY <1>1, <1>6, <1>14, <1>22 DEF Tallied
<1> QED BY <1>1, <1>6, <1>14, <1>20, <1>21, <1>23 DEF FileInv

\* The record is counted and its issues are reported.
LEMMA ScopesSearched ==
    ASSUME FileInv(checked, search), EndSearch, search.of # "edges"
    PROVE  FileInv(checked', search')
<1>1. PICK old, k, s, n, lines : /\ old = checked /\ k = checked' /\ s = search
                                 /\ n = checked.at /\ lines = checked.lines
  OBVIOUS
<1>2. s.of # Null /\ s # NoSearch
  BY <1>1 DEF EndSearch, SearchEnds, NoSearch
<1>3. RecordSearched(old, s)
  BY <1>1, <1>2 DEF FileInv
<1>4. PICK r : r = lines[n + 1]
  OBVIOUS
<1>5. PICK former : former = LocalIssues(r) \cup Issue(Cyclic(RelationGraph(r)), <<"record", 0, "edges", 0>>, "RELATION_CYCLE")
  OBVIOUS
<1>6. /\ old.phase = "reading" /\ n < Len(lines) /\ Readable(r) /\ SearchInv(s)
      /\ s.of = "scopes" /\ s.graph = ScopeGraph(r) /\ old.issues = former
  BY <1>1, <1>3, <1>4, <1>5 DEF RecordSearched
<1>7. /\ lines \in RecordFiles /\ n \in 0..Len(lines) /\ Tallied(old, 1)
      /\ ErrorsSound(old.errors, lines, n) /\ CheckFields(old)
  BY <1>1, <1>2, <1>6 DEF FileInv
<1>8. Len(lines) \in Nat /\ n \in Nat /\ n + 1 \in DOMAIN lines /\ n + 1 \in 0..Len(lines)
  BY <1>6, <1>7, LinesTyped
<1>9. Typing(r)
  BY <1>4, <1>6, <1>7, <1>8, LinesTyped
<1>10. SearchEnds
  BY DEF EndSearch
<1>11. /\ s.cycle # <<>> <=> Cyclic(s.graph)
       /\ s.cycle # <<>> => OnCycle(s.graph, s.cycle)
  BY <1>1, <1>6, <1>10, SearchIsExact
<1>12. PICK issues, cycles :
          /\ issues = old.issues \cup Issue(s.cycle # <<>>, <<"record", 0, s.of, 0>>, "SCOPE_CYCLE")
          /\ cycles = IF s.cycle = <<>> THEN old.cycles
                      ELSE old.cycles \cup {[line |-> n + 1, graph |-> s.graph, path |-> s.cycle]}
  OBVIOUS
<1>13. PICK added, good : added = Reported(issues) /\ good = (IF issues = {} THEN 1 ELSE 0)
  OBVIOUS
<1>14. PICK bad : bad = (IF issues = {} THEN 0 ELSE 1)
  OBVIOUS
<1>15. /\ checked' = [checked EXCEPT !.at = @ + 1, !.issues = {}, !.cycles = cycles,
                          !.errors = @ \cup added, !.valid = @ + good, !.invalid = @ + bad]
       /\ search' = NoSearch
  BY <1>1, <1>12, <1>13, <1>14 DEF EndSearch
<1>16. k = [phase |-> old.phase, lines |-> old.lines, at |-> old.at + 1, count |-> old.count,
            valid |-> old.valid + good, invalid |-> old.invalid + bad, partial |-> old.partial,
            errors |-> old.errors \cup added, issues |-> {}, cycles |-> cycles]
  BY <1>1, <1>7, <1>15 DEF CheckFields
<1>17. /\ k.phase = "reading" /\ k.lines = lines /\ k.at = n + 1 /\ k.errors = old.errors \cup added /\ CheckFields(k)
       /\ k.count = old.count /\ k.valid = old.valid + good /\ k.invalid = old.invalid + bad /\ k.cycles = cycles
  BY <1>1, <1>6, <1>16 DEF CheckFields
<1>18. PICK relations, scopes : /\ relations = Cyclic(RelationGraph(r)) /\ scopes = Cyclic(ScopeGraph(r))
                                /\ relations \in BOOLEAN /\ scopes \in BOOLEAN
  BY DEF Cyclic
<1>19. PICK first, second : first = <<"record", 0, "edges", 0>> /\ second = <<"record", 0, "scopes", 0>>
  OBVIOUS
<1>20. PICK plain : plain = LocalIssues(r)
  OBVIOUS
<1>21. issues = plain \cup (IF relations THEN {<<first, "RELATION_CYCLE">>} ELSE {})
                      \cup (IF scopes THEN {<<second, "SCOPE_CYCLE">>} ELSE {})
  BY <1>5, <1>6, <1>11, <1>12, <1>18, <1>19, <1>20 DEF Issue
<1>22. (WellFormed(r) <=> plain = {} /\ ~relations /\ ~scopes) /\ Acyclic(plain)
  BY <1>9, <1>18, <1>20, IssuesAreExact
<1>23. WellFormed(r) <=> issues = {}
  BY <1>21, <1>22
<1>24. SoundLine(r) <=> issues = {}
  BY <1>6, <1>23 DEF SoundLine
<1>25. /\ (\E issue \in issues : issue[2] = "RELATION_CYCLE") <=> relations
       /\ (\E issue \in issues : issue[2] = "SCOPE_CYCLE") <=> scopes
  <2>1. \A issue \in plain : issue[2] # "RELATION_CYCLE" /\ issue[2] # "SCOPE_CYCLE"
    BY <1>22 DEF Acyclic
  <2>2. PICK a, b : a = <<first, "RELATION_CYCLE">> /\ b = <<second, "SCOPE_CYCLE">>
    OBVIOUS
  <2>3. a[2] = "RELATION_CYCLE" /\ b[2] = "SCOPE_CYCLE" /\ a[2] # "SCOPE_CYCLE" /\ b[2] # "RELATION_CYCLE"
    BY <2>2
  <2>4. \A issue : issue \in issues <=> issue \in plain \/ (relations /\ issue = a) \/ (scopes /\ issue = b)
    BY <1>21, <2>2
  <2> QED BY <2>1, <2>3, <2>4
<1>26. added = {<<n + 1, issue[1], issue[2]>> : issue \in issues}
  BY <1>1, <1>13 DEF Reported
<1>27. /\ \A e \in added : e[1] = n + 1
       /\ added = {} <=> issues = {}
       /\ (\E e \in added : e[3] = "RELATION_CYCLE") <=> \E issue \in issues : issue[2] = "RELATION_CYCLE"
       /\ (\E e \in added : e[3] = "SCOPE_CYCLE") <=> \E issue \in issues : issue[2] = "SCOPE_CYCLE"
  <2> DEFINE Error(issue) == <<n + 1, issue[1], issue[2]>>
  <2>1. \A issue : Error(issue)[1] = n + 1 /\ Error(issue)[3] = issue[2]
    OBVIOUS
  <2>2. added = {Error(issue) : issue \in issues}
    BY <1>26
  <2> HIDE DEF Error
  <2>3. \A e : e \in added <=> \E issue \in issues : e = Error(issue)
    BY <2>2
  <2>4. \A issue \in issues : \E e \in added : e = Error(issue)
    BY <2>3
  <2>5. \A e \in added : e[1] = n + 1
    BY <2>1, <2>3
  <2>6. added = {} <=> issues = {}
    BY <2>3, <2>4
  <2>7. ASSUME NEW code
        PROVE  (\E e \in added : e[3] = code) <=> \E issue \in issues : issue[2] = code
    BY <2>1, <2>3, <2>4
  <2> QED BY <2>5, <2>6, <2>7
<1>28. lines[n + 1] # Blank
  BY <1>4, <1>6 DEF Readable
<1>29. ErrorsSound(old.errors \cup added, lines, n + 1)
  BY <1>4, <1>6, <1>7, <1>8, <1>18, <1>24, <1>25, <1>27, <1>28, ErrorsGrow
<1>30. \A c \in cycles : OnCycle(c.graph, c.path)
  <2>1. \A c \in old.cycles : OnCycle(c.graph, c.path)
    BY <1>7 DEF Tallied
  <2> QED BY <1>11, <1>12, <2>1
<1>31. /\ Cardinality(RecordsTo(lines, n)) \in Nat /\ Cardinality(SoundTo(lines, n)) \in Nat
       /\ Cardinality(RecordsTo(lines, n + 1)) = Cardinality(RecordsTo(lines, n)) + 1
       /\ Cardinality(SoundTo(lines, n + 1)) = Cardinality(SoundTo(lines, n)) + (IF SoundLine(r) THEN 1 ELSE 0)
  BY <1>4, <1>6, <1>7, <1>8, <1>28, OneLineMore
<1>32. Tallied(k, 0)
  BY <1>1, <1>7, <1>13, <1>14, <1>17, <1>24, <1>30, <1>31 DEF Tallied
<1> QED BY <1>1, <1>7, <1>8, <1>15, <1>17, <1>29, <1>32 DEF FileInv

\* The file is read to its end.
LEMMA FileEnded ==
    ASSUME FileInv(checked, search), EndFile
    PROVE  FileInv(checked', search')
<1>1. PICK old, k, n, lines : old = checked /\ k = checked' /\ n = checked.at /\ lines = checked.lines
  OBVIOUS
<1>2. old.phase = "reading" /\ search = NoSearch /\ search' = NoSearch /\ n = Len(lines)
  BY <1>1 DEF EndFile
<1>3. /\ lines \in RecordFiles /\ n \in 0..Len(lines) /\ Tallied(old, 0)
      /\ ErrorsSound(old.errors, lines, n) /\ CheckFields(old)
  BY <1>1, <1>2 DEF FileInv
<1>4. PICK errors, phase :
         /\ errors = old.errors \cup
                     (IF old.count = 0 THEN {<<0, <<"input", 0, "", 0>>, "NO_RECORDS">>} ELSE {})
         /\ phase = (IF errors = {} THEN "passed" ELSE "failed")
  OBVIOUS
<1>5. checked' = [checked EXCEPT !.errors = errors, !.phase = phase]
  BY <1>1, <1>4 DEF EndFile
<1>6. k = [phase |-> phase, lines |-> old.lines, at |-> old.at, count |-> old.count, valid |-> old.valid,
           invalid |-> old.invalid, partial |-> old.partial, errors |-> errors, issues |-> old.issues,
           cycles |-> old.cycles]
  BY <1>1, <1>3, <1>5 DEF CheckFields
<1>7. /\ k.phase = phase /\ k.lines = lines /\ k.at = n /\ k.errors = errors /\ CheckFields(k)
      /\ k.count = old.count /\ k.valid = old.valid /\ k.invalid = old.invalid /\ k.cycles = old.cycles
  BY <1>1, <1>6 DEF CheckFields
<1>8. Tallied(k, 0)
  BY <1>1, <1>3, <1>7 DEF Tallied
<1>9. phase \in {"passed", "failed"} /\ (phase = "passed" <=> errors = {})
  BY <1>4
<1>10. CASE k.count = 0
  <2>1. errors # {}
    BY <1>4, <1>7, <1>10
  <2> QED BY <1>1, <1>2, <1>3, <1>7, <1>8, <1>9, <1>10, <2>1 DEF FileInv
<1>11. CASE k.count # 0
  <2>1. errors = old.errors
    BY <1>4, <1>7, <1>11
  <2> QED BY <1>1, <1>2, <1>3, <1>7, <1>8, <1>9, <1>11, <2>1 DEF FileInv
<1> QED BY <1>10, <1>11

\* A file that was checked is judged by its records.
LEMMA ContractFollows ==
    ASSUME ContractInv
    PROVE  ContractIsExact
<1> SUFFICES ASSUME checked.phase \in {"passed", "failed"}, checked.lines # <<>>
             PROVE  LET records == {l \in DOMAIN checked.lines : checked.lines[l] # Blank}
                        Sound(l) == Readable(checked.lines[l]) /\ WellFormed(checked.lines[l])
                        CycleReported(l, code) == \E e \in checked.errors : e[1] = l /\ e[3] = code
                    IN  /\ (checked.phase = "passed") <=> (records # {} /\ \A l \in records : Sound(l))
                        /\ \A l \in records : Sound(l) <=> ~\E e \in checked.errors : e[1] = l
                        /\ checked.count = Cardinality(records)
                        /\ checked.valid = Cardinality({l \in records : Sound(l)})
                        /\ checked.invalid = checked.count - checked.valid
                        /\ \A l \in records :
                              Readable(checked.lines[l]) =>
                                  /\ CycleReported(l, "RELATION_CYCLE") <=> Cyclic(RelationGraph(checked.lines[l]))
                                  /\ CycleReported(l, "SCOPE_CYCLE") <=> Cyclic(ScopeGraph(checked.lines[l]))
                        /\ \A c \in checked.cycles : OnCycle(c.graph, c.path)
  BY DEF ContractIsExact
<1>1. PICK k, lines, records : k = checked /\ lines = k.lines /\ records = {l \in DOMAIN lines : lines[l] # Blank}
  OBVIOUS
<1>2. /\ k.lines \in RecordFiles /\ k.at = Len(k.lines) /\ Tallied(k, 0)
      /\ IF k.count = 0 THEN k.phase = "failed"
         ELSE /\ ErrorsSound(k.errors, k.lines, k.at)
              /\ k.phase = "passed" <=> k.errors = {}
  BY <1>1 DEF ContractInv, FileInv
<1>3. Len(lines) \in Nat /\ DOMAIN lines = 1..Len(lines)
  BY <1>1, <1>2, LinesTyped
<1>4. records = RecordsTo(lines, k.at)
  BY <1>1, <1>2, <1>3 DEF RecordsTo
<1>5. PICK sound : sound = {l \in records : Readable(lines[l]) /\ WellFormed(lines[l])}
  OBVIOUS
<1>6. sound = SoundTo(lines, k.at)
  BY <1>4, <1>5 DEF SoundTo, SoundLine
<1>7. /\ k.count = Cardinality(records) + 0 /\ k.valid = Cardinality(sound)
      /\ k.invalid = Cardinality(records) - k.valid
      /\ \A c \in k.cycles : OnCycle(c.graph, c.path)
  BY <1>1, <1>2, <1>4, <1>6 DEF Tallied
<1>8. IsFiniteSet(records) /\ Cardinality(records) \in Nat
  <2>1. PICK line : line = 1..Len(lines)
    OBVIOUS
  <2>2. 1 \in Int /\ Len(lines) \in Int
    BY <1>3
  <2>3. IsFiniteSet(1..Len(lines))
    BY <2>2, FS_Interval
  <2>4. IsFiniteSet(line) /\ records \in SUBSET line
    BY <1>1, <1>3, <2>1, <2>3
  <2>5. IsFiniteSet(records)
    BY <2>4, FS_Subset
  <2> QED BY <2>5, FS_CardinalityType
<1>9. k.count = Cardinality(records)
  BY <1>7, <1>8
<1>10. k.count = 0 <=> records = {}
  BY <1>8, <1>9, FS_EmptySet
<1>11. CASE records = {}
  <2>1. k.phase # "passed"
    BY <1>2, <1>10, <1>11
  <2> QED BY <1>1, <1>5, <1>7, <1>9, <1>11, <2>1
<1>12. CASE records # {}
  <2>1. ErrorsSound(k.errors, lines, k.at) /\ (k.phase = "passed" <=> k.errors = {})
    BY <1>1, <1>2, <1>10, <1>12
  <2>2. /\ \A e \in k.errors : e[1] \in records
        /\ \A l \in records :
             /\ Readable(lines[l]) /\ WellFormed(lines[l]) <=> ~\E e \in k.errors : e[1] = l
             /\ Readable(lines[l]) =>
                /\ (\E e \in k.errors : e[1] = l /\ e[3] = "RELATION_CYCLE") <=> Cyclic(RelationGraph(lines[l]))
                /\ (\E e \in k.errors : e[1] = l /\ e[3] = "SCOPE_CYCLE") <=> Cyclic(ScopeGraph(lines[l]))
    BY <1>4, <2>1 DEF ErrorsSound, SoundLine
  <2>3. k.errors = {} <=> \A l \in records : Readable(lines[l]) /\ WellFormed(lines[l])
    BY <2>2
  <2> QED BY <1>1, <1>5, <1>7, <1>9, <1>12, <2>1, <2>2, <2>3
<1> QED BY <1>11, <1>12

\* A file passes when it has a record and every line that is not blank is one the interface
\* allows; every other line is reported, no sound one is, and a cycle exactly where there is one.
THEOREM ContractsAreExact == ContractSpec => []ContractIsExact
<1>1. ContractInit => ContractInv
  <2> SUFFICES ASSUME ContractInit PROVE ContractInv
    OBVIOUS
  <2>1. checked = NothingChecked /\ search = NoSearch
    BY DEF ContractInit
  <2>2. checked.phase = "idle" /\ CheckFields(checked)
    BY <2>1 DEF NothingChecked, CheckFields
  <2> QED BY <2>1, <2>2 DEF ContractInv, FileInv
<1>2. ContractInv /\ [ContractNext]_contractVars => ContractInv'
  <2> SUFFICES ASSUME ContractInv, [ContractNext]_contractVars PROVE ContractInv'
    OBVIOUS
  <2>1. FileInv(checked, search)
    BY DEF ContractInv
  <2>2. FileInv(checked', search')
    <3>1. CASE checked.phase = "idle" /\ \E lines \in RecordFiles : CheckFile(lines)
      BY <2>1, <3>1, FileOpened
    <3>2. CASE ReadFails
      BY <2>1, <3>2, FileOpened DEF ReadFails
    <3>3. CASE SkipBlank \/ RejectLine
      BY <2>1, <3>3, LineRead
    <3>4. CASE ValidateLine
      BY <2>1, <3>4, RecordOpened
    <3>5. CASE OpenRoot \/ (\E target \in DOMAIN search.graph : Follow(target)) \/ Backtrack
      BY <2>1, <3>5, SearchSteps
    <3>6. CASE EndSearch
      BY <2>1, <3>6, RelationsSearched, ScopesSearched
    <3>7. CASE EndFile
      BY <2>1, <3>7, FileEnded
    <3>8. CASE UNCHANGED contractVars
      <4>1. checked' = checked /\ search' = search
        BY <3>8 DEF contractVars
      <4> QED BY <2>1, <4>1
    <3> QED BY <3>1, <3>2, <3>3, <3>4, <3>5, <3>6, <3>7, <3>8 DEF ContractNext
  <2> QED BY <2>2 DEF ContractInv
<1>3. ContractInv => ContractIsExact
  BY ContractFollows
<1> QED BY <1>1, <1>2, <1>3, PTL DEF ContractSpec
=============================================================================
