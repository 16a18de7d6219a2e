------------------------------- MODULE FacetSets -------------------------------
(***************************************************************************)
(* The life of a confirmed data set of request facets.  A reviewed draft is   *)
(* frozen into a folder of its own, file by file; later the folder is loaded   *)
(* to be checked, or to score predictions: the records, the accepted facets    *)
(* and the confirmation are parsed one after the other, joined, and then       *)
(* compared with the digests of the manifest, for which every file is read      *)
(* again.  A freeze may be interrupted and somebody may edit a file at any       *)
(* moment.                                                                     *)
(*                                                                           *)
(* A digest is the content it was taken of.  What each file says of itself in   *)
(* fields of one fixed value is "safe"; the versions of a file are one value.  *)
(***************************************************************************)
EXTENDS Integers, SequencesExt, FiniteSetsExt

CONSTANTS
    FacetNames,
    Drafts,                 \* reviewed cases: id, query and proposed facets
    EditsOf(_, _),          \* what somebody may make of a file of a folder
    PredictionFiles,        \* sequences of predictions, or Nil
    MaxChanges,             \* edits
    MaxRuns,                \* of a script
    Nil                     \* no file, no value

VARIABLES
    folder,     \* what is on disk
    run,        \* of the script that runs
    changes,
    runs

facetVars == <<folder, run, changes, runs>>

Parsed == {"records", "accepted", "confirmation"}
FacetFiles == Parsed \cup {"proposal", "manifest"}

Bindings == {"BOUND", "UNBOUND"}
Unresolved == <<"request_facet">>

FacetsTotal(cases) == FoldSeq(LAMBDA c, n : n + Len(c.facets), 0, cases)
NoRepetition(s) == Cardinality(Range(s)) = Len(s)
Column(cases, field) == [i \in DOMAIN cases |-> cases[i][field]]

-----------------------------------------------------------------------------
(* Freezing a draft                                                         *)

DraftRefused(draft) ==
    \/ ~NoRepetition(Column(draft, "id")) \/ ~NoRepetition(Column(draft, "query"))
    \/ \E i \in DOMAIN draft : draft[i].accepted

FrozenRecords(draft) ==
    [i \in DOMAIN draft |-> [query |-> draft[i].query, status |-> "PARTIAL", outputs |-> Unresolved]]

FrozenAccepted(draft, version) ==
    LET Case(i) == [id |-> draft[i].id, line |-> i, query |-> draft[i].query,
                    facets |-> draft[i].facets, unresolved |-> Unresolved]
        cases == [i \in DOMAIN draft |-> Case(i)]
    IN  [safe |-> TRUE, version |-> version, count |-> Len(cases), instances |-> FacetsTotal(cases),
         vocabulary |-> FacetNames, cases |-> cases]

BindingOf(facets) ==
    [name \in Range(Column(facets, "facet")) |->
        (CHOOSE f \in Range(facets) : f.facet = name).binding]

FrozenConfirmation(accepted, proposal, records) ==
    LET Mapping(case) == [id |-> case.id, labels |-> Column(case.facets, "facet"),
                          bindings |-> BindingOf(case.facets)]
    IN  [safe |-> TRUE, version |-> accepted.version, proposal |-> proposal, records |-> records,
         accepted |-> Len(accepted.cases), rejected |-> 0,
         definitions |-> Cardinality(accepted.vocabulary), instances |-> accepted.instances,
         order |-> Column(accepted.cases, "id"),
         mappings |-> [i \in DOMAIN accepted.cases |-> Mapping(accepted.cases[i])]]

FrozenManifest(f, accepted) ==
    [safe |-> TRUE, version |-> accepted.version, count |-> accepted.count,
     entries |-> <<<<"proposal", f.proposal>>, <<"records", f.records>>,
                   <<"accepted", f.accepted>>, <<"confirmation", f.confirmation>>>>]

-----------------------------------------------------------------------------
(* Parsing                                                                  *)

\* A line is Nil when it is blank, and Bad when it breaks the contract of records.
Bad == [query |-> 0, status |-> "BAD", outputs |-> <<>>]
RecordLines(records) == {l \in DOMAIN records : records[l] # Nil}

RecordsRefused(records) ==
    \/ records = Nil
    \/ \E l \in DOMAIN records : records[l] = Bad
    \/ RecordLines(records) = {}

FacetRefused(f) ==
    f.facet \notin FacetNames \/ f.binding \notin Bindings \/ ~f.quoted

AcceptedRefused(a) ==
    \/ a = Nil
    \/ ~a.safe \/ a.vocabulary # FacetNames
    \/ ~NoRepetition(Column(a.cases, "id")) \/ ~NoRepetition(Column(a.cases, "line"))
    \/ \E case \in Range(a.cases) :
          \/ \E f \in Range(case.facets) : FacetRefused(f)
          \/ ~NoRepetition(Column(case.facets, "facet"))
    \/ a.count # Len(a.cases)
    \/ a.instances # FacetsTotal(a.cases)

ConfirmationUnsound(c) ==
    \/ c = Nil
    \/ ~c.safe
    \/ ~NoRepetition(Column(c.mappings, "id"))
    \/ \E m \in Range(c.mappings) :
          \/ ~NoRepetition(m.labels) \/ ~(Range(m.labels) \subseteq FacetNames)
          \/ DOMAIN m.bindings # Range(m.labels)
          \/ ~(Range(m.bindings) \subseteq Bindings)

Refuses(file, content) ==
    CASE file = "records" -> RecordsRefused(content)
      [] file = "accepted" -> AcceptedRefused(content)
      [] file = "confirmation" -> ConfirmationUnsound(content)

-----------------------------------------------------------------------------
(* Joining                                                                  *)

\* Mutant: the labels are compared, what they are bound to is not.
CaseRefusedByLabels(case, mapping, record) ==
    \/ case.query # record.query \/ record.status # "PARTIAL"
    \/ case.unresolved # record.outputs
    \/ mapping.id # case.id \/ mapping.labels # Column(case.facets, "facet")

CaseRefused(case, mapping, record) ==
    \/ case.query # record.query \/ record.status # "PARTIAL"
    \/ case.unresolved # record.outputs
    \/ mapping.id # case.id \/ mapping.labels # Column(case.facets, "facet")
    \/ mapping.bindings # BindingOf(case.facets)

\* digest: of the records, read a second time.
JoinRefused(records, a, c, digest) ==
    \/ digest # c.records
    \/ a.version # c.version
    \/ a.count # Cardinality(RecordLines(records))
    \/ Range(Column(a.cases, "line")) # RecordLines(records)
    \/ c.accepted # Len(a.cases) \/ c.rejected # 0
    \/ c.definitions # Cardinality(a.vocabulary)
    \/ c.instances # a.instances
    \/ c.order # Column(a.cases, "id") \/ Column(c.mappings, "id") # c.order
    \/ \E i \in DOMAIN a.cases : CaseRefused(a.cases[i], c.mappings[i], records[a.cases[i].line])

Joined(records, a) ==
    [i \in DOMAIN a.cases |->
        [id |-> a.cases[i].id, line |-> a.cases[i].line, record |-> records[a.cases[i].line],
         facets |-> a.cases[i].facets]]

Listed(m, file) == {e[2] : e \in {x \in Range(m.entries) : x[1] = file}}

\* Every file that is listed, the first one that fails ends the check; the inputs and one
\* proposal, that of the confirmation, are listed.
ManifestMisses(m, c) ==
    \/ \E file \in Parsed : Listed(m, file) = {}
    \/ Listed(m, "proposal") # {c.proposal}

-----------------------------------------------------------------------------
(* Scores                                                                   *)

PredictionsRefused(p, cases) ==
    \/ p = Nil \/ p = <<>>
    \/ ~NoRepetition(Column(p, "id"))
    \/ \E x \in Range(p) :
          \/ ~(Range(Column(x.facets, "facet")) \subseteq FacetNames)
          \/ ~NoRepetition(Column(x.facets, "facet"))
          \/ ~(Range(Column(x.facets, "binding")) \subseteq Bindings)
    \/ ~(Range(Column(p, "id")) \subseteq Range(Column(cases, "id")))

\* A case nobody predicted anything of counts as one of which nothing was predicted.
Score(cases, p) ==
    LET Of(case) == {x \in Range(p) : x.id = case.id}
        Predicted(case) == BindingOf(FlattenSeq([i \in DOMAIN p |->
                               IF p[i].id = case.id THEN p[i].facets ELSE <<>>]))
        Expected(case) == BindingOf(case.facets)
        Both(case) == DOMAIN Predicted(case) \cap DOMAIN Expected(case)
        Count(Of1(_)) == FoldSeq(LAMBDA case, n : n + Cardinality(Of1(case)), 0, cases)
    IN  [matched   |-> Count(Both),
         wrong     |-> Count(LAMBDA case : DOMAIN Predicted(case) \ DOMAIN Expected(case)),
         missed    |-> Count(LAMBDA case : DOMAIN Expected(case) \ DOMAIN Predicted(case)),
         bound     |-> Count(LAMBDA case : {f \in Both(case) : Predicted(case)[f] = Expected(case)[f]}),
         exact     |-> Count(LAMBDA case : IF Of(case) # {} /\ Predicted(case) = Expected(case)
                                           THEN {case} ELSE {}),
         predicted |-> Count(Of),
         missing   |-> {case.id : case \in {x \in Range(cases) : Of(x) = {}}}]

-----------------------------------------------------------------------------
(* A script                                                                 *)

NoRun == [phase |-> "idle", draft |-> <<>>, parsed |-> <<>>, hashed |-> 0, manifest |-> Nil,
          predictions |-> Nil, bundle |-> Nil, score |-> Nil, edited |-> {}]

FacetsInit ==
    /\ folder = [f \in FacetFiles |-> IF f = "proposal" THEN 1 ELSE Nil] @@ [made |-> FALSE]
    /\ run = NoRun
    /\ changes = 0
    /\ runs = 0

At(phase) == run.phase = phase
Fail == [run EXCEPT !.phase = "failed", !.bundle = Nil]
Goes(phase) == [run EXCEPT !.phase = phase]
Keeps == UNCHANGED <<changes, runs>>

\* The folder must not be there yet.
FreezeDraft(draft) ==
    /\ At("idle") /\ runs < MaxRuns
    /\ runs' = runs + 1
    /\ IF DraftRefused(draft) \/ folder.made
       THEN run' = [NoRun EXCEPT !.phase = "failed"] /\ UNCHANGED folder
       ELSE /\ run' = [NoRun EXCEPT !.phase = "writing records", !.draft = draft]
            /\ folder' = [folder EXCEPT !.made = TRUE]
    /\ UNCHANGED changes

WriteRecords ==
    /\ At("writing records")
    /\ folder' = [folder EXCEPT !.records = FrozenRecords(run.draft)]
    /\ run' = Goes("writing accepted")
    /\ Keeps

\* A facet whose quotation is not in its query ends the freeze.
WriteAccepted ==
    /\ At("writing accepted")
    /\ IF \E case \in Range(run.draft) : \E f \in Range(case.facets) : ~f.quoted
       THEN run' = Fail /\ UNCHANGED folder
       ELSE /\ folder' = [folder EXCEPT !.accepted = FrozenAccepted(run.draft, 1)]
            /\ run' = Goes("writing confirmation")
    /\ Keeps

WriteConfirmation ==
    /\ At("writing confirmation")
    /\ folder' = [folder EXCEPT !.confirmation =
                     FrozenConfirmation(FrozenAccepted(run.draft, 1), folder.proposal, folder.records)]
    /\ run' = Goes("writing manifest")
    /\ Keeps

\* What was written is loaded once.
WriteManifest ==
    /\ At("writing manifest")
    /\ folder' = [folder EXCEPT !.manifest = FrozenManifest(folder, FrozenAccepted(run.draft, 1))]
    /\ run' = [NoRun EXCEPT !.phase = "reading records"]
    /\ Keeps

FreezeStops ==
    /\ run.phase \in {"writing records", "writing accepted", "writing confirmation", "writing manifest"}
    /\ run' = Fail
    /\ Keeps /\ UNCHANGED folder

\* predictions: the file to score, Nil when the folder is only checked.
StartLoad(predictions) ==
    /\ At("idle") /\ runs < MaxRuns /\ folder.made
    /\ runs' = runs + 1
    /\ run' = [NoRun EXCEPT !.phase = "reading records", !.predictions = predictions]
    /\ UNCHANGED <<folder, changes>>

Following == ("records" :> "accepted") @@ ("accepted" :> "confirmation") @@ ("confirmation" :> "join")

ReadFile(file) ==
    /\ At("reading " \o file)
    /\ run' = IF Refuses(file, folder[file]) THEN Fail
              ELSE [run EXCEPT !.parsed = @ @@ (file :> folder[file]),
                               !.edited = @ \ {file},
                               !.phase = "reading " \o Following[file]]
    /\ Keeps /\ UNCHANGED folder

\* The records are read again for their digest; then what was parsed is joined.
JoinFiles ==
    LET p == run.parsed
    IN  /\ At("reading join")
        /\ run' = IF JoinRefused(p.records, p.accepted, p.confirmation, folder.records) THEN Fail
                  ELSE [run EXCEPT !.bundle = Joined(p.records, p.accepted), !.phase = "manifest"]
        /\ Keeps /\ UNCHANGED folder

ReadManifest ==
    LET m == folder.manifest
        a == run.parsed.accepted
    IN  /\ At("manifest")
        /\ run' = IF m = Nil THEN Fail
                  ELSE IF ~m.safe \/ m.version # a.version \/ m.count # a.count THEN Fail
                  ELSE [run EXCEPT !.manifest = m, !.phase = "hashing"]
        /\ Keeps /\ UNCHANGED folder

\* One listed file is read again.
HashEntry(i) ==
    LET entry == run.manifest.entries[i]
    IN  /\ At("hashing") /\ i = run.hashed + 1 /\ i <= Len(run.manifest.entries)
        /\ run' = IF \/ Cardinality(Listed([entries |-> SubSeq(run.manifest.entries, 1, i)], entry[1])) > 1
                     \/ folder[entry[1]] # entry[2]
                  THEN Fail
                  ELSE [run EXCEPT !.hashed = i]
        /\ Keeps /\ UNCHANGED folder

EndLoad ==
    /\ At("hashing") /\ run.hashed = Len(run.manifest.entries)
    /\ run' = IF ManifestMisses(run.manifest, run.parsed.confirmation) THEN Fail
              ELSE IF run.predictions = Nil THEN Goes("passed") ELSE Goes("scoring")
    /\ Keeps /\ UNCHANGED folder

\* The predictions are read once, bytes and digest together.
ScorePredictions ==
    /\ At("scoring")
    /\ run' = IF PredictionsRefused(run.predictions, run.bundle) THEN Fail
              ELSE [run EXCEPT !.score = Score(run.bundle, run.predictions), !.phase = "passed"]
    /\ Keeps /\ UNCHANGED folder

\* The report of a run that went well may fail to be written.
RunEnds ==
    /\ run.phase \in {"passed", "failed"}
    /\ run' = NoRun
    /\ Keeps /\ UNCHANGED folder

EditFile(file, content) ==
    /\ folder.made /\ changes < MaxChanges
    /\ changes' = changes + 1
    /\ folder' = [folder EXCEPT ![file] = content]
    /\ run' = [run EXCEPT !.edited = @ \cup {file}]
    /\ UNCHANGED runs

FacetsNext ==
    \/ \E draft \in Drafts : FreezeDraft(draft)
    \/ WriteRecords \/ WriteAccepted \/ WriteConfirmation \/ WriteManifest
    \/ FreezeStops
    \/ \E predictions \in PredictionFiles : StartLoad(predictions)
    \/ \E file \in Parsed : ReadFile(file)
    \/ JoinFiles
    \/ ReadManifest
    \/ \E i \in 1..5 : HashEntry(i)
    \/ EndLoad
    \/ ScorePredictions
    \/ RunEnds
    \/ \E file \in FacetFiles : \E content \in EditsOf(folder, file) : EditFile(file, content)

FacetsSpec == FacetsInit /\ [][FacetsNext]_facetVars

-----------------------------------------------------------------------------
(* Properties                                                               *)

\* A load that passes joined every record with one case, with the very facets, bindings
\* and order its user confirmed and with nothing that was left open resolved
\* (load_semantic_request_facet_bundle), and what it parsed of a file nobody edited
\* since is what the manifest lists.  In a score every expected and every predicted facet
\* is counted once, those of a case nobody predicted as missed (evaluate_predictions).
FacetsAreConfirmed ==
    At("passed") =>
        LET p == run.parsed
            a == p.accepted
            c == p.confirmation
        IN  /\ \A l \in RecordLines(p.records) :
                  Cardinality({i \in DOMAIN run.bundle : run.bundle[i].line = l}) = 1
            /\ Len(run.bundle) = Len(c.mappings)
            /\ \A i \in DOMAIN run.bundle :
                  LET case == run.bundle[i]
                      mapping == CHOOSE m \in Range(c.mappings) : m.id = case.id
                  IN  /\ c.order[i] = case.id
                      /\ case.record = p.records[case.line] /\ case.record.status = "PARTIAL"
                      /\ DOMAIN mapping.bindings = Range(Column(case.facets, "facet"))
                      /\ \A f \in Range(case.facets) : mapping.bindings[f.facet] = f.binding
                      /\ a.cases[i].unresolved = case.record.outputs
            /\ \A file \in Parsed \ run.edited : Listed(run.manifest, file) = {p[file]}
            /\ run.edited = {} => folder.proposal = c.proposal /\ p.records = c.records
            /\ run.score # Nil =>
                  /\ run.score.matched + run.score.missed = c.instances
                  /\ run.score.matched + run.score.wrong = FacetsTotal(run.predictions)
                  /\ run.score.bound <= run.score.matched
                  /\ run.score.predicted + Cardinality(run.score.missing) = Len(run.bundle)
                  /\ (run.score.exact = Len(run.bundle))
                        <=> /\ run.score.missing = {} /\ run.score.wrong = 0 /\ run.score.missed = 0
                            /\ run.score.bound = run.score.matched
=================================================================================
