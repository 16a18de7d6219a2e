---------------------------- MODULE ApprovalWorkflow ----------------------------
(***************************************************************************)
(* One session of AgentWorkflow on the SQLite runtime: requests draft,     *)
(* revise, confirm, cancel and submit an application, one turn at a time   *)
(* under a session lock, while turns fail, submissions time out and go on  *)
(* in their threads, the session is cleared, and the process restarts.     *)
(* Sessions share nothing but the database file: draft ids and idempotency *)
(* keys contain the session id.                                            *)
(***************************************************************************)
EXTENDS Naturals, FiniteSets

CONSTANTS
    Requests,     \* coroutines serving requests of the session
    Texts,        \* what a user can write; also the contents of drafts
    Complete,     \* the contents that lack no field or material
    None,         \* no draft, no row
    MaxRevision,  \* bound: revisions of one draft
    MaxArrivals   \* bound: requests in one behaviour

ASSUME WorkflowAssumption ==
    /\ Complete \subseteq Texts
    /\ MaxRevision \in Nat \ {0}
    /\ MaxArrivals \in Nat

VARIABLES
    turn,        \* the coroutine of each request, with its copy of the graph state
    lock,        \* generation of the lock registered in _session_locks
    threads,     \* drafts of submissions whose turn has stopped waiting for them
    checkpoint,  \* the newest checkpoint of the thread
    head,        \* the row of agent_sessions
    snapshots,   \* application_draft_snapshots
    receipts,    \* approval_submissions
    approved,    \* history variable: what the user has confirmed
    arrivals     \* requests so far

vars == <<turn, lock, threads, checkpoint, head, snapshots, receipts, approved, arrivals>>

-----------------------------------------------------------------------------
(* Data.  A draft id digests the text it was generated from; its key is the *)
(* id with the revision.                                                    *)

Statuses == {"incomplete", "waiting", "confirmed", "submitted", "cancelled"}
Phases == {"idle", "collecting", "awaiting", "confirmed", "submitted", "cancelled"}
Draft == [id : Texts, revision : 1 .. MaxRevision, content : Texts, status : Statuses]

ASSUME NoneAssumption == None \notin Texts \cup Draft

\* The fields of the graph state that a later turn reads; gate: the graph is
\* interrupted in front of human_confirmation_gate.
State == [turn : Nat, phase : Phases, draft : Draft \cup {None}, gate : BOOLEAN]
NewThread == [turn |-> 0, phase |-> "idle", draft |-> None, gate |-> FALSE]

HeadRow == [turn : Nat, phase : Phases, id : Texts \cup {None},
         revision : 0 .. MaxRevision, pending : BOOLEAN]

Receipt == [id : Texts, revision : 1 .. MaxRevision, content : Texts]
ReceiptOf(d) == [id |-> d.id, revision |-> d.revision, content |-> d.content]

Messages ==
    [kind : {"submit", "confirm", "cancel", "clear"}, text : {None}]
    \cup [kind : {"update", "request"}, text : Texts]
Commands == {"submit", "confirm", "cancel", "clear", "update", "request"}
NoMessage == [kind |-> "clear", text |-> None]

Stages == {"idle", "waiting", "locked", "threadDeleted", "routed", "saved",
           "submitting", "awaiting", "finished"}
Channels == {"turn", "phase", "draft"}
Outcomes == {"none", "created", "replayed", "conflict", "precondition"}

Turn == [stage : Stages, lock : Nat, message : Messages, action : Commands,
         state : State, kept : SUBSET Channels, outcome : Outcomes]
IdleTurn == [stage |-> "idle", lock |-> 0, message |-> NoMessage, action |-> "clear",
             state |-> NewThread, kept |-> Channels, outcome |-> "none"]

WorkflowTypeOK ==
    /\ turn \in [Requests -> Turn]
    /\ lock \in Nat
    /\ threads \subseteq Draft
    /\ checkpoint \in State
    /\ head \in HeadRow \cup {None}
    /\ snapshots \subseteq Draft
    /\ receipts \subseteq Receipt
    /\ approved \subseteq Receipt
    /\ arrivals \in 0 .. MaxArrivals

Init ==
    /\ turn = [r \in Requests |-> IdleTurn]
    /\ lock = 0
    /\ threads = {}
    /\ checkpoint = NewThread
    /\ head = None
    /\ snapshots = {}
    /\ receipts = {}
    /\ approved = {}
    /\ arrivals = 0

At(r, stage) == turn[r].stage = stage
Running(r) == turn[r].stage \notin {"idle", "waiting"}
Ends(r) == turn' = [turn EXCEPT ![r] = IdleTurn]

-----------------------------------------------------------------------------
(* The session lock.  clear_session removes it from the registry after it   *)
(* has released it: who waited keeps waiting for the old one, who comes     *)
(* later creates another.                                                   *)

Arrive(r, m) ==
    /\ At(r, "idle")
    /\ arrivals < MaxArrivals
    /\ turn' = [turn EXCEPT ![r] = [IdleTurn EXCEPT !.stage = "waiting",
                                        !.lock = lock, !.message = m]]
    /\ arrivals' = arrivals + 1
    /\ UNCHANGED <<lock, threads, checkpoint, head, snapshots, receipts, approved>>

AcquireLock(r) ==
    /\ At(r, "waiting")
    /\ \A q \in Requests : Running(q) => turn[q].lock # turn[r].lock
    /\ turn' = [turn EXCEPT ![r].stage = "locked"]
    /\ UNCHANGED <<lock, threads, checkpoint, head, snapshots, receipts, approved,
                   arrivals>>

-----------------------------------------------------------------------------
(* Routing                                                                  *)

\* _infer_turn_action and, at the gate, the explicit actions only.  While fields
\* are missing a text is a supplement, unless a cue in it makes it a new request.
Actions(m, d) ==
    IF m.kind = "submit" \/ (m.kind # "request" /\ d # None) THEN {m.kind}
    ELSE IF d # None /\ d.status = "incomplete" THEN {"update", "request"}
    ELSE {"request"}

\* At the gate anything but a command is answered without running the graph.
PendingReply(r) ==
    /\ At(r, "locked")
    /\ turn[r].message.kind = "request"
    /\ checkpoint.gate
    /\ Ends(r)
    /\ UNCHANGED <<lock, threads, checkpoint, head, snapshots, receipts, approved,
                   arrivals>>

\* The graph works on its own copy of the state from here on.  A gate whose draft
\* is gone raises.
BeginTurn(r) ==
    LET s == checkpoint
        m == turn[r].message
    IN /\ At(r, "locked")
       /\ m.kind # "clear"
       /\ s.gate => m.kind # "request" /\ s.draft # None
       /\ \E action \in Actions(m, s.draft) :
             turn' = [turn EXCEPT ![r] =
                 [@ EXCEPT !.stage = "routed", !.action = action,
                           !.state = [s EXCEPT !.turn = s.turn + 1, !.gate = FALSE]]]
       /\ UNCHANGED <<lock, threads, checkpoint, head, snapshots, receipts, approved,
                      arrivals>>

\* A checkpoint stores the channels written since the last one and refers to the
\* stored values of the others; what adelete_thread removed reads as unset.
Stored(s, channels) ==
    [turn |-> IF "turn" \in channels THEN s.turn ELSE 0,
     phase |-> IF "phase" \in channels THEN s.phase ELSE "idle",
     draft |-> IF "draft" \in channels THEN s.draft ELSE None,
     gate |-> s.gate]

\* The checkpoint of resolve_turn is written while the next node runs.
SaveRoute(r) ==
    /\ At(r, "routed")
    /\ turn' = [turn EXCEPT ![r].stage = "saved"]
    /\ checkpoint' = Stored(turn[r].state, turn[r].kept)
    /\ UNCHANGED <<lock, threads, head, snapshots, receipts, approved, arrivals>>

Acting(r, action) == turn[r].stage \in {"routed", "saved"} /\ turn[r].action = action

\* A node returns: its writes are applied, stored, and the next node chosen.
Goes(r, s, written, stage) ==
    /\ turn' = [turn EXCEPT ![r] = [@ EXCEPT !.stage = stage, !.state = s,
                                             !.kept = turn[r].kept \cup written]]
    /\ checkpoint' = Stored(s, turn[r].kept \cup written)
    /\ UNCHANGED <<lock, head, snapshots, arrivals>>

Returns(r, s, written, stage) ==
    /\ Goes(r, s, written, stage)
    /\ UNCHANGED <<threads, receipts, approved>>

\* _phase_for_draft
PhaseOf(d) ==
    CASE d.status = "incomplete" -> "collecting"
      [] d.status = "waiting" -> "awaiting"
      [] OTHER -> d.status

WithDraft(s, d) == [s EXCEPT !.draft = d, !.phase = PhaseOf(d)]
InPhase(s, phase) == [s EXCEPT !.phase = phase]
\* _select_after_draft, _select_after_submission
After(s) == IF s.phase = "awaiting" THEN "awaiting" ELSE "finished"

-----------------------------------------------------------------------------
(* A new request                                                            *)

\* Questions, checks, clarifications and a text of no known application type
\* leave the draft alone, and so does a classifier that is unavailable.
Ask(r) ==
    /\ Acting(r, "request")
    /\ Returns(r, turn[r].state, {}, "finished")

FirstDraft(text) ==
    [id |-> text, revision |-> 1, content |-> text,
     status |-> IF text \in Complete THEN "waiting" ELSE "incomplete"]

GenerateDraft(r) ==
    /\ Acting(r, "request")
    /\ turn[r].message.text # None
    /\ LET s == WithDraft(turn[r].state, FirstDraft(turn[r].message.text))
       IN Returns(r, s, {"phase", "draft"}, After(s))

GenerateFails(r) ==
    /\ Acting(r, "request")
    /\ turn[r].message.text # None
    /\ Returns(r, InPhase(turn[r].state, "idle"), {"phase"}, "finished")

-----------------------------------------------------------------------------
(* Commands on the draft.  resolve_turn sends none of them here without one. *)

Commanding(r, action) == Acting(r, action) /\ turn[r].state.draft # None
Before(r) == turn[r].state.draft

\* Mutant: the user's confirmation outlives the revision it was given for.
RevisedKeepingStatus(d, content) == [d EXCEPT !.revision = @ + 1, !.content = content]

\* The text is merged into the fields: some content results.
Revised(d, content) ==
    [d EXCEPT !.revision = @ + 1, !.content = content,
              !.status = IF content \in Complete THEN "waiting" ELSE "incomplete"]

UpdateDraft(r) ==
    /\ Commanding(r, "update")
    /\ Before(r).status # "submitted"
    /\ Before(r).revision < MaxRevision
    /\ LET s == WithDraft(turn[r].state, Revised(Before(r), turn[r].message.text))
       IN Returns(r, s, {"phase", "draft"}, After(s))

\* The draft is kept, but not the gate it waited at.
UpdateFails(r) ==
    /\ Commanding(r, "update")
    /\ Before(r).status # "submitted"
    /\ Returns(r, WithDraft(turn[r].state, Before(r)), {"phase", "draft"}, "finished")

UpdateRefused(r) ==
    /\ Commanding(r, "update")
    /\ Before(r).status = "submitted"
    /\ Returns(r, InPhase(turn[r].state, "submitted"), {"phase"}, "finished")

ConfirmDraft(r) ==
    LET d == [Before(r) EXCEPT !.status = "confirmed"]
    IN /\ Commanding(r, "confirm")
       /\ Before(r).status \in {"waiting", "confirmed"}
       /\ Goes(r, WithDraft(turn[r].state, d), {"phase", "draft"}, "finished")
       /\ approved' = approved \cup {ReceiptOf(d)}
       /\ UNCHANGED <<threads, receipts>>

ConfirmRefused(r) ==
    /\ Commanding(r, "confirm")
    /\ Before(r).status \notin {"waiting", "confirmed"}
    /\ Returns(r, WithDraft(turn[r].state, Before(r)), {"phase", "draft"}, "finished")

CancelDraft(r) ==
    /\ Commanding(r, "cancel")
    /\ Before(r).status # "submitted"
    /\ Returns(r, WithDraft(turn[r].state, [Before(r) EXCEPT !.status = "cancelled"]),
               {"phase", "draft"}, "finished")

CancelRefused(r) ==
    /\ Commanding(r, "cancel")
    /\ Before(r).status = "submitted"
    /\ Returns(r, WithDraft(turn[r].state, Before(r)), {"phase", "draft"}, "finished")

-----------------------------------------------------------------------------
(* Submission.  The turn waits at most mutation_tool_timeout_seconds for the *)
(* thread that runs the transaction; the transaction is not interrupted.    *)

SubmitRefused(r) ==
    /\ Acting(r, "submit")
    /\ LET d == turn[r].state.draft
           s == InPhase(turn[r].state, IF d = None THEN "idle" ELSE PhaseOf(d))
       IN /\ d # None => d.status \notin {"confirmed", "submitted"}
          /\ Returns(r, s, {"phase"}, After(s))

SubmitDraft(r) ==
    /\ Commanding(r, "submit")
    /\ Before(r).status \in {"confirmed", "submitted"}
    /\ turn' = [turn EXCEPT ![r] = [@ EXCEPT !.stage = "submitting", !.outcome = "none"]]
    /\ UNCHANGED <<lock, threads, checkpoint, head, snapshots, receipts, approved,
                   arrivals>>

SameKey(x, d) == x.id = d.id /\ x.revision = d.revision

\* Mutant: only the key is looked up.
OutcomeByKey(d) ==
    IF \E x \in receipts : SameKey(x, d) THEN "replayed"
    ELSE IF d.status = "confirmed" THEN "created" ELSE "precondition"

\* _submit_transaction, which BEGIN IMMEDIATE makes one step: the first receipt of
\* the key, a draft bound to another key, _validate_first_submission, insert.
OutcomeFor(d) ==
    IF \E x \in receipts : SameKey(x, d) THEN "replayed"
    ELSE IF \E x \in receipts : x.id = d.id THEN "conflict"
    ELSE IF d.status = "confirmed" THEN "created" ELSE "precondition"

ReceiptsAfter(d) ==
    IF OutcomeFor(d) = "created" THEN receipts \cup {ReceiptOf(d)} ELSE receipts

Transaction(r) ==
    /\ At(r, "submitting")
    /\ turn[r].outcome = "none"
    /\ turn' = [turn EXCEPT ![r].outcome = OutcomeFor(Before(r))]
    /\ receipts' = ReceiptsAfter(Before(r))
    /\ UNCHANGED <<lock, threads, checkpoint, head, snapshots, approved, arrivals>>

\* Nobody waits for this transaction any more.
AbandonedTransaction(d) ==
    /\ receipts' = ReceiptsAfter(d)
    /\ threads' = threads \ {d}
    /\ UNCHANGED <<turn, lock, checkpoint, head, snapshots, approved, arrivals>>

SubmitReturns(r) ==
    /\ At(r, "submitting")
    /\ turn[r].outcome \in {"created", "replayed"}
    /\ Returns(r, WithDraft(turn[r].state, [Before(r) EXCEPT !.status = "submitted"]),
               {"phase", "draft"}, "finished")

\* SubmissionConflictError, SubmissionPreconditionError
SubmitRejected(r) ==
    /\ At(r, "submitting")
    /\ turn[r].outcome \in {"conflict", "precondition"}
    /\ Returns(r, InPhase(turn[r].state, PhaseOf(Before(r))), {"phase"}, "finished")

Abandoned(r) ==
    IF At(r, "submitting") /\ turn[r].outcome = "none" THEN {Before(r)} ELSE {}

\* Mutant: the draft is taken for submitted.
TimeoutTakenForSuccess(r) ==
    /\ At(r, "submitting")
    /\ threads' = threads \cup Abandoned(r)
    /\ Goes(r, WithDraft(turn[r].state, [Before(r) EXCEPT !.status = "submitted"]),
            {"phase", "draft"}, "finished")
    /\ UNCHANGED <<receipts, approved>>

\* wait_for gives up, perhaps when the transaction has just committed.
SubmitTimesOut(r) ==
    /\ At(r, "submitting")
    /\ threads' = threads \cup Abandoned(r)
    /\ Goes(r, WithDraft(turn[r].state, Before(r)), {"phase", "draft"}, "finished")
    /\ UNCHANGED <<receipts, approved>>

-----------------------------------------------------------------------------
(* The end of a turn                                                        *)

AwaitConfirmation(r) ==
    /\ At(r, "awaiting")
    /\ Returns(r, [turn[r].state EXCEPT !.phase = "awaiting", !.gate = TRUE],
               {"phase"}, "finished")

HeadOf(s) ==
    [turn |-> s.turn, phase |-> s.phase, pending |-> s.gate,
     id |-> IF s.draft = None THEN None ELSE s.draft.id,
     revision |-> IF s.draft = None THEN 0 ELSE s.draft.revision]

\* _persist_route_state upserts the head and the snapshot of the revision in one
\* transaction; the turn then releases the session lock.
Persist(r) ==
    LET d == Before(r)
    IN /\ At(r, "finished")
       /\ head' = HeadOf(turn[r].state)
       /\ snapshots' = IF d = None THEN snapshots
                       ELSE {x \in snapshots : ~SameKey(x, d)} \cup {d}
       /\ Ends(r)
       /\ UNCHANGED <<lock, threads, checkpoint, receipts, approved, arrivals>>

\* The database is busy or gone, or a node raises: the turn ends where it is.
TurnFails(r) ==
    /\ ~At(r, "idle")
    /\ threads' = threads \cup Abandoned(r)
    /\ Ends(r)
    /\ UNCHANGED <<lock, checkpoint, head, snapshots, receipts, approved, arrivals>>

\* clear_session.  A turn that runs meanwhile has its stored channels deleted,
\* save those of a checkpoint still being written.
DeleteThread(r) ==
    /\ At(r, "locked")
    /\ turn[r].message.kind = "clear"
    /\ turn' = [q \in Requests |->
           IF q = r THEN [turn[q] EXCEPT !.stage = "threadDeleted"]
           ELSE IF At(q, "routed") THEN [turn[q] EXCEPT !.kept = {"turn", "phase"}]
           ELSE IF Running(q) THEN [turn[q] EXCEPT !.kept = {}]
           ELSE turn[q]]
    /\ checkpoint' = NewThread
    /\ UNCHANGED <<lock, threads, head, snapshots, receipts, approved, arrivals>>

\* delete_session cascades to the draft snapshots; receipts and audits stay.  The
\* lock stays registered if clearing the memory, which comes last, fails.
DeleteSession(r) ==
    /\ At(r, "threadDeleted")
    /\ head' = None
    /\ snapshots' = {}
    /\ lock' \in {lock, lock + 1}
    /\ Ends(r)
    /\ UNCHANGED <<threads, checkpoint, receipts, approved, arrivals>>

\* The process dies: coroutines, locks and uncommitted transactions are gone.
Crash ==
    /\ turn' = [r \in Requests |-> IdleTurn]
    /\ lock' = 0
    /\ threads' = {}
    /\ UNCHANGED <<checkpoint, head, snapshots, receipts, approved, arrivals>>

Request(r) ==
    \/ \E m \in Messages : Arrive(r, m)
    \/ AcquireLock(r)
    \/ PendingReply(r)
    \/ BeginTurn(r)
    \/ SaveRoute(r)
    \/ Ask(r)
    \/ GenerateDraft(r)
    \/ GenerateFails(r)
    \/ UpdateDraft(r)
    \/ UpdateFails(r)
    \/ UpdateRefused(r)
    \/ ConfirmDraft(r)
    \/ ConfirmRefused(r)
    \/ CancelDraft(r)
    \/ CancelRefused(r)
    \/ SubmitRefused(r)
    \/ SubmitDraft(r)
    \/ Transaction(r)
    \/ SubmitReturns(r)
    \/ SubmitRejected(r)
    \/ SubmitTimesOut(r)
    \/ AwaitConfirmation(r)
    \/ Persist(r)
    \/ TurnFails(r)
    \/ DeleteThread(r)
    \/ DeleteSession(r)

Next ==
    \/ \E r \in Requests : Request(r)
    \/ \E d \in threads : AbandonedTransaction(d)
    \/ Crash

Spec == Init /\ [][Next]_vars

-----------------------------------------------------------------------------
(* Properties                                                               *)

\* One draft is submitted once, whatever timed out, failed, was revised, cleared
\* or submitted again (_submit_transaction).
OneReceiptPerDraft ==
    \A x, y \in receipts : x.id = y.id => x = y

\* Nothing is submitted that the user has not confirmed in that very revision
\* with that content (confirm_draft, submit_approval).
ReceiptsWereConfirmed == receipts \subseteq approved

\* Nobody is told of a submission that does not exist: whatever a checkpoint, a
\* turn, a draft snapshot or the session head calls submitted has a receipt of
\* the same draft and revision.
HasReceipt(id, revision) ==
    \E x \in receipts : x.id = id /\ x.revision = revision

SubmittedMeansReceipt ==
    /\ \A d \in {checkpoint.draft} \cup {Before(r) : r \in Requests} \cup snapshots :
          d # None => (d.status = "submitted" => HasReceipt(d.id, d.revision))
    /\ head # None =>
          (head.phase = "submitted" /\ head.id # None
           => HasReceipt(head.id, head.revision))

\* The application behind the receipt has the content the user confirmed last.
SubmittedAsConfirmed ==
    LET d == checkpoint.draft
    IN d # None => (d.status = "submitted" => ReceiptOf(d) \in receipts)
=============================================================================
