---------------------------- MODULE PostgresSession ----------------------------
(***************************************************************************)
(* One session in PostgresAgentStateStore and                              *)
(* PostgresConversationMemoryStore, written by several instances of the    *)
(* application: its head with turn, version and tombstone, the revisions   *)
(* of its drafts and its conversation.  Every mutation is one transaction  *)
(* that locks the row of agent_sessions first.  Sessions share no row:     *)
(* draft ids and message ids digest the session id.                        *)
(***************************************************************************)
EXTENDS PostgresPool, Integers, FiniteSets

CONSTANTS
    Refs,            \* (draft_id, revision)
    Bodies,          \* what a draft says, but for its warnings
    Payloads,        \* the drafts instances save
    MaxStoredTurns,  \* turns of conversation the store keeps
    MaxTurn,         \* bound: turns of the session
    MaxAppends       \* bound: turns appended between two clears

VARIABLES
    head,      \* the row of agent_sessions
    drafts,    \* application_draft_snapshots
    messages,  \* conversation_messages: the turn numbers stored
    said,      \* history variable: turns appended since the last clear
    rowLock,   \* holder of the row lock of agent_sessions
    tx         \* the transaction of each instance

sessionVars == <<head, drafts, messages, said, rowLock, tx>>

-----------------------------------------------------------------------------
(* Data                                                                     *)

Statuses == {"incomplete", "waiting", "confirmed", "submitted", "cancelled"}
Phases == {"idle", "collecting", "awaiting", "confirmed", "submitted", "cancelled"}
\* What the warnings of a draft say of its confirmation.
Warnings == {"unconfirmed", "confirmed", "submitted"}
Draft == [ref : Refs, body : Bodies, warning : Warnings, status : Statuses]

ASSUME SessionAssumption ==
    /\ Payloads \subseteq Draft
    /\ None \notin Refs \cup Draft \cup Instances
    /\ MaxStoredTurns \in Nat \ {0}
    /\ MaxTurn \in Nat
    /\ MaxAppends \in Nat

\* The phase stands for what else a turn writes (pending_confirmation, backend).
Head == [turn : Nat, phase : Phases, ref : Refs \cup {None},
         version : Nat, deleted : BOOLEAN]

\* turn, phase, draft: the arguments; read: state_version as read; head: the row
\* as written.
Stages == {"idle", "headRead", "headSaved", "turnNumbered", "tombstoning"}
Tx == [at : Stages, turn : Nat, phase : Phases, draft : Draft \cup {None},
       read : Nat, head : Head \cup {None}]
NoTx == [at |-> "idle", turn |-> 0, phase |-> "idle", draft |-> None,
         read |-> 0, head |-> None]

SessionTypeOK ==
    /\ head \in Head \cup {None}
    /\ drafts \subseteq Draft
    /\ messages \subseteq Nat
    /\ said \in Nat
    /\ rowLock \in Instances \cup {None}
    /\ tx \in [Instances -> Tx]

SessionInit ==
    /\ head = None
    /\ drafts = {}
    /\ messages = {}
    /\ said = 0
    /\ rowLock = None
    /\ tx = [p \in Instances |-> NoTx]

PhaseOf(status) ==
    CASE status = "incomplete" -> "collecting"
      [] status = "waiting" -> "awaiting"
      [] OTHER -> status

\* _ALLOWED_DRAFT_STATUS_TRANSITIONS
Allowed(status) ==
    CASE status = "incomplete" -> {"cancelled"}
      [] status = "waiting" -> {"confirmed", "cancelled"}
      [] status = "confirmed" -> {"submitted", "cancelled"}
      [] OTHER -> {}

\* _draft_content_identity leaves out the fields of the life cycle, not the
\* warnings.
ContentIdentity(d) == <<d.ref, d.body, d.warning>>

-----------------------------------------------------------------------------
(* Transactions.  A mutation that raises writes nothing; where it raises      *)
(* before its first write it is no step at all.                               *)

At(p, stage) == tx[p].at = stage

\* The connection context commits or rolls back, which releases the lock.
Ends(p) ==
    /\ tx' = [tx EXCEPT ![p] = NoTx]
    /\ rowLock' = IF rowLock = p THEN None ELSE rowLock

Continues(p, call, stage) ==
    /\ tx' = [tx EXCEPT ![p] = [call EXCEPT !.at = stage]]
    /\ rowLock' = p

TablesUnchanged == UNCHANGED <<head, drafts, messages, said>>

\* The process dies, the connection breaks, or the caller is cancelled.
RollBack(p) ==
    /\ ~At(p, "idle")
    /\ Ends(p)
    /\ TablesUnchanged

-----------------------------------------------------------------------------
(* save_route_state                                                         *)

Call(turn, phase, draft) == [NoTx EXCEPT !.turn = turn, !.phase = phase, !.draft = draft]

\* What workflow turns save: a draft with its phase, or with phase idle after a
\* request that generated none.
Calls ==
    {Call(t, "idle", None) : t \in 0 .. MaxTurn}
    \cup {Call(t, phase, d) : t \in 0 .. MaxTurn, d \in Payloads, phase \in Phases}
SaveCalls == {c \in Calls : c.draft # None => c.phase \in {"idle", PhaseOf(c.draft.status)}}

RefOf(draft) == IF draft = None THEN None ELSE draft.ref

\* The row the call writes, with version 1 or the next one.
Projected(call, version) ==
    [turn |-> call.turn, phase |-> call.phase, ref |-> RefOf(call.draft),
     version |-> version, deleted |-> FALSE]

\* INSERT ... ON CONFLICT DO NOTHING, which waits for a first turn in flight.
InsertHead(p, call) ==
    /\ At(p, "idle")
    /\ head = None
    /\ rowLock = None
    /\ Continues(p, [call EXCEPT !.head = Projected(call, 1)], "headSaved")
    /\ TablesUnchanged

NewerTurn(turn) == turn > head.turn

\* The row exists: SELECT ... FOR UPDATE and the tests of what it returns.
LockHead(p, call) ==
    /\ At(p, "idle")
    /\ head # None
    /\ rowLock = None
    /\ ~head.deleted
    /\ NewerTurn(call.turn)
    /\ Continues(p, [call EXCEPT !.read = head.version], "headRead")
    /\ TablesUnchanged

\* The same turn with the same projection leaves the head as it is.
RepeatTurn(p, call) ==
    /\ At(p, "idle")
    /\ head # None
    /\ rowLock = None
    /\ ~head.deleted
    /\ call.turn = head.turn
    /\ Projected(call, head.version) = head
    /\ Continues(p, [call EXCEPT !.head = head], "headSaved")
    /\ TablesUnchanged

\* UPDATE ... WHERE state_version = expected AND deleted_at IS NULL
UpdateHead(p) ==
    /\ At(p, "headRead")
    /\ rowLock \in {None, p}
    /\ IF head.version = tx[p].read /\ ~head.deleted
       THEN Continues(p, [tx[p] EXCEPT !.head = Projected(tx[p], head.version + 1)],
                      "headSaved")
       ELSE Ends(p)
    /\ TablesUnchanged

Stored(ref) == {d \in drafts : d.ref = ref}

\* Mutant: the status of a stored revision is not compared.
AcceptsAnyStatus(d) == \A e \in Stored(d.ref) : ContentIdentity(e) = ContentIdentity(d)

\* _save_draft_revision: a new revision, the same payload again, or the same
\* content one step further.
Accepts(d) ==
    \A e \in Stored(d.ref) :
        \/ e = d
        \/ ContentIdentity(e) = ContentIdentity(d) /\ d.status \in Allowed(e.status)

\* The draft is the second write of the transaction; then it commits.
SaveDraft(p) ==
    LET d == tx[p].draft
    IN /\ At(p, "headSaved")
       /\ d # None => Accepts(d)
       /\ head' = tx[p].head
       /\ drafts' = IF d = None THEN drafts ELSE (drafts \ Stored(d.ref)) \cup {d}
       /\ Ends(p)
       /\ UNCHANGED <<messages, said>>

DraftRefused(p) ==
    LET d == tx[p].draft
    IN /\ At(p, "headSaved")
       /\ d # None
       /\ ~Accepts(d)
       /\ Ends(p)
       /\ TablesUnchanged

-----------------------------------------------------------------------------
(* delete_session.  A session without a row is left without a tombstone.    *)

LockTombstone(p) ==
    /\ At(p, "idle")
    /\ head # None
    /\ rowLock = None
    /\ Continues(p, [NoTx EXCEPT !.read = head.version], "tombstoning")
    /\ TablesUnchanged

\* The version is compared again; a second deletion only repeats the DELETE.
Tombstone(p) ==
    /\ At(p, "tombstoning")
    /\ head.deleted \/ head.version = tx[p].read
    /\ head' = IF head.deleted THEN head
               ELSE [head EXCEPT !.deleted = TRUE, !.version = @ + 1]
    /\ drafts' = {}
    /\ Ends(p)
    /\ UNCHANGED <<messages, said>>

-----------------------------------------------------------------------------
(* append_turn and clear_session of the conversation                        *)

LatestTurn == IF messages = {} THEN 0
              ELSE CHOOSE n \in messages : \A m \in messages : n >= m

\* Mutant: two appends may read the same MAX(turn_number).
NumberTurnUnlocked(p) ==
    /\ At(p, "idle")
    /\ said < MaxAppends
    /\ head # None
    /\ ~head.deleted
    /\ tx' = [tx EXCEPT ![p] = [NoTx EXCEPT !.at = "turnNumbered", !.turn = LatestTurn + 1]]
    /\ UNCHANGED rowLock
    /\ TablesUnchanged

\* SELECT ... FOR UPDATE of a live session, then MAX(turn_number) + 1
NumberTurn(p) ==
    /\ At(p, "idle")
    /\ said < MaxAppends
    /\ head # None
    /\ ~head.deleted
    /\ rowLock = None
    /\ Continues(p, [NoTx EXCEPT !.turn = LatestTurn + 1], "turnNumbered")
    /\ TablesUnchanged

\* Turns before turn_number - max_stored_turns + 1 are deleted.
Trimmed(n) == {m \in messages \cup {n} : m >= n - MaxStoredTurns + 1}

\* Both rows of the turn are inserted or neither.
InsertTurn(p) ==
    LET n == tx[p].turn
    IN /\ At(p, "turnNumbered")
       /\ IF n \in messages
          THEN Ends(p) /\ TablesUnchanged
          ELSE /\ messages' = Trimmed(n)
               /\ said' = said + 1
               /\ Ends(p)
               /\ UNCHANGED <<head, drafts>>

\* The rows of a clear are deleted whether the session is live or not.
ClearConversation(p) ==
    /\ At(p, "idle")
    /\ rowLock = None
    /\ messages' = {}
    /\ said' = 0
    /\ UNCHANGED <<head, drafts, rowLock, tx>>

SessionStep(p) ==
    \/ \E call \in SaveCalls :
          InsertHead(p, call) \/ LockHead(p, call) \/ RepeatTurn(p, call)
    \/ UpdateHead(p)
    \/ SaveDraft(p)
    \/ DraftRefused(p)
    \/ LockTombstone(p)
    \/ Tombstone(p)
    \/ NumberTurn(p)
    \/ InsertTurn(p)
    \/ ClearConversation(p)
    \/ RollBack(p)

SessionSpec == SessionInit /\ [][\E p \in Instances : SessionStep(p)]_sessionVars

-----------------------------------------------------------------------------
(* Properties                                                               *)

\* Whatever turns the instances save, in whatever order they arrive, retried or
\* rolled back: the head of a session never goes back to an older turn, a turn
\* is never bound to a second projection, every change counts one version, and
\* after a tombstone nothing changes at all (_save_session_head,
\* delete_session).
HeadMovesForward ==
    [][head # None =>
          /\ head'.version = head.version + 1
          /\ ~head.deleted
          /\ head'.deleted \/ head'.turn > head.turn]_head

\* Head and draft are written by different statements, and a retry of a turn may
\* write the draft alone; still the head of a live session names a stored
\* revision and shows its present status, and a deleted session has no drafts.
HeadMatchesDraft ==
    head # None =>
        /\ head.deleted => drafts = {}
        /\ ~head.deleted /\ head.ref # None =>
              \E d \in Stored(head.ref) : head.phase \in {"idle", PhaseOf(d.status)}

\* A stored revision keeps its content and never returns to an earlier status;
\* it disappears with its session only (_validate_draft_transition).
DraftsOnlyAdvance ==
    [][\A d \in drafts \ drafts' :
          \/ head'.deleted
          \/ \E e \in drafts' : /\ ContentIdentity(e) = ContentIdentity(d)
                                /\ e.status \in Allowed(d.status)]_drafts

\* Neither the head of a session nor a revision of its drafts returns to what it was.
NothingMovesBack == HeadMovesForward /\ DraftsOnlyAdvance

\* Concurrent appends, trims, rollbacks and clears lose no turn and keep no gap:
\* the store holds exactly the last turns appended since the last clear
\* (append_turn).
MemoryIsNewest ==
    messages = {n \in 1 .. said : n > said - MaxStoredTurns}

\* Neither of the two lags behind the session it belongs to.
StoresAreCurrent == HeadMatchesDraft /\ MemoryIsNewest

\* The life-cycle changes the workflow needs are allowed
\* (docs/multi_instance_shared_state.md:330): the confirmation of a waiting draft,
\* as confirm_draft makes it, is not refused (_draft_content_identity).
ConfirmedByWorkflow(d) == [d EXCEPT !.status = "confirmed", !.warning = "confirmed"]
ConfirmationIsStored ==
    [][\A p \in Instances, d \in drafts :
          d.status = "waiting" /\ tx[p].draft = ConfirmedByWorkflow(d)
              => ~DraftRefused(p)]_tx
=============================================================================
