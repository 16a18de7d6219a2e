-------------------------- MODULE PostgresSubmission --------------------------
(***************************************************************************)
(* PostgresMockApprovalSubmitter: several instances submit drafts, the     *)
(* same ones and with the same keys, each in one transaction at READ       *)
(* COMMITTED whose statements are steps of their own.  A SELECT does not   *)
(* see an uncommitted receipt and does not wait for it; the INSERT does.   *)
(***************************************************************************)
EXTENDS PostgresPool, Naturals, FiniteSets

CONSTANTS
    Keys,       \* idempotency keys
    Drafts,     \* draft ids; employee and session are those of the draft
    Ids,        \* submission ids
    MaxCalls    \* bound: calls of submit

ASSUME SubmissionAssumption == MaxCalls \in Nat

VARIABLES
    receipts,  \* committed rows of approval_submissions
    audits,    \* submission_audit_records: their number by receipt and event
    sub,       \* the transaction of each instance
    answers,   \* history variable: what callers have been told
    calls      \* calls so far

submissionVars == <<receipts, audits, sub, answers, calls>>

-----------------------------------------------------------------------------
Receipt == [key : Keys, draft : Drafts, id : Ids]

ASSUME NoReceiptAssumption == None \notin Receipt \cup Keys \cup Drafts

Events == {"submitted", "idempotent_replay"}
SubStages == {"idle", "byDraft", "inserting", "lost", "auditing", "committed"}
\* confirmed: _validate_first_submission passes.  row: the receipt inserted or
\* found and locked.
Sub == [at : SubStages, key : Keys \cup {None}, draft : Drafts \cup {None},
        confirmed : BOOLEAN, row : Receipt \cup {None}, event : Events]
NoSub == [at |-> "idle", key |-> None, draft |-> None, confirmed |-> FALSE,
          row |-> None, event |-> "submitted"]

SubmissionTypeOK ==
    /\ receipts \subseteq Receipt
    /\ audits \in [Ids -> [Events -> Nat]]
    /\ sub \in [Instances -> Sub]
    /\ answers \subseteq Receipt
    /\ calls \in 0 .. MaxCalls

SubmissionInit ==
    /\ receipts = {}
    /\ audits = [i \in Ids |-> [e \in Events |-> 0]]
    /\ sub = [p \in Instances |-> NoSub]
    /\ answers = {}
    /\ calls = 0

Doing(p, stage) == sub[p].at = stage

Goes(p, call, stage) == sub' = [sub EXCEPT ![p] = [call EXCEPT !.at = stage]]
Done(p) == sub' = [sub EXCEPT ![p] = NoSub]

\* A row found FOR UPDATE or inserted is locked until the transaction ends.
LockedByOther(p, r) ==
    \E q \in Instances \ {p} : Doing(q, "auditing") /\ sub[q].row = r

WithKey(k) == {r \in receipts : r.key = k}
WithDraft(d) == {r \in receipts : r.draft = d}

Replays(p, call, r) ==
    /\ ~LockedByOther(p, r)
    /\ Goes(p, [call EXCEPT !.row = r, !.event = "idempotent_replay"], "auditing")

-----------------------------------------------------------------------------
(* submit                                                                   *)

Request(k, d, c) == [NoSub EXCEPT !.key = k, !.draft = d, !.confirmed = c]

\* A key bound to another draft raises.
FindKey(p, call) ==
    /\ Doing(p, "idle")
    /\ calls < MaxCalls
    /\ calls' = calls + 1
    /\ \/ \E r \in WithKey(call.key) : r.draft = call.draft /\ Replays(p, call, r)
       \/ WithKey(call.key) = {} /\ Goes(p, call, "byDraft")
    /\ UNCHANGED <<receipts, audits, answers>>

\* A bound draft raises, and so does one that is not confirmed.
FindDraft(p) ==
    /\ Doing(p, "byDraft")
    /\ \A r \in WithDraft(sub[p].draft) : ~LockedByOther(p, r)
    /\ IF WithDraft(sub[p].draft) = {} /\ sub[p].confirmed
       THEN Goes(p, sub[p], "inserting")
       ELSE Done(p)
    /\ UNCHANGED <<receipts, audits, answers, calls>>

\* Mutant: there is no unique constraint on draft_id.
ClashesByKey(r, s) == r.key = s.key \/ r.id = s.id

\* Any of the three unique constraints of approval_submissions.
Clashes(r, s) == r.key = s.key \/ r.draft = s.draft \/ r.id = s.id

Uncommitted(q) == Doing(q, "auditing") /\ sub[q].event = "submitted"

\* INSERT ... ON CONFLICT DO NOTHING waits for a clashing insert in flight.
Insert(p) ==
    /\ Doing(p, "inserting")
    /\ \E i \in Ids :
          LET r == [key |-> sub[p].key, draft |-> sub[p].draft, id |-> i]
          IN /\ \A q \in Instances \ {p} : Uncommitted(q) => ~Clashes(r, sub[q].row)
             /\ IF \E s \in receipts : Clashes(r, s)
                THEN Goes(p, sub[p], "lost")
                ELSE Goes(p, [sub[p] EXCEPT !.row = r], "auditing")
    /\ UNCHANGED <<receipts, audits, answers, calls>>

\* The winner had the same key: its receipt is replayed.
FindWinner(p) ==
    /\ Doing(p, "lost")
    /\ \E r \in WithKey(sub[p].key) : r.draft = sub[p].draft /\ Replays(p, sub[p], r)
    /\ UNCHANGED <<receipts, audits, answers, calls>>

\* Another draft has the key, another key the draft, or the id exists.
LostForGood(p) ==
    /\ Doing(p, "lost")
    /\ \A r \in WithKey(sub[p].key) : r.draft # sub[p].draft
    /\ \A r \in WithKey(sub[p].key) \cup WithDraft(sub[p].draft) : ~LockedByOther(p, r)
    /\ Done(p)
    /\ UNCHANGED <<receipts, audits, answers, calls>>

Audited(p) == [audits EXCEPT ![sub[p].row.id][sub[p].event] = @ + 1]

\* Mutant: the receipt is committed before its audit record.
ReceiptFirst(p) ==
    /\ Uncommitted(p)
    /\ receipts' = receipts \cup {sub[p].row}
    /\ Goes(p, [sub[p] EXCEPT !.event = "idempotent_replay"], "auditing")
    /\ UNCHANGED <<audits, answers, calls>>

\* _insert_audit, and the commit of both.
Commit(p) ==
    /\ Doing(p, "auditing")
    /\ receipts' = receipts \cup {sub[p].row}
    /\ audits' = Audited(p)
    /\ Goes(p, sub[p], "committed")
    /\ UNCHANGED <<answers, calls>>

Answer(p) ==
    /\ Doing(p, "committed")
    /\ answers' = answers \cup {sub[p].row}
    /\ Done(p)
    /\ UNCHANGED <<receipts, audits, calls>>

\* The process dies or the connection breaks, before the commit or after it; or
\* the audit id exists already.
Breaks(p) ==
    /\ ~Doing(p, "idle")
    /\ Done(p)
    /\ UNCHANGED <<receipts, audits, answers, calls>>

SubmissionStep(p) ==
    \/ \E k \in Keys, d \in Drafts, c \in BOOLEAN : FindKey(p, Request(k, d, c))
    \/ FindDraft(p)
    \/ Insert(p)
    \/ FindWinner(p)
    \/ LostForGood(p)
    \/ Commit(p)
    \/ Answer(p)
    \/ Breaks(p)

SubmissionSpec == SubmissionInit /\ [][\E p \in Instances : SubmissionStep(p)]_submissionVars

-----------------------------------------------------------------------------
(* Properties                                                               *)

\* However first submissions, replays and lost answers of several instances
\* interleave, receipts are only added, and no key, draft or id gets a second
\* one: the transactions implement the ledger (submit).
Ledger == INSTANCE ReceiptLedger WITH ledger <- receipts
ImplementsReceiptLedger == Ledger!LedgerSpec

\* Whoever was answered holds the one receipt of his key and draft, also when an
\* answer was lost and he asked again; and every receipt has the audit record of
\* its submission, once (submit, _insert_audit).
AnswersAreDurable ==
    /\ answers \subseteq receipts
    /\ \A i \in Ids : audits[i]["submitted"] =
           Cardinality({r \in receipts : r.id = i})
=============================================================================
