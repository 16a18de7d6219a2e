---------------------------- MODULE LocalSubmission ----------------------------
(***************************************************************************)
(* The submitter inside one process: receipts in memory, or in the SQLite   *)
(* file that several processes may share.  A call is checked, then looks    *)
(* its key and its draft up and adds the receipt and an audit record, all   *)
(* under one lock or in one transaction.                                    *)
(***************************************************************************)
EXTENDS Naturals, Sequences, FiniteSets

CONSTANTS
    Calls,        \* what callers ask for
    MaxAnswers    \* bound: answers in one behaviour

ASSUME LocalSubmissionAssumption == MaxAnswers \in Nat

VARIABLES
    stored,  \* _by_idempotency_key, or the rows of approval_submissions
    trail    \* the audit records, oldest first

localSubmissionVars == <<stored, trail>>

LocalSubmissionInit ==
    /\ stored = {}
    /\ trail = <<>>

-----------------------------------------------------------------------------
\* A call: the command, the caller, the session, the key, and the draft with its owner,
\* creator, session, status and what is wrong with it.
Explicit(call) == call.command = "submit"

\* _validate_identity
OwnDraft(call) ==
    /\ call.draft.applicant = call.caller
    /\ call.draft.creator = call.caller
    /\ call.draft.session = call.session

\* _validate_first_submission
Submittable(draft) ==
    /\ draft.status = "confirmed"
    /\ draft.confirmed
    /\ ~draft.submitted
    /\ draft.defects = {}

\* Mutant: the draft of a receipt is compared only when its key comes again.
UnboundAlways(d) == TRUE

Unbound(d) == \A s \in stored : s.draft # d

BoundTo(key) == {s \in stored : s.key = key}

SubmissionId == Cardinality(stored) + 1

Audited(event, s) == trail' = Append(trail, [event |-> event, id |-> s.id, draft |-> s.draft])

\* The same key with the same draft, session and caller: the receipt is found again,
\* whatever has become of the draft.
Replay(call) ==
    /\ Explicit(call)
    /\ OwnDraft(call)
    /\ \E s \in BoundTo(call.key) :
          /\ s.draft = call.draft.id
          /\ s.employee = call.caller
          /\ s.session = call.session
          /\ Audited("idempotent_replay", s)
    /\ UNCHANGED stored

Submit(call) ==
    /\ Explicit(call)
    /\ OwnDraft(call)
    /\ BoundTo(call.key) = {}
    /\ Unbound(call.draft.id)
    /\ Submittable(call.draft)
    /\ LET s == [key |-> call.key, draft |-> call.draft.id, id |-> SubmissionId,
                 employee |-> call.caller, session |-> call.session]
       IN  /\ stored' = stored \cup {s}
           /\ Audited("submitted", s)

LocalSubmissionNext ==
    /\ Len(trail) < MaxAnswers
    /\ \E call \in Calls : Replay(call) \/ Submit(call)

-----------------------------------------------------------------------------
(* Properties                                                               *)

\* No draft has two receipts and no key two drafts, and the audit tells it so: each
\* receipt has one record of its submission, before every replay, and they all name
\* its draft (submit, _submit_transaction).
ReceiptsAreAudited ==
    /\ \A s, t \in stored : s.draft = t.draft \/ s.key = t.key \/ s.id = t.id => s = t
    /\ \A s \in stored :
          LET entries == {i \in DOMAIN trail : trail[i].id = s.id}
          IN  /\ entries # {}
              /\ \A i \in entries :
                    /\ trail[i].draft = s.draft
                    /\ trail[i].event = "submitted" <=> \A j \in entries : i <= j
================================================================================
