----------------------------- MODULE PostgresStores -----------------------------
(***************************************************************************)
(* The three PostgreSQL repositories over one pool: every instance has one  *)
(* transaction open, on the session or on a submission.  A reset of the     *)
(* session leaves receipts and audit records alone.                         *)
(***************************************************************************)
EXTENDS PostgresSession, PostgresSubmission

storeVars == <<head, drafts, messages, said, rowLock, tx,
               receipts, audits, sub, answers, calls>>

PostgresTypeOK == SessionTypeOK /\ SubmissionTypeOK

StoresInit == SessionInit /\ SubmissionInit

OnSession(p) ==
    /\ Doing(p, "idle")
    /\ SessionStep(p)
    /\ UNCHANGED submissionVars

OnSubmission(p) ==
    /\ At(p, "idle")
    /\ SubmissionStep(p)
    /\ UNCHANGED sessionVars

StoresNext == \E p \in Instances : OnSession(p) \/ OnSubmission(p)

StoresSpec == StoresInit /\ [][StoresNext]_storeVars
=============================================================================
