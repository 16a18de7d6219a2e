----------------------------- MODULE ReceiptLedger -----------------------------
(* What submissions promise, whatever database keeps them: receipts are only  *)
(* added, and a key, a draft and a submission id each occur in one receipt.   *)

CONSTANTS Keys, Drafts, Ids

VARIABLE ledger

Unused(k, d, i) == \A r \in ledger : r.key # k /\ r.draft # d /\ r.id # i

Issue(k, d, i) ==
    /\ Unused(k, d, i)
    /\ ledger' = ledger \cup {[key |-> k, draft |-> d, id |-> i]}

LedgerSpec ==
    /\ ledger = {}
    /\ [][\E k \in Keys, d \in Drafts, i \in Ids : Issue(k, d, i)]_ledger
=============================================================================
