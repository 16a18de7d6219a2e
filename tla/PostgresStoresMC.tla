---------------------------- MODULE PostgresStoresMC ----------------------------
(* Small instances of PostgresStores.  Draft a1 goes through its life cycle:   *)
(* the texts of the warnings differ as the workflow writes them, and once as   *)
(* the unit tests of the store do.  Draft a2 is another revision.              *)
EXTENDS PostgresStores, TLC

CONSTANTS a1, a2, b1

Revision(ref, warning, status) ==
    [ref |-> ref, body |-> b1, warning |-> warning, status |-> status]

TestPayloads ==
    {Revision(a1, "unconfirmed", "waiting"), Revision(a1, "unconfirmed", "confirmed"),
     Revision(a1, "confirmed", "confirmed"), Revision(a2, "unconfirmed", "incomplete")}

Interchangeable == Permutations(Instances) \cup Permutations(Ids)
                   \cup Permutations(Keys) \cup Permutations(Drafts)
=============================================================================
