------------------------------- MODULE ReleaseLog -------------------------------
(***************************************************************************)
(* What a release alias promises to the processes that resolve it: a log   *)
(* of immutable snapshots.  The alias serves the last one, and a rollback  *)
(* releases again the one before it.  Collections, leases, locks and the   *)
(* garbage collector do not appear: nothing but a release may be visible.  *)
(***************************************************************************)
EXTENDS Naturals, Sequences

CONSTANTS Aliases, Snapshots

VARIABLE log    \* for each alias, its releases in order

Release == [action : {"publish", "rollback"}, snapshot : Snapshots]

LogTypeOK == log \in [Aliases -> Seq(Release)]

Init == log = [a \in Aliases |-> <<>>]

Publish(a, s) ==
    log' = [log EXCEPT ![a] = Append(@, [action |-> "publish", snapshot |-> s])]

\* Rolling back twice returns to where one was.
Rollback(a) ==
    /\ Len(log[a]) > 1
    /\ log' = [log EXCEPT ![a] =
           Append(@, [action |-> "rollback", snapshot |-> @[Len(@) - 1].snapshot])]

Next == \E a \in Aliases : Rollback(a) \/ \E s \in Snapshots : Publish(a, s)

Spec == Init /\ [][Next]_log
=============================================================================
