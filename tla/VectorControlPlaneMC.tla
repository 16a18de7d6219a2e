-------------------------- MODULE VectorControlPlaneMC --------------------------
(* Model values of the control plane that may be exchanged for one another.  *)
EXTENDS VectorControlPlane, TLC

Interchangeable ==
    Permutations(Collections) \cup Permutations(Fingerprints)
    \cup Permutations(Builders) \cup Permutations(Operators)
    \cup Permutations(Collectors) \cup Permutations(Aliases)

\* The tables after earlier builds were released: every collection holds the
\* first corpus Build assigns to it, as generation 1 left it at time 1.
SeededInit ==
    /\ \E build \in [Collections -> Corpora] :
          rows = [c \in Collections |-> [r \in RecordIds |->
                     [fingerprint |-> build[c][r],
                      updated |-> IF build[c][r] = None THEN 0 ELSE 1]]]
    /\ now = 1
    /\ lease = [c \in Collections |->
           [owner |-> None, fence |-> 1, acquired |-> 1, renewed |-> 1,
            expires |-> 0, released |-> 1]]
    /\ leaseLock = [c \in Collections |-> None]
    /\ pointer = [a \in Aliases |-> NoPointer]
    /\ pointerLock = [a \in Aliases |-> None]
    /\ history = [a \in Aliases |-> {}]
    /\ mark = [c \in Collections |-> NoMark]
    /\ LeaseInit /\ ReleaseInit /\ GCInit

SeededSpec == SeededInit /\ [][Next]_vars
=============================================================================
