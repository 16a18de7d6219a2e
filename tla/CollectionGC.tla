------------------------------ MODULE CollectionGC ------------------------------
(***************************************************************************)
(* PgVectorCollectionGCManager: mark records the intent to delete one      *)
(* unreferenced, retained collection; sweep deletes it later if nothing    *)
(* changed since.  Both lock the lease control row first, which also       *)
(* serialises them on the mark row, so that row's own lock is left out.    *)
(* plan and status only read.                                              *)
(***************************************************************************)
EXTENDS VectorTables

CONSTANTS
    Retention,      \* retention_seconds, at least 0
    Grace           \* sweep_grace_seconds, at least 1 clock unit

ASSUME GCAssumption ==
    /\ Retention \in Nat
    /\ Grace \in Nat \ {0}

VARIABLE gc         \* the transaction of each collector

GCPhases ==
    {"idle",
     "markBegun", "markLocked", "markChecked",
     "sweepBegun", "sweepLocked", "sweepChecked", "sweepReady"}

GCRow == [phase : GCPhases, collection : Collections \cup {None},
          token : Nat, begun : Times]
IdleGC == [phase |-> "idle", collection |-> None, token |-> 0, begun |-> 0]

GCTypeOK == gc \in [Collectors -> GCRow]
GCInit == gc = [k \in Collectors |-> IdleGC]

GCIn(k, phase) == gc[k].phase = phase
GCGoTo(k, phase) == gc' = [gc EXCEPT ![k].phase = phase]
Candidate(k) == gc[k].collection

-----------------------------------------------------------------------------
(* mark                                                                     *)

MarkBegin(k, c) ==
    /\ GCIn(k, "idle")
    /\ gc' = [gc EXCEPT ![k] = [phase |-> "markBegun", collection |-> c,
                                token |-> 0, begun |-> now]]
    /\ UNCHANGED tables

MarkLock(k) ==
    /\ GCIn(k, "markBegun")
    /\ LockLease(k, Candidate(k))
    /\ ~Active(Candidate(k), gc[k].begun)
    /\ GCGoTo(k, "markLocked")
    /\ UNCHANGED <<now, rows, lease, pointer, pointerLock, history, mark>>

MarkCheckReferences(k) ==
    /\ GCIn(k, "markLocked")
    /\ ~Referenced(Candidate(k))
    /\ GCGoTo(k, "markChecked")
    /\ UNCHANGED tables

\* _require_retained_collection
Retained(c, ts) ==
    /\ RecordCount(c) > 0
    /\ LastActivity(c) <= ts - Retention

\* The existing mark is returned as it is when nothing it recorded has changed.
StillMarked(c) ==
    /\ mark[c].token > 0
    /\ mark[c].swept = 0
    /\ mark[c].fence = lease[c].fence
    /\ mark[c].count = RecordCount(c)
    /\ mark[c].activity = LastActivity(c)

\* mark_token is a fresh uuid; numbering the marks of a collection stands for it.
\* The grace period is added to the time of BEGIN.
Marked(c, ts) ==
    [token |-> mark[c].token + 1, fence |-> lease[c].fence, count |-> RecordCount(c),
     activity |-> LastActivity(c), marked |-> ts, sweepAfter |-> ts + Grace, swept |-> 0]

MarkCommit(k) ==
    LET c == Candidate(k)
        ts == gc[k].begun
    IN /\ GCIn(k, "markChecked")
       /\ Retained(c, ts)
       /\ mark' = IF StillMarked(c) THEN mark
                  ELSE [mark EXCEPT ![c] = Marked(c, ts)]
       /\ UnlockLeases(k)
       /\ gc' = [gc EXCEPT ![k] = IdleGC]
       /\ UNCHANGED <<now, rows, lease, pointer, pointerLock, history>>

-----------------------------------------------------------------------------
(* sweep                                                                    *)

\* The caller presents a token some mark of the collection returned.
SweepBegin(k, c) ==
    /\ GCIn(k, "idle")
    /\ \E token \in 1 .. mark[c].token :
           gc' = [gc EXCEPT ![k] = [phase |-> "sweepBegun", collection |-> c,
                                    token |-> token, begun |-> now]]
    /\ UNCHANGED tables

SweepLock(k) ==
    LET c == Candidate(k)
    IN /\ GCIn(k, "sweepBegun")
       /\ LockLease(k, c)
       /\ mark[c].token = gc[k].token
       /\ mark[c].swept = 0
       /\ ~Active(c, gc[k].begun)
       /\ GCGoTo(k, "sweepLocked")
       /\ UNCHANGED <<now, rows, lease, pointer, pointerLock, history, mark>>

\* A sweep repeated with the token of a swept mark returns its receipt.
SweepReplay(k) ==
    LET c == Candidate(k)
    IN /\ GCIn(k, "sweepBegun")
       /\ leaseLock[c] = None
       /\ mark[c].token = gc[k].token
       /\ mark[c].swept > 0
       /\ gc' = [gc EXCEPT ![k] = IdleGC]
       /\ UNCHANGED tables

\* Mutants: the generation is not compared; the grace period is not waited for.
AnyGeneration(c) == TRUE
ReadyAtOnce(c, ts) == TRUE

SameGeneration(c) == lease[c].fence = mark[c].fence
Ready(c, ts) == mark[c].sweepAfter <= ts

\* Mutant: the release aliases are not looked at again.
SweepWithoutReferences(k) ==
    /\ GCIn(k, "sweepLocked")
    /\ SameGeneration(Candidate(k))
    /\ Ready(Candidate(k), gc[k].begun)
    /\ GCGoTo(k, "sweepChecked")
    /\ UNCHANGED tables

SweepCheckReferences(k) ==
    LET c == Candidate(k)
    IN /\ GCIn(k, "sweepLocked")
       /\ ~Referenced(c)
       /\ SameGeneration(c)
       /\ Ready(c, gc[k].begun)
       /\ GCGoTo(k, "sweepChecked")
       /\ UNCHANGED tables

VectorsAsMarked(c) ==
    /\ RecordCount(c) = mark[c].count
    /\ LastActivity(c) = mark[c].activity
    /\ VectorsUpdated(c) <= mark[c].marked

SweepCheckVectors(k) ==
    /\ GCIn(k, "sweepChecked")
    /\ VectorsAsMarked(Candidate(k))
    /\ GCGoTo(k, "sweepReady")
    /\ UNCHANGED tables

\* DELETE, compare the number of deleted rows, write the receipt, commit.
SweepCommit(k) ==
    LET c == Candidate(k)
    IN /\ GCIn(k, "sweepReady")
       /\ RecordCount(c) = mark[c].count
       /\ rows' = [rows EXCEPT ![c] = [r \in RecordIds |-> NoRow]]
       /\ mark' = [mark EXCEPT ![c].swept = gc[k].begun]
       /\ UnlockLeases(k)
       /\ gc' = [gc EXCEPT ![k] = IdleGC]
       /\ UNCHANGED <<now, lease, pointer, pointerLock, history>>

\* A failed test, a lost connection or a dead process: roll back.
GCAborts(k) ==
    /\ ~GCIn(k, "idle")
    /\ UnlockLeases(k)
    /\ gc' = [gc EXCEPT ![k] = IdleGC]
    /\ UNCHANGED <<now, rows, lease, pointer, pointerLock, history, mark>>

Collector(k) ==
    \/ \E c \in Collections : MarkBegin(k, c)
    \/ MarkLock(k)
    \/ MarkCheckReferences(k)
    \/ MarkCommit(k)
    \/ \E c \in Collections : SweepBegin(k, c)
    \/ SweepLock(k)
    \/ SweepReplay(k)
    \/ SweepCheckReferences(k)
    \/ SweepCheckVectors(k)
    \/ SweepCommit(k)
    \/ GCAborts(k)

-----------------------------------------------------------------------------
(* Properties of the sweep                                                  *)

Sweeps(c) == mark'[c].swept > 0 /\ mark[c].swept = 0

\* A sweep deletes only what no alias can serve or roll back to, although it
\* tested the references in an earlier statement than the DELETE.
SweepSparesReferenced ==
    [][\A c \in Collections : Sweeps(c) => ~Referenced(c)]_<<mark, rows, pointer>>

\* A sweep never deletes the work of a generation that started after the mark:
\* not during its lease, not after its release.
SweepSparesNewerGenerations ==
    [][\A c \in Collections :
          Sweeps(c) => lease[c].fence = mark[c].fence]_<<mark, rows, lease>>

\* What a sweep deletes was last written before the mark was taken: nobody's
\* later write disappears with it (the count and time tests of sweep).  Where
\* every writer holds the lease this follows from the one above.
SweepDeletesOnlyMarkedContent ==
    [][\A c \in Collections :
          Sweeps(c) => VectorsUpdated(c) <= mark[c].marked]_<<mark, rows>>

\* A receipt stands for the deletion of the marked number of records after the
\* whole grace period; it is neither withdrawn nor written twice for one token.
ReceiptIsFinal ==
    [][\A c \in Collections :
          /\ Sweeps(c) => RecordCount(c) = mark[c].count
                          /\ mark[c].marked + Grace <= now
          /\ mark[c].swept > 0 /\ mark'[c] # mark[c]
             => mark'[c].token > mark[c].token]_<<mark, rows, now>>

\* A sweep deletes what its mark described and nothing younger, and says so once.
SweepsFollowTheirMark == SweepSparesNewerGenerations /\ ReceiptIsFinal
=============================================================================
