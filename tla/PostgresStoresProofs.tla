-------------------------- MODULE PostgresStoresProofs --------------------------
(***************************************************************************)
(* The PostgreSQL stores for any number of instances, turns, drafts, keys  *)
(* and calls.  A transaction on the session holds its row from its first   *)
(* statement on, so what it read is still true when it writes; a           *)
(* submission holds no lock before it inserts, and the unique constraints  *)
(* decide instead.                                                         *)
(***************************************************************************)
EXTENDS PostgresStores, FiniteSetTheorems, TLAPS

-----------------------------------------------------------------------------
(* The session                                                              *)

\* The row is locked by whoever has a transaction on the session open.
RowIsLocked ==
    \A p \in Instances : rowLock = p <=> ~At(p, "idle")

\* The phase a turn saves is idle or that of its draft.
PhaseFits(call) ==
    call.draft # None => call.phase \in {"idle", PhaseOf(call.draft.status)}

\* A save that has read the row knows it: live, older, with this version.
ReadIsCurrent(p) ==
    At(p, "headRead") =>
        /\ head # None /\ ~head.deleted
        /\ NewerTurn(tx[p].turn)
        /\ tx[p].read = head.version
        /\ PhaseFits(tx[p])

\* The row a save has written follows the committed one: it is the first, the same
\* or that of a newer turn with the next version.
Follows(new) ==
    \/ head = None
    \/ head = new
    \/ /\ ~head.deleted
       /\ new.turn > head.turn
       /\ new.version = head.version + 1

SavedFollows(p) ==
    At(p, "headSaved") =>
        /\ tx[p].head \in Head
        /\ ~tx[p].head.deleted
        /\ tx[p].head.ref = RefOf(tx[p].draft)
        /\ tx[p].head.phase = tx[p].phase
        /\ PhaseFits(tx[p])
        /\ Follows(tx[p].head)

TombstoneIsCurrent(p) ==
    At(p, "tombstoning") => head # None /\ tx[p].read = head.version

NumberIsNext(p) ==
    At(p, "turnNumbered") => tx[p].turn = said + 1

TransactionIsCurrent(p) ==
    /\ ReadIsCurrent(p)
    /\ SavedFollows(p)
    /\ TombstoneIsCurrent(p)
    /\ NumberIsNext(p)

SessionInv ==
    /\ SessionTypeOK
    /\ RowIsLocked
    /\ \A p \in Instances : TransactionIsCurrent(p)
    /\ StoresAreCurrent

-----------------------------------------------------------------------------
(* Submissions                                                              *)

ReceiptsAreUnique ==
    \A r, s \in receipts : Clashes(r, s) => r = s

\* A submission has its key and draft from its first statement on; a receipt
\* inserted and not yet committed clashes with no other; a receipt replayed or
\* committed is in the table.
CallIsCurrent(p, c) ==
    /\ c.at \in {"byDraft", "inserting", "lost"} =>
          c.key \in Keys /\ c.draft \in Drafts /\ c.event = "submitted"
    /\ c.at = "auditing" /\ c.event = "idempotent_replay" => c.row \in receipts
    /\ c.at = "auditing" /\ c.event = "submitted" =>
          /\ c.row \in Receipt
          /\ \A s \in receipts : ~Clashes(c.row, s)
          /\ \A q \in Instances \ {p} : Uncommitted(q) => ~Clashes(c.row, sub[q].row)
    /\ c.at = "committed" => c.row \in receipts

SubmissionIsCurrent(p) == CallIsCurrent(p, sub[p])

SubmissionInv ==
    /\ SubmissionTypeOK
    /\ ReceiptsAreUnique
    /\ \A p \in Instances : SubmissionIsCurrent(p)
    /\ AnswersAreDurable

StoresInv == SessionInv /\ SubmissionInv

-----------------------------------------------------------------------------
(* Transactions on the session                                              *)

\* The calls of the workflow are arguments of a transaction, and fit their draft.
LEMMA CallFields ==
    ASSUME NEW c \in SaveCalls
    PROVE  c \in Tx /\ PhaseFits(c)
<1>1. NoTx \in Tx
  BY DEF NoTx, Tx, Stages, Phases
<1>2. c \in Tx
  <2>1. ASSUME NEW t \in Nat, NEW f \in Phases, NEW d \in Draft \cup {None}
        PROVE  Call(t, f, d) \in Tx
    BY DEF Call, NoTx, Tx, Stages, Phases
  <2>2. 0 .. MaxTurn \subseteq Nat /\ Payloads \subseteq Draft /\ "idle" \in Phases
    BY SessionAssumption DEF Phases
  <2> QED BY <2>1, <2>2 DEF SaveCalls, Calls
<1> QED BY <1>2 DEF SaveCalls, PhaseFits

\* An idle transaction has nothing to be true to.
LEMMA IdleIsCurrent ==
    ASSUME NEW p \in Instances, At(p, "idle")
    PROVE  TransactionIsCurrent(p)
BY DEF At, TransactionIsCurrent, ReadIsCurrent, SavedFollows, TombstoneIsCurrent, NumberIsNext

\* While one instance holds the row, or may take it, the others are idle.
LEMMA OthersAreIdle ==
    ASSUME SessionInv, NEW p \in Instances, rowLock \in {None, p},
           NEW q \in Instances \ {p}
    PROVE  At(q, "idle")
BY SessionAssumption DEF SessionInv, RowIsLocked

\* A transaction that begins or goes on holds the row alone.
LEMMA OneContinues ==
    ASSUME SessionInv, NEW p \in Instances, rowLock \in {None, p},
           NEW c \in Tx, NEW stage \in Stages \ {"idle"}, Continues(p, c, stage)
    PROVE  /\ tx' \in [Instances -> Tx]
           /\ rowLock' \in Instances \cup {None}
           /\ RowIsLocked'
           /\ tx'[p] = [c EXCEPT !.at = stage]
           /\ \A q \in Instances \ {p} : TransactionIsCurrent(q)'
<1>1. tx \in [Instances -> Tx]
  BY DEF SessionInv, SessionTypeOK
<1>2. tx' = [tx EXCEPT ![p] = [c EXCEPT !.at = stage]] /\ rowLock' = p
  BY DEF Continues
<1>3. [c EXCEPT !.at = stage] \in Tx /\ [c EXCEPT !.at = stage].at = stage
  BY DEF Tx
<1>4. /\ tx' \in [Instances -> Tx] /\ tx'[p] = [c EXCEPT !.at = stage]
      /\ \A q \in Instances \ {p} : tx'[q] = tx[q]
  BY <1>1, <1>2, <1>3
<1>5. \A q \in Instances \ {p} : At(q, "idle")'
  BY <1>4, OthersAreIdle DEF At
<1>6. \A q \in Instances \ {p} : TransactionIsCurrent(q)'
  BY <1>5 DEF At, TransactionIsCurrent, ReadIsCurrent, SavedFollows,
              TombstoneIsCurrent, NumberIsNext
<1>7. ~At(p, "idle")'
  BY <1>3, <1>4 DEF At
<1> QED BY <1>2, <1>4, <1>5, <1>6, <1>7 DEF RowIsLocked

\* A transaction that ends leaves everybody idle and the row free.
LEMMA OneEnds ==
    ASSUME SessionInv, NEW p \in Instances, ~At(p, "idle"), Ends(p)
    PROVE  /\ tx' \in [Instances -> Tx]
           /\ rowLock' \in Instances \cup {None}
           /\ RowIsLocked'
           /\ \A q \in Instances : TransactionIsCurrent(q)'
<1>1. tx \in [Instances -> Tx] /\ rowLock = p
  BY DEF SessionInv, SessionTypeOK, RowIsLocked
<1>2. NoTx \in Tx /\ NoTx.at = "idle"
  BY DEF NoTx, Tx, Stages, Phases
<1>3. tx' = [tx EXCEPT ![p] = NoTx] /\ rowLock' = None
  BY <1>1 DEF Ends
<1>4. tx' \in [Instances -> Tx] /\ \A q \in Instances : At(q, "idle")'
  BY <1>1, <1>2, <1>3, OthersAreIdle DEF At
<1>5. \A q \in Instances : TransactionIsCurrent(q)'
  BY <1>4 DEF At, TransactionIsCurrent, ReadIsCurrent, SavedFollows,
              TombstoneIsCurrent, NumberIsNext
<1> QED BY <1>3, <1>4, <1>5, SessionAssumption DEF RowIsLocked

\* A step that writes no table and keeps its transaction current.
LEMMA NoTableWritten ==
    ASSUME SessionInv, TablesUnchanged,
           tx' \in [Instances -> Tx], rowLock' \in Instances \cup {None},
           RowIsLocked', \A q \in Instances : TransactionIsCurrent(q)'
    PROVE  SessionInv'
BY DEF TablesUnchanged, SessionInv, SessionTypeOK, StoresAreCurrent, HeadMatchesDraft,
       MemoryIsNewest, Stored

\* The first statement of a save: the row is inserted, locked or found to say the
\* same already.
LEMMA SaveBeginsSafe ==
    ASSUME SessionInv, NEW p \in Instances, NEW c \in SaveCalls,
           InsertHead(p, c) \/ LockHead(p, c) \/ RepeatTurn(p, c)
    PROVE  SessionInv'
<1>1. c \in Tx /\ PhaseFits(c) /\ rowLock \in {None, p} /\ TablesUnchanged
  BY CallFields DEF InsertHead, LockHead, RepeatTurn
<1>3. CASE InsertHead(p, c)
  <2> DEFINE new == Projected(c, 1)
             d == [c EXCEPT !.head = new]
  <2>1. /\ new \in Head /\ ~new.deleted /\ new.ref = RefOf(c.draft)
        /\ new.phase = c.phase
    BY <1>1 DEF Projected, Head, Tx, RefOf, Draft
  <2>2. d \in Tx /\ d.head = new /\ d.draft = c.draft /\ d.phase = c.phase
    BY <1>1, <2>1 DEF Tx
  <2>3. Continues(p, d, "headSaved") /\ head = None
    BY <1>3 DEF InsertHead
  <2> HIDE DEF d, new
  <2>4. /\ tx' \in [Instances -> Tx] /\ rowLock' \in Instances \cup {None}
        /\ RowIsLocked'
        /\ tx'[p] = [d EXCEPT !.at = "headSaved"]
        /\ \A q \in Instances \ {p} : TransactionIsCurrent(q)'
    BY <1>1, <2>2, <2>3, OneContinues DEF Stages
  <2>5. /\ tx'[p].at = "headSaved" /\ tx'[p].head = new
        /\ tx'[p].draft = c.draft /\ tx'[p].phase = c.phase
    BY <2>2, <2>4 DEF Tx
  <2>6. TransactionIsCurrent(p)'
    BY <1>1, <2>1, <2>3, <2>5
       DEF TransactionIsCurrent, At, ReadIsCurrent, SavedFollows, TombstoneIsCurrent,
           NumberIsNext, Follows, PhaseFits, TablesUnchanged
  <2> QED BY <1>1, <2>4, <2>6, NoTableWritten
<1>4. CASE LockHead(p, c)
  <2> DEFINE d == [c EXCEPT !.read = head.version]
  <2>1. Continues(p, d, "headRead") /\ head # None /\ ~head.deleted /\ NewerTurn(c.turn)
    BY <1>4 DEF LockHead
  <2>2. head.version \in Nat
    BY <2>1 DEF SessionInv, SessionTypeOK, Head
  <2>3. /\ d \in Tx /\ d.read = head.version
        /\ d.draft = c.draft /\ d.phase = c.phase /\ d.turn = c.turn
    BY <1>1, <2>2 DEF Tx
  <2> HIDE DEF d
  <2>4. /\ tx' \in [Instances -> Tx] /\ rowLock' \in Instances \cup {None}
        /\ RowIsLocked'
        /\ tx'[p] = [d EXCEPT !.at = "headRead"]
        /\ \A q \in Instances \ {p} : TransactionIsCurrent(q)'
    BY <1>1, <2>1, <2>3, OneContinues DEF Stages
  <2>5. /\ tx'[p].at = "headRead" /\ tx'[p].read = head.version
        /\ tx'[p].draft = c.draft /\ tx'[p].phase = c.phase /\ tx'[p].turn = c.turn
    BY <2>3, <2>4 DEF Tx
  <2>6. TransactionIsCurrent(p)'
    BY <1>1, <2>1, <2>5
       DEF TransactionIsCurrent, At, ReadIsCurrent, SavedFollows, TombstoneIsCurrent,
           NumberIsNext, NewerTurn, PhaseFits, TablesUnchanged
  <2> QED BY <1>1, <2>4, <2>6, NoTableWritten
<1>5. CASE RepeatTurn(p, c)
  <2> DEFINE d == [c EXCEPT !.head = head]
  <2>1. /\ Continues(p, d, "headSaved") /\ head # None /\ ~head.deleted
        /\ Projected(c, head.version) = head
    BY <1>5 DEF RepeatTurn
  <2>2. head \in Head /\ head.ref = RefOf(c.draft) /\ head.phase = c.phase
    BY <2>1 DEF SessionInv, SessionTypeOK, Projected
  <2>3. d \in Tx /\ d.head = head /\ d.draft = c.draft /\ d.phase = c.phase
    BY <1>1, <2>2 DEF Tx
  <2> HIDE DEF d
  <2>4. /\ tx' \in [Instances -> Tx] /\ rowLock' \in Instances \cup {None}
        /\ RowIsLocked'
        /\ tx'[p] = [d EXCEPT !.at = "headSaved"]
        /\ \A q \in Instances \ {p} : TransactionIsCurrent(q)'
    BY <1>1, <2>1, <2>3, OneContinues DEF Stages
  <2>5. /\ tx'[p].at = "headSaved" /\ tx'[p].head = head
        /\ tx'[p].draft = c.draft /\ tx'[p].phase = c.phase
    BY <2>3, <2>4 DEF Tx
  <2>6. TransactionIsCurrent(p)'
    BY <1>1, <2>1, <2>2, <2>5
       DEF TransactionIsCurrent, At, ReadIsCurrent, SavedFollows, TombstoneIsCurrent,
           NumberIsNext, Follows, PhaseFits, TablesUnchanged
  <2> QED BY <1>1, <2>4, <2>6, NoTableWritten
<1> QED BY <1>3, <1>4, <1>5

\* The row cannot have changed since it was read: the update succeeds and writes
\* the next version.
LEMMA UpdateHeadSafe ==
    ASSUME SessionInv, NEW p \in Instances, UpdateHead(p)
    PROVE  SessionInv'
<1> DEFINE c == tx[p]
           new == Projected(c, head.version + 1)
           d == [c EXCEPT !.head = new]
<1>1. /\ At(p, "headRead") /\ rowLock \in {None, p} /\ TablesUnchanged
      /\ c \in Tx /\ head # None /\ head \in Head
  BY DEF UpdateHead, SessionInv, SessionTypeOK, TransactionIsCurrent, ReadIsCurrent
<1>2. /\ ~head.deleted /\ NewerTurn(c.turn) /\ c.read = head.version /\ PhaseFits(c)
  BY <1>1 DEF SessionInv, TransactionIsCurrent, ReadIsCurrent
<1>3. Continues(p, d, "headSaved")
  BY <1>2 DEF UpdateHead
<1>4. /\ new \in Head /\ ~new.deleted /\ new.ref = RefOf(c.draft)
      /\ new.phase = c.phase /\ new.turn = c.turn /\ new.version = head.version + 1
  BY <1>1 DEF Projected, Head, Tx, RefOf, Draft
<1>5. d \in Tx /\ d.head = new /\ d.draft = c.draft /\ d.phase = c.phase
  BY <1>1, <1>4 DEF Tx
<1>6. Follows(new)
  BY <1>2, <1>4 DEF Follows, NewerTurn
<1> HIDE DEF c, new, d
<1>7. /\ tx' \in [Instances -> Tx] /\ rowLock' \in Instances \cup {None}
      /\ RowIsLocked'
      /\ tx'[p] = [d EXCEPT !.at = "headSaved"]
      /\ \A q \in Instances \ {p} : TransactionIsCurrent(q)'
  BY <1>1, <1>3, <1>5, OneContinues DEF Stages
<1>8. /\ tx'[p].at = "headSaved" /\ tx'[p].head = new
      /\ tx'[p].draft = c.draft /\ tx'[p].phase = c.phase
  BY <1>5, <1>7 DEF Tx
<1>9. TransactionIsCurrent(p)'
  BY <1>1, <1>2, <1>4, <1>6, <1>8
     DEF TransactionIsCurrent, At, ReadIsCurrent, SavedFollows, TombstoneIsCurrent,
         NumberIsNext, Follows, PhaseFits, TablesUnchanged
<1> QED BY <1>1, <1>7, <1>9, NoTableWritten

\* Row and draft are committed together.
LEMMA SaveDraftSafe ==
    ASSUME SessionInv, NEW p \in Instances, SaveDraft(p)
    PROVE  SessionInv'
<1> DEFINE d == tx[p].draft
           new == tx[p].head
<1>1. /\ At(p, "headSaved") /\ head' = new /\ Ends(p) /\ UNCHANGED <<messages, said>>
      /\ drafts' = IF d = None THEN drafts ELSE (drafts \ Stored(d.ref)) \cup {d}
  BY DEF SaveDraft
<1>2. /\ new \in Head /\ ~new.deleted /\ new.ref = RefOf(d)
      /\ d # None => new.phase \in {"idle", PhaseOf(d.status)}
  BY <1>1 DEF SessionInv, TransactionIsCurrent, SavedFollows, PhaseFits
<1>3. d \in Draft \cup {None} /\ drafts \subseteq Draft
  BY DEF SessionInv, SessionTypeOK, Tx
<1>4. /\ tx' \in [Instances -> Tx] /\ rowLock' \in Instances \cup {None}
      /\ RowIsLocked' /\ \A q \in Instances : TransactionIsCurrent(q)'
  <2>1. ~At(p, "idle")
    BY <1>1 DEF At
  <2> QED BY <1>1, <2>1, OneEnds
<1> HIDE DEF d, new
<1>5. SessionTypeOK'
  BY <1>1, <1>2, <1>3, <1>4 DEF SessionInv, SessionTypeOK
<1>6. HeadMatchesDraft'
  <2>1. ASSUME new.ref # None
        PROVE  \E e \in drafts' : e.ref = new.ref /\ new.phase \in {"idle", PhaseOf(e.status)}
    <3>1. d # None /\ d.ref = new.ref
      BY <1>2, <2>1 DEF RefOf
    <3> QED BY <1>1, <1>2, <3>1
  <2> QED BY <1>1, <1>2, <2>1 DEF HeadMatchesDraft, Stored
<1>7. MemoryIsNewest'
  BY <1>1 DEF SessionInv, StoresAreCurrent, MemoryIsNewest
<1> QED BY <1>4, <1>5, <1>6, <1>7 DEF SessionInv, StoresAreCurrent

\* A save that is refused, an update that finds another row, or a connection lost.
LEMMA GivenUpSafe ==
    ASSUME SessionInv, NEW p \in Instances, ~At(p, "idle"), Ends(p), TablesUnchanged
    PROVE  SessionInv'
BY OneEnds, NoTableWritten

\* The tombstone takes the drafts with it.
LEMMA TombstoneSafe ==
    ASSUME SessionInv, NEW p \in Instances, Tombstone(p)
    PROVE  SessionInv'
<1>1. /\ At(p, "tombstoning") /\ Ends(p) /\ UNCHANGED <<messages, said>>
      /\ head' = IF head.deleted THEN head
                 ELSE [head EXCEPT !.deleted = TRUE, !.version = @ + 1]
      /\ drafts' = {}
  BY DEF Tombstone
<1>2. head # None /\ head \in Head
  BY <1>1 DEF SessionInv, SessionTypeOK, TransactionIsCurrent, TombstoneIsCurrent
<1>3. head' \in Head /\ head'.deleted
  <2>1. CASE head.deleted
    BY <2>1, <1>1, <1>2
  <2>2. CASE ~head.deleted
    <3> DEFINE v == head.version + 1
    <3>1. head' = [head EXCEPT !.deleted = TRUE, !.version = v]
      BY <2>2, <1>1
    <3>2. v \in Nat
      BY <1>2 DEF Head
    <3> HIDE DEF v
    <3> QED BY <3>1, <3>2, <1>2 DEF Head
  <2> QED BY <2>1, <2>2
<1>4. /\ tx' \in [Instances -> Tx] /\ rowLock' \in Instances \cup {None}
      /\ RowIsLocked' /\ \A q \in Instances : TransactionIsCurrent(q)'
  <2>1. ~At(p, "idle")
    BY <1>1 DEF At
  <2> QED BY <1>1, <2>1, OneEnds
<1>5. SessionTypeOK'
  BY <1>1, <1>3, <1>4 DEF SessionInv, SessionTypeOK
<1>6. HeadMatchesDraft' /\ MemoryIsNewest'
  BY <1>1, <1>3 DEF HeadMatchesDraft, SessionInv, StoresAreCurrent, MemoryIsNewest
<1> QED BY <1>4, <1>5, <1>6 DEF SessionInv, StoresAreCurrent

LEMMA LockTombstoneSafe ==
    ASSUME SessionInv, NEW p \in Instances, LockTombstone(p)
    PROVE  SessionInv'
<1> DEFINE d == [NoTx EXCEPT !.read = head.version]
<1>1. /\ rowLock \in {None, p} /\ head # None /\ TablesUnchanged
      /\ Continues(p, d, "tombstoning")
  BY DEF LockTombstone
<1>2. head.version \in Nat
  BY <1>1 DEF SessionInv, SessionTypeOK, Head
<1>3. d \in Tx /\ d.read = head.version
  BY <1>2 DEF NoTx, Tx, Stages, Phases
<1> HIDE DEF d
<1>4. /\ tx' \in [Instances -> Tx] /\ rowLock' \in Instances \cup {None}
      /\ RowIsLocked'
      /\ tx'[p] = [d EXCEPT !.at = "tombstoning"]
      /\ \A q \in Instances \ {p} : TransactionIsCurrent(q)'
  BY <1>1, <1>3, OneContinues DEF Stages
<1>5. tx'[p].at = "tombstoning" /\ tx'[p].read = head.version
  BY <1>3, <1>4 DEF Tx
<1>6. TransactionIsCurrent(p)'
  BY <1>1, <1>5
     DEF TransactionIsCurrent, At, ReadIsCurrent, SavedFollows, TombstoneIsCurrent,
         NumberIsNext, TablesUnchanged
<1> QED BY <1>1, <1>4, <1>6, NoTableWritten

\* The store knows how many turns were said: its newest is the last of them.
LEMMA LatestTurnIsLast ==
    ASSUME SessionInv
    PROVE  LatestTurn = said /\ said \in Nat
<1>1. /\ messages = {n \in 1 .. said : n > said - MaxStoredTurns}
      /\ said \in Nat /\ MaxStoredTurns \in Nat \ {0}
  BY SessionAssumption DEF SessionInv, SessionTypeOK, StoresAreCurrent, MemoryIsNewest
<1>2. CASE said = 0
  BY <1>1, <1>2 DEF LatestTurn
<1>3. CASE said # 0
  <2>1. said \in messages /\ \A m \in messages : said >= m
    BY <1>1, <1>3
  <2>2. \A n \in messages : (\A m \in messages : n >= m) => n = said
    BY <1>1, <2>1
  <2> QED BY <1>1, <2>1, <2>2 DEF LatestTurn
<1> QED BY <1>2, <1>3

LEMMA NumberTurnSafe ==
    ASSUME SessionInv, NEW p \in Instances, NumberTurn(p)
    PROVE  SessionInv'
<1> DEFINE d == [NoTx EXCEPT !.turn = LatestTurn + 1]
<1>1. rowLock \in {None, p} /\ TablesUnchanged /\ Continues(p, d, "turnNumbered")
  BY DEF NumberTurn
<1>2. d \in Tx /\ d.turn = said + 1
  <2>1. LatestTurn + 1 = said + 1 /\ said + 1 \in Nat
    BY LatestTurnIsLast
  <2> QED BY <2>1 DEF NoTx, Tx, Stages, Phases
<1> HIDE DEF d
<1>3. /\ tx' \in [Instances -> Tx] /\ rowLock' \in Instances \cup {None}
      /\ RowIsLocked'
      /\ tx'[p] = [d EXCEPT !.at = "turnNumbered"]
      /\ \A q \in Instances \ {p} : TransactionIsCurrent(q)'
  BY <1>1, <1>2, OneContinues DEF Stages
<1>4. tx'[p].at = "turnNumbered" /\ tx'[p].turn = said + 1
  BY <1>2, <1>3 DEF Tx
<1>5. TransactionIsCurrent(p)'
  BY <1>1, <1>4
     DEF TransactionIsCurrent, At, ReadIsCurrent, SavedFollows, TombstoneIsCurrent,
         NumberIsNext, TablesUnchanged
<1> QED BY <1>1, <1>3, <1>5, NoTableWritten

\* The number is still free when its turn is inserted, and the trim leaves the
\* newest turns.
LEMMA InsertTurnSafe ==
    ASSUME SessionInv, NEW p \in Instances, InsertTurn(p)
    PROVE  SessionInv'
<1> DEFINE n == tx[p].turn
<1>1. At(p, "turnNumbered") /\ n = said + 1
  BY DEF InsertTurn, SessionInv, TransactionIsCurrent, NumberIsNext
<1>2. /\ messages = {m \in 1 .. said : m > said - MaxStoredTurns}
      /\ said \in Nat /\ MaxStoredTurns \in Nat \ {0}
  BY SessionAssumption DEF SessionInv, SessionTypeOK, StoresAreCurrent, MemoryIsNewest
<1>3. n \notin messages
  BY <1>1, <1>2
<1>4. /\ messages' = Trimmed(n) /\ said' = said + 1
      /\ Ends(p) /\ UNCHANGED <<head, drafts>>
  BY <1>3 DEF InsertTurn
<1>5. messages' = {m \in 1 .. said + 1 : m > said + 1 - MaxStoredTurns}
  <2> HIDE DEF n
  <2>1. \A m : m \in messages' <=>
                m \in messages \cup {n} /\ m >= n - MaxStoredTurns + 1
    BY <1>4 DEF Trimmed
  <2>2. \A m : m \in messages' <=> m \in 1 .. said + 1 /\ m > said + 1 - MaxStoredTurns
    BY <2>1, <1>1, <1>2
  <2> QED BY <2>2
<1>6. messages' \subseteq Nat /\ said' \in Nat
  BY <1>2, <1>4, <1>5
<1>7. /\ tx' \in [Instances -> Tx] /\ rowLock' \in Instances \cup {None}
      /\ RowIsLocked' /\ \A q \in Instances : TransactionIsCurrent(q)'
  <2>1. ~At(p, "idle")
    BY <1>1 DEF At
  <2> QED BY <1>4, <2>1, OneEnds
<1>8. SessionTypeOK' /\ HeadMatchesDraft'
  BY <1>4, <1>6, <1>7
     DEF SessionInv, SessionTypeOK, StoresAreCurrent, HeadMatchesDraft, Stored
<1>9. MemoryIsNewest'
  BY <1>2, <1>4, <1>5 DEF MemoryIsNewest
<1> QED BY <1>7, <1>8, <1>9 DEF SessionInv, StoresAreCurrent

\* A clear takes the row, so no turn is numbered while it deletes.
LEMMA ClearConversationSafe ==
    ASSUME SessionInv, NEW p \in Instances, ClearConversation(p)
    PROVE  SessionInv'
<1>1. /\ rowLock = None /\ messages' = {} /\ said' = 0
      /\ UNCHANGED <<head, drafts, rowLock, tx>>
  BY DEF ClearConversation
<1>2. \A q \in Instances : At(q, "idle")
  BY <1>1, SessionAssumption DEF SessionInv, RowIsLocked
<1>3. \A q \in Instances : TransactionIsCurrent(q)'
  BY <1>1, <1>2 DEF At, TransactionIsCurrent, ReadIsCurrent, SavedFollows,
                     TombstoneIsCurrent, NumberIsNext
<1>4. SessionTypeOK' /\ RowIsLocked' /\ HeadMatchesDraft'
  BY <1>1 DEF SessionInv, SessionTypeOK, RowIsLocked, At, StoresAreCurrent,
              HeadMatchesDraft, Stored
<1>5. MemoryIsNewest'
  <2>1. MaxStoredTurns \in Nat
    BY SessionAssumption
  <2> QED BY <1>1, <2>1 DEF MemoryIsNewest
<1> QED BY <1>3, <1>4, <1>5 DEF SessionInv, StoresAreCurrent

LEMMA SessionInvStep ==
    ASSUME SessionInv, NEW p \in Instances, SessionStep(p)
    PROVE  SessionInv'
<1>1. CASE \E c \in SaveCalls : InsertHead(p, c) \/ LockHead(p, c) \/ RepeatTurn(p, c)
  BY <1>1, SaveBeginsSafe
<1>2. CASE UpdateHead(p)
  BY <1>2, UpdateHeadSafe
<1>3. CASE SaveDraft(p)
  BY <1>3, SaveDraftSafe
<1>4. CASE DraftRefused(p) \/ RollBack(p)
  <2>1. ~At(p, "idle") /\ Ends(p) /\ TablesUnchanged
    BY <1>4 DEF DraftRefused, RollBack, At
  <2> QED BY <2>1, GivenUpSafe
<1>5. CASE LockTombstone(p) \/ Tombstone(p)
  BY <1>5, LockTombstoneSafe, TombstoneSafe
<1>6. CASE NumberTurn(p) \/ InsertTurn(p) \/ ClearConversation(p)
  BY <1>6, NumberTurnSafe, InsertTurnSafe, ClearConversationSafe
<1> QED BY <1>1, <1>2, <1>3, <1>4, <1>5, <1>6 DEF SessionStep

LEMMA SessionInvInit ==
    ASSUME SessionInit
    PROVE  SessionInv
<1>1. NoTx \in Tx /\ NoTx.at = "idle"
  BY DEF NoTx, Tx, Stages, Phases
<1>2. \A p \in Instances : At(p, "idle")
  BY <1>1 DEF SessionInit, At
<1>3. SessionTypeOK /\ RowIsLocked
  BY <1>1, <1>2, SessionAssumption DEF SessionInit, SessionTypeOK, RowIsLocked
<1>4. HeadMatchesDraft /\ MemoryIsNewest
  <2>1. MaxStoredTurns \in Nat
    BY SessionAssumption
  <2> QED BY <2>1 DEF SessionInit, HeadMatchesDraft, MemoryIsNewest
<1> QED BY <1>2, <1>3, <1>4, IdleIsCurrent DEF SessionInv, StoresAreCurrent

-----------------------------------------------------------------------------
(* What a step on the session may change                                    *)

\* Only a commit of a save and a tombstone write the head, and they write what
\* follows it.
LEMMA HeadFollows ==
    ASSUME SessionInv, NEW p \in Instances, SessionStep(p), head' # head, head # None
    PROVE  /\ head'.version = head.version + 1
           /\ ~head.deleted
           /\ head'.deleted \/ head'.turn > head.turn
<1>1. SaveDraft(p) \/ Tombstone(p)
  BY DEF SessionStep, InsertHead, LockHead, RepeatTurn, UpdateHead, DraftRefused,
         LockTombstone, NumberTurn, InsertTurn, ClearConversation, RollBack,
         TablesUnchanged
<1>2. CASE SaveDraft(p)
  BY <1>2 DEF SaveDraft, SessionInv, TransactionIsCurrent, SavedFollows, Follows
<1>3. CASE Tombstone(p)
  <2>1. head \in Head
    BY DEF SessionInv, SessionTypeOK
  <2>2. ~head.deleted /\ head' = [head EXCEPT !.deleted = TRUE, !.version = @ + 1]
    BY <1>3 DEF Tombstone
  <2> QED BY <2>1, <2>2 DEF Head
<1> QED BY <1>1, <1>2, <1>3

\* A revision leaves the table with its session, or for its next status.
LEMMA DraftsFollow ==
    ASSUME SessionInv, NEW p \in Instances, SessionStep(p), NEW d \in drafts \ drafts'
    PROVE  \/ head'.deleted
           \/ \E e \in drafts' : /\ ContentIdentity(e) = ContentIdentity(d)
                                 /\ e.status \in Allowed(d.status)
<1>1. SaveDraft(p) \/ Tombstone(p)
  BY DEF SessionStep, InsertHead, LockHead, RepeatTurn, UpdateHead, DraftRefused,
         LockTombstone, NumberTurn, InsertTurn, ClearConversation, RollBack,
         TablesUnchanged
<1>2. CASE SaveDraft(p)
  <2> DEFINE e == tx[p].draft
  <2>1. /\ e # None => Accepts(e)
        /\ drafts' = IF e = None THEN drafts ELSE (drafts \ Stored(e.ref)) \cup {e}
    BY <1>2 DEF SaveDraft
  <2>2. e # None /\ d \in Stored(e.ref) /\ e # d /\ e \in drafts'
    BY <2>1
  <2> HIDE DEF e
  <2>3. ContentIdentity(d) = ContentIdentity(e) /\ e.status \in Allowed(d.status)
    BY <2>1, <2>2 DEF Accepts
  <2> QED BY <2>2, <2>3
<1>3. CASE Tombstone(p)
  <2>1. head \in Head
    BY <1>3 DEF SessionInv, SessionTypeOK, Tombstone, TransactionIsCurrent,
                TombstoneIsCurrent
  <2>2. head' = IF head.deleted THEN head
                ELSE [head EXCEPT !.deleted = TRUE, !.version = @ + 1]
    BY <1>3 DEF Tombstone
  <2> QED BY <2>1, <2>2 DEF Head
<1> QED BY <1>1, <1>2, <1>3

-----------------------------------------------------------------------------
(* Transactions of submissions                                              *)

LEMMA NoSubIsSub == NoSub \in Sub /\ NoSub.at = "idle"
BY DEF NoSub, Sub, SubStages, Events

LEMMA ClashesBothWays ==
    ASSUME NEW r, NEW s, Clashes(r, s)
    PROVE  Clashes(s, r)
BY DEF Clashes

\* A statement that writes no table: the transaction goes on, or ends.
LEMMA StatementSafe ==
    ASSUME SubmissionInv, NEW p \in Instances, NEW c \in Sub,
           sub' = [sub EXCEPT ![p] = c], CallIsCurrent(p, c),
           UNCHANGED <<receipts, audits>>,
           answers' = answers \/ answers' \subseteq receipts, answers' \subseteq Receipt,
           calls' \in 0 .. MaxCalls
    PROVE  SubmissionInv'
<1>1. /\ sub \in [Instances -> Sub]
      /\ SubmissionTypeOK /\ ReceiptsAreUnique /\ AnswersAreDurable
      /\ \A q \in Instances : CallIsCurrent(q, sub[q])
  BY DEF SubmissionInv, SubmissionTypeOK, SubmissionIsCurrent
<1>2. /\ sub' \in [Instances -> Sub] /\ sub'[p] = c
      /\ \A q \in Instances \ {p} : sub'[q] = sub[q]
  BY <1>1
<1>3. SubmissionIsCurrent(p)'
  BY <1>2 DEF SubmissionIsCurrent, CallIsCurrent, Uncommitted, Doing
<1>4. ASSUME NEW q \in Instances \ {p} PROVE SubmissionIsCurrent(q)'
  <2>1. CallIsCurrent(q, sub[q])
    BY <1>1
  <2>2. ASSUME Uncommitted(q), c.at = "auditing", c.event = "submitted"
        PROVE  ~Clashes(sub[q].row, c.row)
    BY <2>2, ClashesBothWays DEF CallIsCurrent
  <2> QED BY <1>2, <2>1, <2>2 DEF SubmissionIsCurrent, CallIsCurrent, Uncommitted, Doing
<1>5. SubmissionTypeOK'
  BY <1>1, <1>2 DEF SubmissionTypeOK
<1>6. ReceiptsAreUnique' /\ AnswersAreDurable'
  BY <1>1 DEF ReceiptsAreUnique, AnswersAreDurable
<1> QED BY <1>3, <1>4, <1>5, <1>6 DEF SubmissionInv

LEMMA EndSafe ==
    ASSUME SubmissionInv, NEW p \in Instances, Done(p),
           UNCHANGED <<receipts, audits, answers, calls>>
    PROVE  SubmissionInv'
<1>1. CallIsCurrent(p, NoSub)
  BY NoSubIsSub DEF CallIsCurrent
<1>2. answers \subseteq Receipt /\ calls \in 0 .. MaxCalls
  BY DEF SubmissionInv, SubmissionTypeOK
<1> QED BY <1>1, <1>2, NoSubIsSub, StatementSafe DEF Done

\* A receipt is found and replayed.
LEMMA ReplaySafe ==
    ASSUME SubmissionInv, NEW p \in Instances, NEW c \in Sub, NEW r \in receipts,
           Replays(p, c, r),
           UNCHANGED <<receipts, audits, answers>>, calls' \in 0 .. MaxCalls
    PROVE  SubmissionInv'
<1> DEFINE d == [[c EXCEPT !.row = r, !.event = "idempotent_replay"] EXCEPT !.at = "auditing"]
<1>1. receipts \subseteq Receipt /\ answers \subseteq Receipt
  BY DEF SubmissionInv, SubmissionTypeOK
<1>2. d \in Sub /\ d.at = "auditing" /\ d.event = "idempotent_replay" /\ d.row = r
  BY <1>1 DEF Sub, SubStages, Events
<1>3. sub' = [sub EXCEPT ![p] = d]
  BY DEF Replays, Goes
<1> HIDE DEF d
<1>4. CallIsCurrent(p, d)
  BY <1>2 DEF CallIsCurrent
<1> QED BY <1>1, <1>2, <1>3, <1>4, StatementSafe

LEMMA FindKeySafe ==
    ASSUME SubmissionInv, NEW p \in Instances,
           NEW k \in Keys, NEW d \in Drafts, NEW b \in BOOLEAN,
           FindKey(p, Request(k, d, b))
    PROVE  SubmissionInv'
<1> DEFINE c == Request(k, d, b)
           e == [c EXCEPT !.at = "byDraft"]
<1>1. /\ c \in Sub /\ e \in Sub
      /\ e.at = "byDraft" /\ e.key = k /\ e.draft = d /\ e.event = "submitted"
  BY DEF Request, NoSub, Sub, SubStages, Events
<1>2. calls' \in 0 .. MaxCalls /\ answers \subseteq Receipt
  BY SubmissionAssumption DEF FindKey, SubmissionInv, SubmissionTypeOK
<1>3. /\ UNCHANGED <<receipts, audits, answers>>
      /\ (\E r \in receipts : Replays(p, c, r)) \/ sub' = [sub EXCEPT ![p] = e]
  BY DEF FindKey, WithKey, Goes
<1> HIDE DEF c, e
<1>4. CallIsCurrent(p, e)
  BY <1>1 DEF CallIsCurrent
<1> QED BY <1>1, <1>2, <1>3, <1>4, ReplaySafe, StatementSafe

LEMMA FindDraftSafe ==
    ASSUME SubmissionInv, NEW p \in Instances, FindDraft(p)
    PROVE  SubmissionInv'
<1> DEFINE c == sub[p]
           e == [c EXCEPT !.at = "inserting"]
<1>1. /\ c \in Sub /\ c.key \in Keys /\ c.draft \in Drafts /\ c.event = "submitted"
      /\ answers \subseteq Receipt /\ calls \in 0 .. MaxCalls
  BY DEF FindDraft, Doing, SubmissionInv, SubmissionTypeOK, SubmissionIsCurrent, CallIsCurrent
<1>2. /\ UNCHANGED <<receipts, audits, answers, calls>>
      /\ Done(p) \/ sub' = [sub EXCEPT ![p] = e]
  BY DEF FindDraft, Goes
<1>3. /\ e \in Sub /\ e.at = "inserting" /\ e.key = c.key /\ e.draft = c.draft
      /\ e.event = "submitted"
  BY <1>1 DEF Sub, SubStages
<1> HIDE DEF c, e
<1>4. CallIsCurrent(p, e)
  BY <1>1, <1>3 DEF CallIsCurrent
<1> QED BY <1>1, <1>2, <1>3, <1>4, EndSafe, StatementSafe

\* The constraints and the wait for inserts in flight keep the new row apart.
LEMMA InsertSafe ==
    ASSUME SubmissionInv, NEW p \in Instances, Insert(p)
    PROVE  SubmissionInv'
<1> DEFINE c == sub[p]
<1>1. /\ c \in Sub /\ c.key \in Keys /\ c.draft \in Drafts /\ c.event = "submitted"
      /\ answers \subseteq Receipt /\ calls \in 0 .. MaxCalls
  BY DEF Insert, Doing, SubmissionInv, SubmissionTypeOK, SubmissionIsCurrent, CallIsCurrent
<1>2. PICK i \in Ids :
          LET r == [key |-> c.key, draft |-> c.draft, id |-> i]
          IN /\ \A q \in Instances \ {p} : Uncommitted(q) => ~Clashes(r, sub[q].row)
             /\ IF \E s \in receipts : Clashes(r, s)
                THEN Goes(p, c, "lost")
                ELSE Goes(p, [c EXCEPT !.row = r], "auditing")
  BY DEF Insert
<1> DEFINE r == [key |-> c.key, draft |-> c.draft, id |-> i]
           lost == [c EXCEPT !.at = "lost"]
           new == [[c EXCEPT !.row = r] EXCEPT !.at = "auditing"]
<1>3. UNCHANGED <<receipts, audits, answers, calls>>
  BY DEF Insert
<1>4. r \in Receipt
  BY <1>1 DEF Receipt
<1>5. CASE \E s \in receipts : Clashes(r, s)
  <2>1. sub' = [sub EXCEPT ![p] = lost]
    BY <1>2, <1>5 DEF Goes
  <2>2. /\ lost \in Sub /\ lost.at = "lost" /\ lost.key = c.key /\ lost.draft = c.draft
        /\ lost.event = "submitted"
    BY <1>1 DEF Sub, SubStages
  <2> HIDE DEF c, lost
  <2>3. CallIsCurrent(p, lost)
    BY <1>1, <2>2 DEF CallIsCurrent
  <2> QED BY <1>1, <1>3, <2>1, <2>2, <2>3, StatementSafe
<1>6. CASE ~\E s \in receipts : Clashes(r, s)
  <2>1. sub' = [sub EXCEPT ![p] = new]
    BY <1>2, <1>6 DEF Goes
  <2>2. new \in Sub /\ new.at = "auditing" /\ new.row = r /\ new.event = "submitted"
    BY <1>1, <1>4 DEF Sub, SubStages
  <2>3. \A q \in Instances \ {p} : Uncommitted(q) => ~Clashes(r, sub[q].row)
    BY <1>2
  <2> HIDE DEF c, new, r
  <2>4. CallIsCurrent(p, new)
    BY <1>4, <1>6, <2>2, <2>3 DEF CallIsCurrent
  <2> QED BY <1>1, <1>3, <2>1, <2>2, <2>4, StatementSafe
<1> QED BY <1>5, <1>6

LEMMA FindWinnerSafe ==
    ASSUME SubmissionInv, NEW p \in Instances, FindWinner(p)
    PROVE  SubmissionInv'
<1>1. sub[p] \in Sub /\ calls \in 0 .. MaxCalls
  BY DEF SubmissionInv, SubmissionTypeOK
<1>2. PICK r \in receipts : Replays(p, sub[p], r)
  BY DEF FindWinner, WithKey
<1> QED BY <1>1, <1>2, ReplaySafe DEF FindWinner

\* The receipts with one id are one or none.
LEMMA OneMore ==
    ASSUME ReceiptsAreUnique, NEW r, \A s \in receipts : ~Clashes(r, s)
    PROVE  \A i : Cardinality({s \in receipts \cup {r} : s.id = i}) =
               Cardinality({s \in receipts : s.id = i}) + (IF r.id = i THEN 1 ELSE 0)
<1> SUFFICES ASSUME NEW i
             PROVE  Cardinality({s \in receipts \cup {r} : s.id = i}) =
                    Cardinality({s \in receipts : s.id = i}) + (IF r.id = i THEN 1 ELSE 0)
  OBVIOUS
<1> DEFINE old == {s \in receipts : s.id = i}
           new == {s \in receipts \cup {r} : s.id = i}
<1>1. old = {} \/ \E s \in old : old = {s}
  BY DEF ReceiptsAreUnique, Clashes
<1>2. r.id = i => old = {} /\ new = {r}
  BY DEF Clashes
<1>3. r.id # i => new = old
  OBVIOUS
<1> HIDE DEF old, new
<1>4. Cardinality(old) \in Nat
  BY <1>1, FS_EmptySet, FS_Singleton
<1>5. Cardinality(new) = Cardinality(old) + (IF r.id = i THEN 1 ELSE 0)
  <2>1. CASE r.id = i
    <3>1. Cardinality(old) = 0 /\ Cardinality(new) = 1
      BY <1>2, <2>1, FS_EmptySet, FS_Singleton
    <3> QED BY <2>1, <3>1
  <2>2. CASE r.id # i
    BY <1>3, <1>4, <2>2
  <2> QED BY <2>1, <2>2
<1> QED BY <1>5 DEF old, new

\* The receipt and its audit record become visible together.
LEMMA CommitSafe ==
    ASSUME SubmissionInv, NEW p \in Instances, Commit(p)
    PROVE  SubmissionInv'
<1> DEFINE c == sub[p]
           r == c.row
           e == [c EXCEPT !.at = "committed"]
<1>1. /\ c \in Sub /\ c.at = "auditing" /\ c.event \in Events
      /\ sub \in [Instances -> Sub]
      /\ receipts \subseteq Receipt /\ audits \in [Ids -> [Events -> Nat]]
      /\ CallIsCurrent(p, c)
  BY DEF Commit, Doing, SubmissionInv, SubmissionTypeOK, SubmissionIsCurrent, Sub
<1>2. /\ receipts' = receipts \cup {r}
      /\ audits' = [audits EXCEPT ![r.id][c.event] = @ + 1]
      /\ sub' = [sub EXCEPT ![p] = e]
      /\ UNCHANGED <<answers, calls>>
  BY DEF Commit, Audited, Goes
<1>3. e \in Sub /\ e.at = "committed" /\ e.row = r
  BY <1>1 DEF Sub, SubStages
<1>4. r \in Receipt /\ r.id \in Ids
  BY <1>1 DEF CallIsCurrent, Events, Receipt
<1>5. /\ sub' \in [Instances -> Sub] /\ sub'[p] = e
      /\ \A q \in Instances \ {p} : sub'[q] = sub[q]
  BY <1>1, <1>2, <1>3
<1>6. c.event = "submitted" \/ r \in receipts
  BY <1>1 DEF CallIsCurrent, Events
<1>7. c.event = "submitted" =>
          /\ \A s \in receipts : ~Clashes(r, s)
          /\ \A q \in Instances \ {p} : Uncommitted(q) => ~Clashes(r, sub[q].row)
  BY <1>1 DEF CallIsCurrent
<1>8. Uncommitted(p) <=> c.event = "submitted"
  BY <1>1 DEF Uncommitted, Doing
<1> HIDE DEF c, r, e
<1>9. SubmissionTypeOK'
  <2>1. audits' \in [Ids -> [Events -> Nat]]
    BY <1>1, <1>2, <1>4
  <2>2. receipts' \subseteq Receipt
    BY <1>1, <1>2, <1>4
  <2> QED BY <1>2, <1>5, <2>1, <2>2 DEF SubmissionInv, SubmissionTypeOK
<1>10. ReceiptsAreUnique'
  <2>1. ReceiptsAreUnique
    BY DEF SubmissionInv
  <2>2. CASE r \in receipts
    BY <2>1, <2>2, <1>2 DEF ReceiptsAreUnique
  <2>3. CASE c.event = "submitted"
    BY <2>1, <2>3, <1>2, <1>7, ClashesBothWays DEF ReceiptsAreUnique
  <2> QED BY <1>6, <2>2, <2>3
<1>11. ASSUME NEW q \in Instances PROVE SubmissionIsCurrent(q)'
  <2>1. CASE q = p
    <3>1. sub'[q].at = "committed" /\ sub'[q].row \in receipts'
      BY <2>1, <1>2, <1>3, <1>5
    <3> QED BY <3>1 DEF SubmissionIsCurrent, CallIsCurrent
  <2>2. CASE q # p
    <3>1. sub'[q] = sub[q] /\ CallIsCurrent(q, sub[q])
      BY <2>2, <1>5 DEF SubmissionInv, SubmissionIsCurrent
    <3>2. \A o \in Instances : Uncommitted(o)' => Uncommitted(o) /\ sub'[o].row = sub[o].row
      BY <1>3, <1>5 DEF Uncommitted, Doing
    <3>3. Uncommitted(q) => \A s \in receipts' : ~Clashes(sub[q].row, s)
      <4>1. SUFFICES ASSUME Uncommitted(q), NEW s \in receipts' PROVE ~Clashes(sub[q].row, s)
        OBVIOUS
      <4>2. CASE s \in receipts
        BY <3>1, <4>1, <4>2 DEF CallIsCurrent, Uncommitted, Doing
      <4>3. CASE s \notin receipts
        <5>1. s = r /\ c.event = "submitted"
          BY <4>1, <4>3, <1>2, <1>6
        <5> QED BY <5>1, <4>1, <2>2, <1>7, ClashesBothWays
      <4> QED BY <4>2, <4>3
    <3> QED BY <3>1, <3>2, <3>3, <1>2
            DEF SubmissionIsCurrent, CallIsCurrent, Uncommitted, Doing
  <2> QED BY <2>1, <2>2
<1>12. AnswersAreDurable'
  <2>1. /\ answers \subseteq receipts
        /\ \A i \in Ids : audits[i]["submitted"] = Cardinality({s \in receipts : s.id = i})
    BY DEF SubmissionInv, AnswersAreDurable
  <2>2. CASE r \in receipts /\ c.event # "submitted"
    <3>1. receipts' = receipts
      BY <2>2, <1>2
    <3>2. \A i \in Ids : audits'[i]["submitted"] = audits[i]["submitted"]
      BY <2>2, <1>1, <1>2, <1>4 DEF Events
    <3> QED BY <2>1, <3>1, <3>2, <1>2 DEF AnswersAreDurable
  <2>3. CASE c.event = "submitted"
    <3>1. \A i : Cardinality({s \in receipts \cup {r} : s.id = i}) =
              Cardinality({s \in receipts : s.id = i}) + (IF r.id = i THEN 1 ELSE 0)
      BY <2>3, <1>7, OneMore DEF SubmissionInv
    <3>2. \A i \in Ids : audits'[i]["submitted"] =
              audits[i]["submitted"] + (IF r.id = i THEN 1 ELSE 0)
      BY <2>3, <1>1, <1>2, <1>4 DEF Events
    <3>3. ASSUME NEW i \in Ids
          PROVE  audits'[i]["submitted"] = Cardinality({s \in receipts' : s.id = i})
      <4> DEFINE old == Cardinality({s \in receipts : s.id = i})
                 new == Cardinality({s \in receipts \cup {r} : s.id = i})
      <4>1. {s \in receipts' : s.id = i} = {s \in receipts \cup {r} : s.id = i}
        BY <1>2
      <4>2. audits[i]["submitted"] = old
        BY <2>1
      <4>3. new = old + (IF r.id = i THEN 1 ELSE 0)
        BY <3>1
      <4>4. Cardinality({s \in receipts' : s.id = i}) = new
        BY <4>1
      <4> HIDE DEF old, new
      <4> QED BY <4>2, <4>3, <4>4, <3>2
    <3> QED BY <2>1, <3>3, <1>2 DEF AnswersAreDurable
  <2> QED BY <1>6, <2>2, <2>3, <1>1 DEF Events
<1> QED BY <1>9, <1>10, <1>11, <1>12 DEF SubmissionInv

LEMMA AnswerSafe ==
    ASSUME SubmissionInv, NEW p \in Instances, Answer(p)
    PROVE  SubmissionInv'
<1>1. /\ sub[p].row \in receipts /\ receipts \subseteq Receipt
      /\ answers \subseteq receipts /\ calls \in 0 .. MaxCalls
  BY DEF Answer, Doing, SubmissionInv, SubmissionTypeOK, SubmissionIsCurrent,
         CallIsCurrent, AnswersAreDurable
<1>2. /\ answers' = answers \cup {sub[p].row} /\ Done(p)
      /\ UNCHANGED <<receipts, audits, calls>>
  BY DEF Answer
<1>3. CallIsCurrent(p, NoSub)
  BY NoSubIsSub DEF CallIsCurrent
<1>4. answers' \subseteq receipts /\ answers' \subseteq Receipt
  BY <1>1, <1>2
<1> QED BY <1>1, <1>2, <1>3, <1>4, NoSubIsSub, StatementSafe DEF Done

LEMMA SubmissionInvStep ==
    ASSUME SubmissionInv, NEW p \in Instances, SubmissionStep(p)
    PROVE  SubmissionInv'
<1>1. CASE \E k \in Keys, d \in Drafts, b \in BOOLEAN : FindKey(p, Request(k, d, b))
  BY <1>1, FindKeySafe
<1>2. CASE FindDraft(p) \/ Insert(p) \/ FindWinner(p)
  BY <1>2, FindDraftSafe, InsertSafe, FindWinnerSafe
<1>3. CASE LostForGood(p) \/ Breaks(p)
  BY <1>3, EndSafe DEF LostForGood, Breaks
<1>4. CASE Commit(p) \/ Answer(p)
  BY <1>4, CommitSafe, AnswerSafe
<1> QED BY <1>1, <1>2, <1>3, <1>4 DEF SubmissionStep

LEMMA SubmissionInvInit ==
    ASSUME SubmissionInit
    PROVE  SubmissionInv
<1>1. SubmissionTypeOK /\ ReceiptsAreUnique
  BY NoSubIsSub, SubmissionAssumption
     DEF SubmissionInit, SubmissionTypeOK, ReceiptsAreUnique, Events
<1>2. \A p \in Instances : SubmissionIsCurrent(p)
  BY NoSubIsSub DEF SubmissionInit, SubmissionIsCurrent, CallIsCurrent
<1>3. AnswersAreDurable
  <2>1. \A i \in Ids : {r \in receipts : r.id = i} = {}
    BY DEF SubmissionInit
  <2> QED BY <2>1, FS_EmptySet DEF SubmissionInit, AnswersAreDurable, Events
<1> QED BY <1>1, <1>2, <1>3 DEF SubmissionInv

\* Only a commit writes receipts: the one of a replay again, or one that is unused.
LEMMA LedgerStep ==
    ASSUME SubmissionInv, NEW p \in Instances, SubmissionStep(p), receipts' # receipts
    PROVE  \E k \in Keys, d \in Drafts, i \in Ids : Ledger!Issue(k, d, i)
<1>1. Commit(p)
  BY DEF SubmissionStep, FindKey, FindDraft, Insert, FindWinner, LostForGood, Answer, Breaks
<1> DEFINE r == sub[p].row
<1>2. receipts' = receipts \cup {r} /\ r \notin receipts
  BY <1>1 DEF Commit
<1>3. /\ sub[p].at = "auditing" /\ sub[p].event \in Events
      /\ CallIsCurrent(p, sub[p])
  BY <1>1 DEF Commit, Doing, SubmissionInv, SubmissionTypeOK, SubmissionIsCurrent, Sub
<1>4. r \in Receipt /\ \A s \in receipts : ~Clashes(r, s)
  BY <1>2, <1>3 DEF CallIsCurrent, Events
<1> HIDE DEF r
<1>5. /\ r.key \in Keys /\ r.draft \in Drafts /\ r.id \in Ids
      /\ r = [key |-> r.key, draft |-> r.draft, id |-> r.id]
  BY <1>4 DEF Receipt
<1>6. Ledger!Unused(r.key, r.draft, r.id)
  BY <1>4 DEF Ledger!Unused, Clashes
<1>7. Ledger!Issue(r.key, r.draft, r.id)
  BY <1>2, <1>5, <1>6 DEF Ledger!Issue
<1> QED BY <1>5, <1>7

-----------------------------------------------------------------------------
(* The theorems                                                             *)

LEMMA StoresInvInit ==
    ASSUME StoresInit
    PROVE  StoresInv
BY SessionInvInit, SubmissionInvInit DEF StoresInit, StoresInv

\* The session and the submissions share no table.
LEMMA StoresInvStep ==
    ASSUME StoresInv, [StoresNext]_storeVars
    PROVE  StoresInv'
<1>1. SessionInv /\ UNCHANGED sessionVars => SessionInv'
  BY DEF sessionVars, SessionInv, SessionTypeOK, RowIsLocked, At, TransactionIsCurrent,
         ReadIsCurrent, SavedFollows, Follows, TombstoneIsCurrent, NumberIsNext,
         NewerTurn, PhaseFits, StoresAreCurrent, HeadMatchesDraft, MemoryIsNewest, Stored
<1>2. SubmissionInv /\ UNCHANGED submissionVars => SubmissionInv'
  BY DEF submissionVars, SubmissionInv, SubmissionTypeOK, ReceiptsAreUnique,
         SubmissionIsCurrent, CallIsCurrent, Uncommitted, Doing, AnswersAreDurable
<1>3. CASE UNCHANGED storeVars
  BY <1>1, <1>2, <1>3 DEF StoresInv, storeVars, sessionVars, submissionVars
<1>4. ASSUME NEW p \in Instances, OnSession(p) PROVE StoresInv'
  BY <1>2, <1>4, SessionInvStep DEF OnSession, StoresInv
<1>5. ASSUME NEW p \in Instances, OnSubmission(p) PROVE StoresInv'
  BY <1>1, <1>5, SubmissionInvStep DEF OnSubmission, StoresInv
<1> QED BY <1>3, <1>4, <1>5 DEF StoresNext

\* What every transaction relies on holds between any two statements.
THEOREM StoresInvAlways == StoresSpec => []StoresInv
<1>1. StoresInit => StoresInv
  BY StoresInvInit
<1>2. StoresInv /\ [StoresNext]_storeVars => StoresInv'
  BY StoresInvStep
<1> QED BY <1>1, <1>2, PTL DEF StoresSpec

\* The head of a live session names a stored revision and shows its status, a
\* deleted session has none, and the conversation keeps exactly its newest turns,
\* for any number of instances, turns and drafts.
THEOREM StoresAlwaysCurrent == StoresSpec => []StoresAreCurrent
<1>1. StoresInv => StoresAreCurrent
  BY DEF StoresInv, SessionInv
<1> QED BY <1>1, StoresInvAlways, PTL

\* An answer given is a receipt kept, and each receipt has one audit record of its
\* submission.
THEOREM AnswersAlwaysDurable == StoresSpec => []AnswersAreDurable
<1>1. StoresInv => AnswersAreDurable
  BY DEF StoresInv, SubmissionInv
<1> QED BY <1>1, StoresInvAlways, PTL

\* Neither the head of a session nor a revision of its drafts moves back.
THEOREM NothingEverMovesBack == StoresSpec => NothingMovesBack
<1>1. StoresInv /\ [StoresNext]_storeVars =>
        [head # None =>
            /\ head'.version = head.version + 1
            /\ ~head.deleted
            /\ head'.deleted \/ head'.turn > head.turn]_head
  BY HeadFollows DEF StoresInv, StoresNext, storeVars, OnSession, OnSubmission, sessionVars
<1>2. StoresInv /\ [StoresNext]_storeVars =>
        [\A d \in drafts \ drafts' :
            \/ head'.deleted
            \/ \E e \in drafts' : /\ ContentIdentity(e) = ContentIdentity(d)
                                  /\ e.status \in Allowed(d.status)]_drafts
  BY DraftsFollow DEF StoresInv, StoresNext, storeVars, OnSession, OnSubmission, sessionVars
<1> QED BY <1>1, <1>2, StoresInvAlways, PTL
        DEF StoresSpec, NothingMovesBack, HeadMovesForward, DraftsOnlyAdvance

\* The transactions at READ COMMITTED implement the ledger: receipts are only added,
\* and no key, draft or id occurs in two.
THEOREM TransactionsImplementTheLedger == StoresSpec => ImplementsReceiptLedger
<1>1. StoresInit => receipts = {}
  BY DEF StoresInit, SubmissionInit
<1>2. StoresInv /\ [StoresNext]_storeVars =>
        [\E k \in Keys, d \in Drafts, i \in Ids : Ledger!Issue(k, d, i)]_receipts
  BY LedgerStep
     DEF StoresInv, StoresNext, storeVars, OnSession, OnSubmission, submissionVars
<1> QED BY <1>1, <1>2, StoresInvAlways, PTL
        DEF StoresSpec, ImplementsReceiptLedger, Ledger!LedgerSpec
=============================================================================
