--------------------------- MODULE AgentSessionsProofs ---------------------------
(***************************************************************************)
(* Four of the things one process does for its sessions.  The registry of  *)
(* shared calls is exact and no chat ends by another's leaving, for any    *)
(* number of chats, keys and places in the registry; a checkpoint is read  *)
(* back as it was put, for any overlapping runs; the audit of the          *)
(* submitter tells of each receipt what happened to it; and a conversation *)
(* is remembered as it went, without its credentials.                      *)
(***************************************************************************)
EXTENDS LLMCache, CheckpointSaver, LocalSubmission, ConversationMemory, FiniteSetTheorems,
        SequenceTheorems, TLAPS

-----------------------------------------------------------------------------
(* Calls of the model and their cache: what a chat knows of the call it    *)
(* awaits.  It is its own unshared one, which runs as long as it waits, or *)
(* a shared one that has started and that only the shutdown cancels.       *)

\* A chat has no call before its key is read, runs its own while it is alone, and
\* awaits one that has started and is a task.
ChatStands(r) ==
    /\ chat[r].at \in {"new", "reading"} => call[r] = NoCall
    /\ ChatAt(r, "reading") \/ chat[r].read = "miss" => chat[r].key \in Keys
    /\ ChatAt(r, "alone") => CallRuns(r) /\ ~call[r].shared
    /\ ChatAt(r, "shared") =>
          /\ chat[r].joined \in Chats
          /\ call[chat[r].joined].shared
          /\ call[chat[r].joined].at # "none"
    /\ ChatAt(r, "cancelled") => Closed

\* Only the shutdown cancels a shared call, an answered one does not fail, and one
\* stores under the key whose read succeeded.
CallStands(r) ==
    /\ call[r].cancel => Closed /\ call[r].shared
    /\ CallAt(r, "cancelled") /\ call[r].shared => call[r].cancel
    /\ call[r].fit => call[r].at \in {"storing", "answered", "cancelled"}
    /\ call[r].stores => call[r].key \in Keys
    /\ CallAt(r, "storing") => call[r].stores

CacheInv ==
    /\ CacheTypeOK
    /\ \A r \in Chats : ChatStands(r) /\ CallStands(r)
    /\ RegistryIsExact
    /\ IsFiniteSet(InFlight)

-----------------------------------------------------------------------------
(* The registry                                                             *)

\* A registry that gains no entry stays finite and within its limit.
LEMMA RegistryShrinks ==
    ASSUME CacheTypeOK, IsFiniteSet(InFlight), Cardinality(InFlight) <= MaxKeys,
           InFlight' \subseteq InFlight
    PROVE  IsFiniteSet(InFlight') /\ Cardinality(InFlight') <= MaxKeys
<1>1. IsFiniteSet(InFlight') /\ Cardinality(InFlight') <= Cardinality(InFlight)
  BY FS_Subset
<1>2. Cardinality(InFlight') \in Nat /\ Cardinality(InFlight) \in Nat /\ MaxKeys \in Nat
  BY <1>1, FS_CardinalityType, CacheAssumption
<1> QED BY <1>1, <1>2

\* A new entry takes a free place.
LEMMA RegistryGrows ==
    ASSUME IsFiniteSet(InFlight), Cardinality(InFlight) < MaxKeys,
           NEW k \in Keys, InFlight' = InFlight \cup {k}
    PROVE  IsFiniteSet(InFlight') /\ Cardinality(InFlight') <= MaxKeys
<1>1. /\ IsFiniteSet(InFlight \cup {k})
      /\ Cardinality(InFlight \cup {k}) =
            IF k \in InFlight THEN Cardinality(InFlight) ELSE Cardinality(InFlight) + 1
  BY FS_AddElement
<1>2. Cardinality(InFlight) \in Nat /\ MaxKeys \in Nat
  BY FS_CardinalityType, CacheAssumption
<1> QED BY <1>1, <1>2

-----------------------------------------------------------------------------
(* What the actions disturb                                                 *)

\* Steps that start or end no shared call leave the registry exact.
LEMMA RegistryUndisturbed ==
    ASSUME RegistryIsExact, UNCHANGED <<registry, closing>>, SharedRunning' = SharedRunning,
           \A q \in SharedRunning : call'[q].key = call[q].key
    PROVE  RegistryIsExact' /\ InFlight' = InFlight
<1>1. InFlight' = InFlight
  BY DEF InFlight
<1>2. ASSUME ~Closed, NEW q \in Chats, NEW k \in Keys
      PROVE  registry'[k] = q <=> q \in SharedRunning' /\ call'[q].key = k
  BY <1>2 DEF RegistryIsExact
<1> QED BY <1>1, <1>2 DEF RegistryIsExact, Closed

\* A chat that stays where it is, while no shared call is undone.
LEMMA ChatUndisturbed ==
    ASSUME NEW q \in Chats, ChatStands(q), chat'[q] = chat[q], Closed => Closed',
           call[q] = NoCall => call'[q] = NoCall,
           CallRuns(q) /\ ~call[q].shared => CallRuns(q)' /\ ~call'[q].shared,
           \A p \in Chats : call[p].shared /\ call[p].at # "none"
                               => call'[p].shared /\ call'[p].at # "none"
    PROVE  ChatStands(q)'
  BY DEF ChatStands, ChatAt

\* A call that starts.
LEMMA StartedCall ==
    ASSUME NEW k \in Keys \cup {Absent}, NEW s \in BOOLEAN, NEW t \in BOOLEAN
    PROVE  [NoCall EXCEPT !.at = "upstream", !.key = k, !.shared = s, !.stores = t] \in Called
  BY DEF NoCall, Called

\* A step of chats alone, none of which changes its call.
LEMMA ChatStep ==
    ASSUME CacheInv, CacheTypeOK', UNCHANGED <<registry, closing, call>>,
           \A r \in Chats : ChatStands(r)'
    PROVE  CacheInv'
<1>1. InFlight' = InFlight /\ SharedRunning' = SharedRunning
  BY DEF InFlight, SharedRunning, CallRuns
<1>2. \A r \in Chats : CallStands(r)'
  BY DEF CacheInv, CallStands, CallAt, Closed
<1>3. RegistryIsExact'
  BY <1>1, RegistryUndisturbed DEF CacheInv
<1> QED BY <1>1, <1>2, <1>3 DEF CacheInv

\* A chat may end with any outcome but a cancellation nobody asked for.
LEMMA Leaving ==
    ASSUME CacheInv, NEW r \in Chats,
           NEW outcome \in {"answered", "failed", "cancelled", "disconnected"},
           outcome = "cancelled" => Closed,
           Leaves(r, outcome), UNCHANGED <<cache, registry, closing, call>>
    PROVE  CacheInv'
<1>1. CacheTypeOK'
  BY DEF CacheInv, CacheTypeOK, Leaves, Requested, NewRequest
<1>2. \A q \in Chats : ChatStands(q)'
  <2> SUFFICES ASSUME NEW q \in Chats PROVE ChatStands(q)'
    OBVIOUS
  <2>1. chat'[q] = IF q = r THEN [NewRequest EXCEPT !.at = outcome] ELSE chat[q]
    BY DEF CacheInv, CacheTypeOK, Leaves
  <2>2. ChatStands(q)
    BY DEF CacheInv
  <2> QED BY <2>1, <2>2 DEF ChatStands, ChatAt, CallRuns, Closed, NewRequest
<1> QED BY <1>1, <1>2, ChatStep

\* A chat reads the cache.
LEMMA GetSafe ==
    ASSUME CacheInv, NEW r \in Chats, Get(r)
    PROVE  CacheInv'
<1>1. PICK k \in Keys, read \in {"hit", "miss", "error"} :
          chat' = [chat EXCEPT ![r] = [@ EXCEPT !.at = "reading", !.key = k, !.read = read]]
  BY DEF Get
<1>2. CacheTypeOK'
  <2>1. [chat[r] EXCEPT !.at = "reading", !.key = k, !.read = read] \in Requested
    BY DEF CacheInv, CacheTypeOK, Requested
  <2>2. chat' = [chat EXCEPT ![r] = [chat[r] EXCEPT !.at = "reading", !.key = k, !.read = read]]
    BY <1>1
  <2> QED BY <2>1, <2>2 DEF CacheInv, CacheTypeOK, Get
<1>3. \A q \in Chats : ChatStands(q)'
  <2> SUFFICES ASSUME NEW q \in Chats PROVE ChatStands(q)'
    OBVIOUS
  <2>1. ChatStands(q) /\ call' = call /\ closing' = closing
    BY DEF CacheInv, Get
  <2>2. CASE q = r
    <3>1. chat'[q].at = "reading" /\ chat'[q].key = k
      BY <1>1, <2>2 DEF CacheInv, CacheTypeOK, Requested
    <3>2. call[q] = NoCall
      BY <2>1, <2>2 DEF ChatStands, Get, ChatAt
    <3> QED BY <2>1, <3>1, <3>2 DEF ChatStands, ChatAt
  <2>3. CASE q # r
    <3>1. chat'[q] = chat[q]
      BY <1>1, <2>3 DEF CacheInv, CacheTypeOK
    <3> QED BY <2>1, <3>1 DEF ChatStands, ChatAt, CallRuns, Closed
  <2> QED BY <2>2, <2>3
<1> QED BY <1>2, <1>3, ChatStep DEF Get

\* A call inside its chat starts.
LEMMA AloneSafe ==
    ASSUME CacheInv, NEW r \in Chats, chat[r].at \in {"new", "reading"},
           chat' = [chat EXCEPT ![r].at = "alone"], Starts(r, FALSE),
           UNCHANGED <<cache, registry, closing>>
    PROVE  CacheInv'
<1>1. CacheTypeOK'
  <2>1. chat' \in [Chats -> Requested]
    BY DEF CacheInv, CacheTypeOK, Requested
  <2>2. call' \in [Chats -> Called]
    <3>1. chat[r].key \in Keys \cup {Absent}
      BY DEF CacheInv, CacheTypeOK, Requested
    <3> QED BY <3>1, StartedCall DEF CacheInv, CacheTypeOK, Starts
  <2> QED BY <2>1, <2>2 DEF CacheInv, CacheTypeOK
<1>2. call[r] = NoCall
  BY DEF CacheInv, ChatStands
<1>3. /\ \A q \in Chats : q # r => chat'[q] = chat[q] /\ call'[q] = call[q]
      /\ chat'[r].at = "alone"
      /\ chat'[r].key = chat[r].key /\ chat'[r].read = chat[r].read
      /\ call'[r].at = "upstream" /\ ~call'[r].shared /\ ~call'[r].cancel /\ ~call'[r].fit
      /\ call'[r].key = chat[r].key /\ call'[r].stores = (chat[r].read = "miss")
  BY DEF CacheInv, CacheTypeOK, Requested, Called, Starts, NoCall
<1>4. \A q \in Chats : ChatStands(q)' /\ CallStands(q)'
  <2> SUFFICES ASSUME NEW q \in Chats PROVE ChatStands(q)' /\ CallStands(q)'
    OBVIOUS
  <2>1. ChatStands(q) /\ CallStands(q)
    BY DEF CacheInv
  <2>2. ChatStands(q)'
    BY <1>2, <1>3, <2>1 DEF ChatStands, ChatAt, CallRuns, Closed, NoCall
  <2>3. CallStands(q)'
    BY <1>3, <2>1 DEF ChatStands, CallStands, CallAt, Closed
  <2> QED BY <2>2, <2>3
<1>5. SharedRunning' = SharedRunning
  BY <1>2, <1>3 DEF SharedRunning, CallRuns, NoCall
<1>6. InFlight' = InFlight
  BY DEF InFlight
<1>7. \A q \in Chats : q \in SharedRunning => call'[q] = call[q]
  BY <1>2, <1>3 DEF SharedRunning, NoCall
<1>8. RegistryIsExact'
  <2>1. UNCHANGED <<registry, closing>> /\ RegistryIsExact
    BY DEF CacheInv
  <2>2. \A q \in SharedRunning : call'[q].key = call[q].key
    BY <1>7 DEF SharedRunning
  <2> QED BY <1>5, <2>1, <2>2, RegistryUndisturbed
<1> QED BY <1>1, <1>4, <1>6, <1>8 DEF CacheInv

\* The first chat of a key starts the shared call and enters it.
LEMMA LeadSafe ==
    ASSUME CacheInv, NEW r \in Chats, Lead(r)
    PROVE  CacheInv'
<1>k. PICK k \in Keys : k = chat[r].key /\ registry[k] = Absent
  BY DEF CacheInv, ChatStands, Lead, GoesOn
<1>1. CacheTypeOK'
  <2>1. chat' \in [Chats -> Requested]
    <3>1. [chat[r] EXCEPT !.at = "shared", !.joined = r] \in Requested
      BY DEF CacheInv, CacheTypeOK, Requested
    <3>2. chat' = [chat EXCEPT ![r] = [chat[r] EXCEPT !.at = "shared", !.joined = r]]
      BY DEF CacheInv, CacheTypeOK, Lead
    <3> QED BY <3>1, <3>2 DEF CacheInv, CacheTypeOK
  <2>2. call' \in [Chats -> Called]
    BY <1>k, StartedCall DEF CacheInv, CacheTypeOK, Starts, Lead
  <2> QED BY <1>k, <2>1, <2>2 DEF CacheInv, CacheTypeOK, Lead
<1>2. call[r] = NoCall /\ ~Closed /\ Cardinality(InFlight) < MaxKeys
  BY DEF CacheInv, ChatStands, Lead, GoesOn, ChatAt
<1>3. /\ \A q \in Chats : q # r => chat'[q] = chat[q] /\ call'[q] = call[q]
      /\ chat'[r].at = "shared" /\ chat'[r].joined = r
      /\ call'[r].at = "upstream" /\ call'[r].shared /\ ~call'[r].cancel /\ ~call'[r].fit
      /\ call'[r].key = k /\ chat'[r].key = k
      /\ registry' = [registry EXCEPT ![k] = r]
  BY <1>k DEF CacheInv, CacheTypeOK, Requested, Called, Starts, NoCall, Lead
<1>4. \A q \in Chats : ChatStands(q)' /\ CallStands(q)'
  <2> SUFFICES ASSUME NEW q \in Chats PROVE ChatStands(q)' /\ CallStands(q)'
    OBVIOUS
  <2>1. ChatStands(q) /\ CallStands(q) /\ Closed' = Closed
    BY DEF CacheInv, Lead, Closed
  <2>2. ChatStands(q)'
    <3>1. CASE q = r
      BY <1>3, <3>1 DEF ChatStands, ChatAt
    <3>2. CASE q # r
      BY <1>2, <1>3, <2>1, <3>2 DEF ChatStands, ChatAt, CallRuns, NoCall
    <3> QED BY <3>1, <3>2
  <2>3. CallStands(q)'
    BY <1>k, <1>3, <2>1 DEF CallStands, CallAt
  <2> QED BY <2>2, <2>3
<1>5. SharedRunning' = SharedRunning \cup {r} /\ r \notin SharedRunning
  BY <1>2, <1>3 DEF SharedRunning, CallRuns, NoCall
<1>6. InFlight' = InFlight \cup {k}
  BY <1>3, CacheAssumption DEF InFlight, CacheInv, CacheTypeOK
<1>7. IsFiniteSet(InFlight') /\ Cardinality(InFlight') <= MaxKeys
  BY <1>2, <1>6, RegistryGrows DEF CacheInv
<1>8. ASSUME NEW q \in Chats, NEW j \in Keys
      PROVE  registry'[j] = q <=> q \in SharedRunning' /\ call'[q].key = j
  <2>1. registry[j] = q <=> q \in SharedRunning /\ call[q].key = j
    BY <1>2 DEF CacheInv, RegistryIsExact
  <2>2. registry'[j] = IF j = k THEN r ELSE registry[j]
    BY <1>3 DEF CacheInv, CacheTypeOK
  <2>3. CASE q = r
    BY <1>3, <1>5, <2>1, <2>2, <2>3
  <2>4. CASE q # r
    <3>1. registry[k] # q
      BY <1>k, CacheAssumption
    <3> QED BY <1>3, <1>5, <2>1, <2>2, <2>4, <3>1
  <2> QED BY <2>3, <2>4
<1>9. RegistryIsExact'
  BY <1>2, <1>7, <1>8 DEF RegistryIsExact, Closed, Lead
<1> QED BY <1>1, <1>4, <1>7, <1>9 DEF CacheInv

\* A later chat of the key awaits the call that is registered.
LEMMA FollowSafe ==
    ASSUME CacheInv, NEW r \in Chats, Follow(r)
    PROVE  CacheInv'
<1>1. PICK k \in Keys : k = chat[r].key /\ registry[k] # Absent
  BY DEF CacheInv, ChatStands, Follow, GoesOn
<1>2. registry[k] \in Chats
  BY <1>1 DEF CacheInv, CacheTypeOK
<1>3. registry[k] \in SharedRunning
  BY <1>1, <1>2 DEF CacheInv, RegistryIsExact, Follow
<1>4. CacheTypeOK'
  <2>1. [chat[r] EXCEPT !.at = "shared", !.joined = registry[k]] \in Requested
    BY <1>2 DEF CacheInv, CacheTypeOK, Requested
  <2>2. chat' = [chat EXCEPT ![r] = [chat[r] EXCEPT !.at = "shared", !.joined = registry[k]]]
    BY <1>1 DEF CacheInv, CacheTypeOK, Follow
  <2>3. chat' \in [Chats -> Requested]
    <3>1. chat \in [Chats -> Requested]
      BY DEF CacheInv, CacheTypeOK
    <3> QED BY <2>1, <2>2, <3>1
  <2>4. UNCHANGED <<cache, registry, closing, call>>
    BY DEF Follow
  <2> QED BY <2>3, <2>4 DEF CacheInv, CacheTypeOK
<1>5. \A q \in Chats : ChatStands(q)'
  <2> SUFFICES ASSUME NEW q \in Chats PROVE ChatStands(q)'
    OBVIOUS
  <2>1. ChatStands(q) /\ call' = call /\ closing' = closing
    BY DEF CacheInv, Follow
  <2>2. CASE q = r
    <3>1. chat'[q].at = "shared" /\ chat'[q].joined = registry[k] /\ chat'[q].key = k
      BY <1>1, <2>2 DEF CacheInv, CacheTypeOK, Requested, Follow
    <3> QED BY <1>2, <1>3, <2>1, <3>1 DEF ChatStands, ChatAt, SharedRunning, CallRuns
  <2>3. CASE q # r
    <3>1. chat'[q] = chat[q]
      BY <2>3 DEF CacheInv, CacheTypeOK, Follow
    <3> QED BY <2>1, <3>1 DEF ChatStands, ChatAt, CallRuns, Closed
  <2> QED BY <2>2, <2>3
<1> QED BY <1>4, <1>5, ChatStep DEF Follow

\* A waiter leaves as its call did, and only the shutdown cancelled that.
LEMMA ResumeSafe ==
    ASSUME CacheInv, NEW r \in Chats, Resume(r)
    PROVE  CacheInv'
<1>1. PICK q \in Chats : q = chat[r].joined /\ call[q].shared /\ call[q].at # "none"
  BY DEF CacheInv, ChatStands, Resume
<1>2. call[q].at \in {"answered", "failed", "cancelled"}
  BY <1>1 DEF CacheInv, CacheTypeOK, Called, Resume, CallRuns
<1>3. call[q].at = "cancelled" => Closed
  BY <1>1 DEF CacheInv, CallStands, CallAt
<1> QED BY <1>1, <1>2, <1>3, Leaving DEF Resume

\* A call ends: its entry is removed, and its chat leaves with it if it waits alone.
LEMMA EndSafe ==
    ASSUME CacheInv, NEW r \in Chats, NEW end \in {"answered", "failed", "cancelled"},
           CallRuns(r), CallEnds(r, end), UNCHANGED <<cache, closing>>,
           end = "cancelled" => call[r].cancel,
           end = "failed" => ~call[r].fit
    PROVE  CacheInv'
<1>1. CacheTypeOK'
  <2>1. [NewRequest EXCEPT !.at = end] \in Requested
    BY DEF Requested, NewRequest
  <2>2. chat' \in [Chats -> Requested]
    BY <2>1 DEF CacheInv, CacheTypeOK, CallEnds, Leaves
  <2>3. [call[r] EXCEPT !.at = end] \in Called
    BY DEF CacheInv, CacheTypeOK, Called
  <2>4. call' \in [Chats -> Called]
    BY <2>3 DEF CacheInv, CacheTypeOK, CallEnds
  <2>5. registry' \in [Keys -> Chats \cup {Absent}]
    BY DEF CacheInv, CacheTypeOK, CallEnds, Deregistered
  <2> QED BY <2>2, <2>4, <2>5 DEF CacheInv, CacheTypeOK
<1>2. /\ \A q \in Chats : q # r => chat'[q] = chat[q] /\ call'[q] = call[q]
      /\ call'[r] = [call[r] EXCEPT !.at = end]
      /\ call'[r].at = end /\ call'[r].shared = call[r].shared
      /\ call'[r].cancel = call[r].cancel /\ call'[r].fit = call[r].fit
      /\ call'[r].key = call[r].key /\ call'[r].stores = call[r].stores
  <2>1. call'[r] = [call[r] EXCEPT !.at = end] /\ call[r] \in Called
    BY DEF CacheInv, CacheTypeOK, CallEnds
  <2>2. \A q \in Chats : q # r => chat'[q] = chat[q] /\ call'[q] = call[q]
    BY DEF CacheInv, CacheTypeOK, CallEnds, Leaves
  <2> QED BY <2>1, <2>2 DEF Called
<1>3. chat'[r] = IF ChatAt(r, "alone") THEN [NewRequest EXCEPT !.at = end] ELSE chat[r]
  BY DEF CacheInv, CacheTypeOK, CallEnds, Leaves
<1>4. Closed' = Closed /\ (end = "cancelled" => Closed)
  BY DEF Closed, CacheInv, CallStands
<1>5. \A q \in Chats : ChatStands(q)' /\ CallStands(q)'
  <2> SUFFICES ASSUME NEW q \in Chats PROVE ChatStands(q)' /\ CallStands(q)'
    OBVIOUS
  <2>1. ChatStands(q) /\ CallStands(q)
    BY DEF CacheInv
  <2>2. \A p \in Chats : /\ call'[p].shared = call[p].shared
                         /\ call'[p].at # "none" <=> call[p].at # "none"
    BY <1>2 DEF CallRuns
  <2>3. ChatStands(q)'
    <3>1. CASE q # r
      BY <1>2, <1>4, <2>1, <2>2, <3>1 DEF ChatStands, ChatAt, CallRuns
    <3>2. CASE q = r /\ ChatAt(r, "alone")
      <4>1. chat'[q].at = end /\ chat'[q].read = "none"
        BY <1>3, <3>2 DEF NewRequest
      <4> QED BY <1>4, <4>1 DEF ChatStands, ChatAt
    <3>3. CASE q = r /\ ~ChatAt(r, "alone")
      <4>1. chat'[q] = chat[q] /\ chat[q].at \notin {"new", "reading", "alone"}
        BY <1>3, <2>1, <3>3 DEF ChatStands, ChatAt, CallRuns, NoCall
      <4> QED BY <1>4, <2>1, <2>2, <4>1 DEF ChatStands, ChatAt
    <3> QED BY <3>1, <3>2, <3>3
  <2>4. CallStands(q)'
    <3>1. CASE q # r
      BY <1>2, <1>4, <2>1, <3>1 DEF CallStands, CallAt
    <3>2. CASE q = r
      BY <1>2, <1>4, <2>1, <3>2 DEF CallStands, CallAt
    <3> QED BY <3>1, <3>2
  <2> QED BY <2>3, <2>4
<1>6. SharedRunning' = SharedRunning \ {r}
  BY <1>2 DEF SharedRunning, CallRuns
<1>7. \A j \in Keys : registry'[j] = IF call[r].shared /\ registry[j] = r THEN Absent
                                     ELSE registry[j]
  BY DEF CallEnds, Deregistered
<1>8. IsFiniteSet(InFlight') /\ Cardinality(InFlight') <= MaxKeys
  <2>1. InFlight' \subseteq InFlight
    BY <1>7 DEF InFlight
  <2> QED BY <2>1, RegistryShrinks DEF CacheInv, RegistryIsExact
<1>9. RegistryIsExact'
  <2>1. ASSUME ~Closed, NEW q \in Chats, NEW j \in Keys
        PROVE  registry'[j] = q <=> q \in SharedRunning' /\ call'[q].key = j
    <3>1. /\ registry[j] = q <=> q \in SharedRunning /\ call[q].key = j
          /\ registry[j] = r => r \in SharedRunning
      BY <2>1 DEF CacheInv, RegistryIsExact
    <3>2. CASE q = r
      BY <1>6, <1>7, <3>1, <3>2, CacheAssumption DEF SharedRunning
    <3>3. CASE q # r
      BY <1>2, <1>6, <1>7, <3>1, <3>3, CacheAssumption DEF SharedRunning
    <3> QED BY <3>2, <3>3
  <2>2. Closed => InFlight' = {}
    BY <1>7 DEF CacheInv, RegistryIsExact, InFlight
  <2>3. closing \in {"backendClosed", "closed"} => SharedRunning' = {}
    BY <1>6 DEF CacheInv, RegistryIsExact
  <2>4. closing' = closing
    OBVIOUS
  <2> QED BY <1>4, <1>8, <2>1, <2>2, <2>3, <2>4 DEF RegistryIsExact
<1> QED BY <1>1, <1>5, <1>8, <1>9 DEF CacheInv

\* A call alone is cancelled with its chat, and is in no registry.
LEMMA DisconnectAloneSafe ==
    ASSUME CacheInv, NEW r \in Chats, DisconnectAlone(r)
    PROVE  CacheInv'
<1>1. CacheTypeOK'
  BY DEF CacheInv, CacheTypeOK, Requested, Called, DisconnectAlone, Leaves, NewRequest
<1>2. ~call[r].shared
  BY DEF CacheInv, ChatStands, DisconnectAlone
<1>3. /\ \A q \in Chats : q # r => chat'[q] = chat[q] /\ call'[q] = call[q]
      /\ chat'[r].at = "disconnected" /\ chat'[r].read = "none"
      /\ call'[r].at = "cancelled" /\ ~call'[r].shared
      /\ call'[r].cancel = call[r].cancel
      /\ call'[r].key = call[r].key /\ call'[r].stores = call[r].stores
  BY <1>2 DEF CacheInv, CacheTypeOK, Requested, Called, DisconnectAlone, Leaves, NewRequest
<1>4. \A q \in Chats : ChatStands(q)' /\ CallStands(q)'
  <2> SUFFICES ASSUME NEW q \in Chats PROVE ChatStands(q)' /\ CallStands(q)'
    OBVIOUS
  <2>1. ChatStands(q) /\ CallStands(q) /\ Closed' = Closed
    BY DEF CacheInv, DisconnectAlone, Closed
  <2>2. ChatStands(q)'
    BY <1>2, <1>3, <2>1 DEF ChatStands, ChatAt, CallRuns, NoCall
  <2>3. CallStands(q)'
    BY <1>2, <1>3, <2>1 DEF CallStands, CallAt
  <2> QED BY <2>2, <2>3
<1>5. SharedRunning' = SharedRunning /\ InFlight' = InFlight
  BY <1>2, <1>3 DEF SharedRunning, CallRuns, InFlight, DisconnectAlone
<1>6. \A q \in Chats : q \in SharedRunning => call'[q] = call[q]
  BY <1>2, <1>3 DEF SharedRunning
<1>7. RegistryIsExact'
  BY <1>5, <1>6, RegistryUndisturbed DEF CacheInv, DisconnectAlone
<1> QED BY <1>1, <1>4, <1>5, <1>7 DEF CacheInv

\* The answer goes to Redis while its call stays registered.
LEMMA StoringSafe ==
    ASSUME CacheInv, NEW r \in Chats, CallAt(r, "upstream"),
           call[r].stores, call' = [call EXCEPT ![r].at = "storing", ![r].fit = TRUE],
           UNCHANGED <<cache, registry, closing, chat>>
    PROVE  CacheInv'
<1>1. CacheTypeOK'
  BY DEF CacheInv, CacheTypeOK, Called
<1>2. /\ \A q \in Chats : q # r => call'[q] = call[q]
      /\ call'[r].at = "storing" /\ call'[r].shared = call[r].shared
      /\ call'[r].cancel = call[r].cancel /\ call'[r].key = call[r].key
      /\ call'[r].stores
  BY DEF CacheInv, CacheTypeOK, Called
<1>3. \A q \in Chats : ChatStands(q)' /\ CallStands(q)'
  <2> SUFFICES ASSUME NEW q \in Chats PROVE ChatStands(q)' /\ CallStands(q)'
    OBVIOUS
  <2>1. ChatStands(q) /\ CallStands(q) /\ Closed' = Closed
    BY DEF CacheInv, Closed
  <2>2. ChatStands(q)'
    <3>1. call[q] = NoCall => call'[q] = NoCall
      <4>1. NoCall.at = "none" /\ call[r].at = "upstream"
        BY DEF NoCall, CallAt
      <4> QED BY <1>2, <4>1
    <3>2. CallRuns(q) /\ ~call[q].shared => CallRuns(q)' /\ ~call'[q].shared
      BY <1>2 DEF CallRuns
    <3>3. \A p \in Chats : call[p].shared /\ call[p].at # "none"
                            => call'[p].shared /\ call'[p].at # "none"
      BY <1>2
    <3> QED BY <2>1, <3>1, <3>2, <3>3, ChatUndisturbed
  <2>3. CallStands(q)'
    BY <1>2, <2>1 DEF CallStands, CallAt
  <2> QED BY <2>2, <2>3
<1>4. SharedRunning' = SharedRunning /\ InFlight' = InFlight
  BY <1>2 DEF SharedRunning, CallRuns, CallAt, InFlight
<1>5. \A q \in Chats : call'[q].key = call[q].key
  BY <1>2
<1>6. RegistryIsExact'
  <2>1. UNCHANGED <<registry, closing>>
    OBVIOUS
  <2>2. \A q \in SharedRunning : call'[q].key = call[q].key
    BY <1>5 DEF SharedRunning
  <2> QED BY <1>4, <2>1, <2>2, RegistryUndisturbed DEF CacheInv
<1> QED BY <1>1, <1>3, <1>4, <1>6 DEF CacheInv

\* Shutdown cancels exactly the registered calls and empties the registry.
LEMMA CloseBeginSafe ==
    ASSUME CacheInv, CloseBegin
    PROVE  CacheInv'
<1>1. CacheTypeOK'
  BY DEF CacheInv, CacheTypeOK, Called, CloseBegin, Closings
<1>2. ~Closed /\ Closed'
  BY DEF CloseBegin, Closed
<1>3. \A q \in Chats : /\ call'[q].at = call[q].at /\ call'[q].shared = call[q].shared
                       /\ call'[q].fit = call[q].fit /\ call'[q].key = call[q].key
                       /\ call'[q].stores = call[q].stores
                       /\ call'[q].cancel => call[q].shared
                       /\ call[q].cancel => call'[q].cancel
                       /\ ~call[q].shared => call'[q] = call[q]
  <2> SUFFICES ASSUME NEW q \in Chats
               PROVE  /\ call'[q].at = call[q].at /\ call'[q].shared = call[q].shared
                      /\ call'[q].fit = call[q].fit /\ call'[q].key = call[q].key
                      /\ call'[q].stores = call[q].stores
                      /\ call'[q].cancel => call[q].shared
                      /\ call[q].cancel => call'[q].cancel
                      /\ ~call[q].shared => call'[q] = call[q]
    OBVIOUS
  <2>1. call[q] \in Called /\ (call[q].cancel => call[q].shared)
    BY DEF CacheInv, CacheTypeOK, CallStands
  <2>2. CASE \E k \in Keys : registry[k] = q
    <3>1. call[q].shared
      BY <1>2, <2>2 DEF CacheInv, RegistryIsExact, SharedRunning
    <3>2. call'[q] = [call[q] EXCEPT !.cancel = TRUE]
      BY <2>2 DEF CloseBegin
    <3> QED BY <2>1, <3>1, <3>2 DEF Called
  <2>3. CASE ~\E k \in Keys : registry[k] = q
    BY <2>1, <2>3 DEF CloseBegin
  <2> QED BY <2>2, <2>3
<1>4. \A q \in Chats : ChatStands(q)' /\ CallStands(q)'
  <2> SUFFICES ASSUME NEW q \in Chats PROVE ChatStands(q)' /\ CallStands(q)'
    OBVIOUS
  <2>1. ChatStands(q) /\ CallStands(q) /\ chat' = chat
    BY DEF CacheInv, CloseBegin
  <2>2. ChatStands(q)'
    BY <1>2, <1>3, <2>1 DEF ChatStands, ChatAt, CallRuns, NoCall
  <2>3. CallStands(q)'
    BY <1>2, <1>3, <2>1 DEF CallStands, CallAt
  <2> QED BY <2>2, <2>3
<1>5. InFlight' = {}
  BY DEF InFlight, CloseBegin
<1>6. IsFiniteSet(InFlight') /\ Cardinality(InFlight') <= MaxKeys
  BY <1>5, RegistryShrinks DEF CacheInv, RegistryIsExact
<1>7. RegistryIsExact'
  BY <1>2, <1>5, <1>6 DEF RegistryIsExact, CloseBegin
<1> QED BY <1>1, <1>4, <1>6, <1>7 DEF CacheInv

\* The connections are closed after the last shared call.
LEMMA CloseEndSafe ==
    ASSUME CacheInv, CloseBackend \/ CloseUpstream
    PROVE  CacheInv'
<1>1. CacheTypeOK'
  BY DEF CacheInv, CacheTypeOK, CloseBackend, CloseUpstream, Closings
<1>2. /\ Closed /\ Closed' /\ chat' = chat /\ call' = call /\ registry' = registry
      /\ SharedRunning = {}
  BY DEF CacheInv, RegistryIsExact, CloseBackend, CloseUpstream, Closed
<1>3. \A q \in Chats : ChatStands(q)' /\ CallStands(q)'
  BY <1>2 DEF CacheInv, ChatStands, CallStands, ChatAt, CallAt, CallRuns
<1>4. InFlight' = InFlight /\ SharedRunning' = {}
  BY <1>2 DEF InFlight, SharedRunning, CallRuns
<1>5. RegistryIsExact'
  BY <1>2, <1>4 DEF CacheInv, RegistryIsExact
<1> QED BY <1>1, <1>3, <1>4, <1>5 DEF CacheInv

-----------------------------------------------------------------------------
(* The invariant                                                            *)

\* It holds at the start.
LEMMA CacheInvInit == CacheInit => CacheInv
<1> SUFFICES ASSUME CacheInit PROVE CacheInv
  OBVIOUS
<1>1. CacheTypeOK
  BY CacheAssumption
  DEF CacheInit, CacheTypeOK, Requested, Called, NewRequest, NoCall, Closings
<1>2. \A r \in Chats : ChatStands(r) /\ CallStands(r)
  BY DEF CacheInit, ChatStands, CallStands, ChatAt, CallAt, NewRequest, NoCall
<1>3. InFlight = {} /\ SharedRunning = {}
  BY DEF CacheInit, InFlight, SharedRunning, NoCall
<1>4. IsFiniteSet(InFlight) /\ Cardinality(InFlight) <= MaxKeys
  BY <1>3, FS_EmptySet, CacheAssumption
<1>5. RegistryIsExact
  BY <1>3, <1>4, CacheAssumption DEF CacheInit, RegistryIsExact, Closed
<1> QED BY <1>1, <1>2, <1>4, <1>5 DEF CacheInv

\* Every step preserves it.
LEMMA CacheInvStep == CacheInv /\ [CacheNext]_cacheVars => CacheInv'
<1> SUFFICES ASSUME CacheInv, [CacheNext]_cacheVars PROVE CacheInv'
  OBVIOUS
<1>1. ASSUME NEW r \in Chats, Chat(r) PROVE CacheInv'
  <2>1. CASE Bypass(r)
    BY <2>1, AloneSafe DEF Bypass, ChatAt
  <2>2. CASE Get(r)
    BY <2>2, GetSafe
  <2>3. CASE Hit(r)
    BY <2>3, Leaving DEF Hit
  <2>4. CASE RunRejected(r)
    BY <2>4, Leaving DEF RunRejected
  <2>5. CASE Overflow(r)
    BY <2>5, AloneSafe DEF Overflow, GoesOn, ChatAt
  <2>6. CASE Lead(r)
    BY <2>6, LeadSafe
  <2>7. CASE Follow(r)
    BY <2>7, FollowSafe
  <2>8. CASE Resume(r)
    BY <2>8, ResumeSafe
  <2>9. CASE Disconnect(r)
    BY <2>9, Leaving DEF Disconnect
  <2>10. CASE DisconnectAlone(r)
    BY <2>10, DisconnectAloneSafe
  <2> QED BY <1>1, <2>1, <2>2, <2>3, <2>4, <2>5, <2>6, <2>7, <2>8, <2>9, <2>10 DEF Chat
<1>2. ASSUME NEW r \in Chats, FetchAndMaybeCache(r) PROVE CacheInv'
  <2>1. CASE UpstreamFails(r)
    <3>1. ~call[r].fit
      BY <2>1 DEF UpstreamFails, CallAt, CacheInv, CallStands
    <3> QED BY <2>1, <3>1, EndSafe DEF UpstreamFails, CallAt, CallRuns
  <2>2. CASE UpstreamAnswers(r)
    <3>1. CASE CallEnds(r, "answered")
      BY <2>2, <3>1, EndSafe DEF UpstreamAnswers, CallAt, CallRuns
    <3>2. CASE ~CallEnds(r, "answered")
      BY <2>2, <3>2, StoringSafe DEF UpstreamAnswers
    <3> QED BY <3>1, <3>2
  <2>3. CASE Stores(r)
    <3>1. UNCHANGED <<registry, closing, chat, call>>
      BY <2>3 DEF Stores
    <3>2. CacheTypeOK'
      <4>1. call[r].key \in Keys
        BY <2>3 DEF Stores, CacheInv, CallStands
      <4> QED BY <2>3, <4>1 DEF Stores, CacheInv, CacheTypeOK
    <3>3. \A q \in Chats : ChatStands(q)'
      BY <3>1 DEF CacheInv, ChatStands, ChatAt, CallRuns, Closed
    <3> QED BY <3>1, <3>2, <3>3, ChatStep
  <2>4. CASE SetReturns(r)
    BY <2>4, EndSafe DEF SetReturns, CallAt, CallRuns
  <2>5. CASE TaskCancelled(r)
    BY <2>5, EndSafe DEF TaskCancelled
  <2> QED BY <1>2, <2>1, <2>2, <2>3, <2>4, <2>5 DEF FetchAndMaybeCache
<1>3. ASSUME NEW k \in Keys, Expire(k) PROVE CacheInv'
  <2>1. UNCHANGED <<registry, closing, chat, call>>
    BY <1>3 DEF Expire
  <2>2. CacheTypeOK'
    BY <1>3 DEF Expire, CacheInv, CacheTypeOK
  <2>3. \A q \in Chats : ChatStands(q)'
    BY <2>1 DEF CacheInv, ChatStands, ChatAt, CallRuns, Closed
  <2> QED BY <2>1, <2>2, <2>3, ChatStep
<1>4. CASE CloseBegin
  BY <1>4, CloseBeginSafe
<1>5. CASE CloseBackend \/ CloseUpstream
  BY <1>5, CloseEndSafe
<1>6. CASE UNCHANGED cacheVars
  <2>1. UNCHANGED <<cache, registry, closing, chat, call>>
    BY <1>6 DEF cacheVars
  <2>2. CacheTypeOK' /\ \A q \in Chats : ChatStands(q)'
    BY <2>1 DEF CacheInv, CacheTypeOK, ChatStands, ChatAt, CallRuns, Closed
  <2> QED BY <2>1, <2>2, ChatStep
<1> QED BY <1>1, <1>2, <1>3, <1>4, <1>5, <1>6 DEF CacheNext

\* The invariant holds in every reachable state.
THEOREM CacheInvAlways == CacheSpec => []CacheInv
<1> QED BY CacheInvInit, CacheInvStep, PTL DEF CacheSpec

\* However chats join, leave and are cancelled, the registry names exactly the
\* shared calls that run, and nobody ends for another (run, _run_and_cleanup, aclose,
\* _fetch_and_maybe_cache).
THEOREM SharingStaysInvisible == CacheSpec => []SharingIsInvisible
<1>1. CacheInv => SharingIsInvisible
  BY DEF CacheInv, ChatStands, CallStands, ChatAt, CallAt, SharingIsInvisible, NobodyEndsForAnother
<1> QED BY <1>1, CacheInvAlways, PTL

-----------------------------------------------------------------------------
(* Checkpoints.  The random part of a version is the id of its checkpoint: *)
(* a put never touches what another version answers, and what a run has    *)
(* read stays what it would read until its thread is deleted.              *)

\* The checkpoints put so far.
Puts == Cardinality(DOMAIN put)

Versions == Nat \X (0..Puts)
VersionsOfChannels == [SavedChannels -> Versions]
ChannelValues == [SavedChannels -> Runs \cup {NoValue}]
PendingWrites == [id : Nat, channel : SavedChannels, value : Runs]

RunRecords ==
    [at : {"idle", "reading", "loaded"}, id : 0..Puts, versions : VersionsOfChannels,
     values : ChannelValues, unread : SUBSET SavedChannels,
     pending : SUBSET PendingWrites, overtaken : BOOLEAN]

SaverTypeOK ==
    /\ Puts \in Nat
    /\ DOMAIN put = 1..Puts
    /\ put \in [1..Puts -> [values : ChannelValues, whole : BOOLEAN]]
    /\ checkpoints \subseteq [id : 1..Puts, parent : 0..Puts, versions : VersionsOfChannels]
    /\ blobs \subseteq [channel : SavedChannels, version : Versions, value : Runs \cup {NoValue}]
    /\ writes \subseteq PendingWrites
    /\ run \in [Runs -> RunRecords]

\* What _load_blobs answers for version v of channel c: x, and nothing else.
Answers(c, v, x) ==
    /\ \A b \in blobs : b.channel = c /\ b.version = v => b.value = x
    /\ (~\E b \in blobs : b.channel = c /\ b.version = v) => x = NoValue

BlobsAreUnique ==
    \A a, b \in blobs : a.channel = b.channel /\ a.version = b.version => a.value = b.value

\* A whole checkpoint is read back as it was put.
WholeOnesReadBack ==
    \A k \in checkpoints :
        put[k.id].whole =>
            \A c \in SavedChannels : Answers(c, k.versions[c], put[k.id].values[c])

\* What a run has read is still what it would read, unless its thread was deleted.
RunStands(r) ==
    run[r].at # "idle" /\ run[r].id # 0 /\ ~run[r].overtaken =>
        /\ \E k \in checkpoints : k.id = run[r].id /\ k.versions = run[r].versions
        /\ \A c \in SavedChannels \ run[r].unread :
              Answers(c, run[r].versions[c], run[r].values[c])

RunIsPlaced(r) ==
    /\ run[r].at = "reading" => run[r].id # 0
    /\ run[r].at = "loaded" => run[r].unread = {}
    /\ run[r].at = "idle" => run[r].id = 0 /\ run[r].unread = {}

SaverInv ==
    /\ SaverTypeOK
    /\ BlobsAreUnique
    /\ WholeOnesReadBack
    /\ \A r \in Runs : RunStands(r) /\ RunIsPlaced(r)

\* There is no checkpoint at first.
LEMMA SaverStarts == SaverInit => SaverInv
<1> SUFFICES ASSUME SaverInit PROVE SaverInv
  OBVIOUS
<1>1. DOMAIN put = {} /\ Puts = 0
  BY FS_EmptySet DEF SaverInit, Puts
<1>2. SaverTypeOK
  BY <1>1 DEF SaverInit, SaverTypeOK, RunRecords, NothingRead, NoVersion,
     VersionsOfChannels, Versions, ChannelValues, PendingWrites
<1> QED BY <1>2 DEF SaverInit, SaverInv, BlobsAreUnique, WholeOnesReadBack, RunStands,
        RunIsPlaced, NothingRead

\* Ids are counted without a gap, and a next checkpoint has the next one.
LEMMA PutsGrow ==
    ASSUME SaverTypeOK, DOMAIN put' = 1..NextId
    PROVE  Puts \in Nat /\ NextId = Puts + 1 /\ Puts' = Puts + 1
<1>1. Puts \in Nat
  BY DEF SaverTypeOK
<1>2. NextId = Puts + 1
  BY DEF NextId, Puts
<1>3. Cardinality(1..(Puts + 1)) = Puts + 1
  BY <1>1, FS_Interval
<1> QED BY <1>1, <1>2, <1>3 DEF Puts

\* While nothing is stored or deleted, one run moves on and the others stand as they did.
LEMMA RunMovesOn ==
    ASSUME SaverInv, NEW r \in Runs, UNCHANGED <<checkpoints, blobs, put>>,
           writes' \subseteq PendingWrites,
           NEW g \in RunRecords,
           run' = [run EXCEPT ![r] = g], RunStands(r)', RunIsPlaced(r)'
    PROVE  SaverInv'
<1>1. Puts' = Puts
  BY DEF Puts
<1>2. SaverTypeOK'
  BY <1>1 DEF SaverInv, SaverTypeOK, RunRecords, VersionsOfChannels, Versions,
     ChannelValues, PendingWrites
<1>3. \A s \in Runs \ {r} : run'[s] = run[s]
  BY DEF SaverInv, SaverTypeOK, RunRecords
<1>4. \A s \in Runs : (RunStands(s) /\ RunIsPlaced(s))'
  <2> TAKE s \in Runs
  <2>1. CASE s = r
    BY <2>1
  <2>2. CASE s # r
    BY <2>2, <1>3 DEF SaverInv, RunStands, RunIsPlaced, Answers
  <2> QED BY <2>1, <2>2
<1>5. BlobsAreUnique' /\ WholeOnesReadBack'
  BY DEF SaverInv, BlobsAreUnique, WholeOnesReadBack, Answers
<1> QED BY <1>2, <1>4, <1>5 DEF SaverInv

\* An idle run is typed.
LEMMA NothingReadIsTyped == ASSUME Puts \in Nat PROVE NothingRead \in RunRecords
<1>1. NoVersion \in Versions
  BY DEF NoVersion, Versions
<1> QED BY <1>1 DEF RunRecords, NothingRead, VersionsOfChannels, ChannelValues

\* A run that reads the row has read no channel yet.
LEMMA ReadRowKeeps == ASSUME SaverInv, NEW r \in Runs, ReadRow(r) PROVE SaverInv'
<1>0. /\ run[r].at = "idle" /\ run[r].id = 0 /\ run[r].unread = {}
      /\ UNCHANGED <<checkpoints, blobs, put>> /\ writes' \subseteq PendingWrites
  BY DEF SaverInv, RunIsPlaced, SaverTypeOK, PendingWrites, ReadRow
<1>1. CASE /\ checkpoints = {}
           /\ run' = [run EXCEPT ![r].at = "loaded"]
  <2> DEFINE g == [run[r] EXCEPT !.at = "loaded"]
  <2>1. run' = [run EXCEPT ![r] = g]
    BY <1>1
  <2>2. g \in RunRecords
    BY DEF SaverInv, SaverTypeOK, RunRecords
  <2>3. run'[r] = g /\ g.at = "loaded" /\ g.id = 0 /\ g.unread = {}
    BY <1>0, <2>1 DEF SaverInv, SaverTypeOK, RunRecords
  <2> HIDE DEF g
  <2>4. RunStands(r)' /\ RunIsPlaced(r)'
    BY <1>0, <2>3 DEF RunStands, RunIsPlaced
  <2> QED BY <1>0, <2>1, <2>2, <2>4, RunMovesOn
<1>2. ASSUME NEW k \in checkpoints,
             run' = [run EXCEPT ![r] = [NothingRead EXCEPT
                    !.at = "reading", !.id = k.id, !.versions = k.versions,
                    !.unread = SavedChannels]]
      PROVE  SaverInv'
  <2> DEFINE g == [NothingRead EXCEPT
                    !.at = "reading", !.id = k.id, !.versions = k.versions,
                    !.unread = SavedChannels]
  <2>1. run' = [run EXCEPT ![r] = g] /\ checkpoints' = checkpoints
    BY <1>0, <1>2
  <2>2. k.id \in 1..Puts /\ Puts \in Nat /\ k.versions \in VersionsOfChannels
    BY DEF SaverInv, SaverTypeOK
  <2>3. g \in RunRecords
    <3>1. k.id \in 0..Puts
      BY <2>2
    <3>2. NothingRead \in RunRecords
      BY <2>2, NothingReadIsTyped
    <3> QED BY <2>2, <3>1, <3>2 DEF RunRecords
  <2>4. g.at = "reading" /\ g.id = k.id /\ g.versions = k.versions /\ g.unread = SavedChannels
    BY DEF NothingRead
  <2> HIDE DEF g
  <2>5. run'[r] = g
    BY <2>1 DEF SaverInv, SaverTypeOK
  <2>6. RunStands(r)' /\ RunIsPlaced(r)'
    BY <2>1, <2>2, <2>4, <2>5 DEF RunStands, RunIsPlaced
  <2> QED BY <1>0, <2>1, <2>3, <2>6, RunMovesOn
<1> QED BY <1>1, <1>2 DEF ReadRow

\* What is read of one channel is what its version answers, as blobs are unique.
LEMMA ReadBlobKeeps ==
    ASSUME SaverInv, NEW r \in Runs, NEW c \in SavedChannels, ReadBlob(r, c) PROVE SaverInv'
<1> DEFINE found == {b \in blobs : b.channel = c /\ b.version = run[r].versions[c]}
           x == IF found = {} THEN NoValue ELSE (CHOOSE b \in found : TRUE).value
           g == [run[r] EXCEPT !.unread = @ \ {c}, !.values[c] = x]
<1>1. /\ run' = [run EXCEPT ![r] = g] /\ run[r].at = "reading"
      /\ UNCHANGED <<checkpoints, blobs, writes, put>>
  BY DEF ReadBlob, SaverInv, SaverTypeOK, RunRecords
<1>2. x \in Runs \cup {NoValue} /\ Answers(c, run[r].versions[c], x)
  <2>1. CASE found = {}
    BY <2>1 DEF Answers
  <2>2. CASE found # {}
    <3>1. PICK b \in found : b = CHOOSE a \in found : TRUE
      BY <2>2
    <3>2. x = b.value /\ b \in blobs
      BY <2>2, <3>1
    <3>3. b.value \in Runs \cup {NoValue}
      BY <3>2 DEF SaverInv, SaverTypeOK, RunRecords
    <3> HIDE DEF x
    <3> QED BY <3>2, <3>3 DEF Answers, SaverInv, BlobsAreUnique
  <2> QED BY <2>1, <2>2
<1> HIDE DEF x
<1>3. g \in RunRecords
  BY <1>2 DEF SaverInv, SaverTypeOK, RunRecords, ChannelValues
<1>4. /\ run'[r] = g
      /\ g.at = "reading" /\ g.id = run[r].id /\ g.versions = run[r].versions
      /\ g.unread = run[r].unread \ {c} /\ g.overtaken = run[r].overtaken
      /\ g.values[c] = x
      /\ \A d \in SavedChannels \ {c} : g.values[d] = run[r].values[d]
  BY <1>1 DEF SaverInv, SaverTypeOK, RunRecords, ChannelValues
<1> HIDE DEF g
<1>5. RunStands(r)' /\ RunIsPlaced(r)'
  BY <1>1, <1>2, <1>4 DEF SaverInv, RunStands, RunIsPlaced, Answers
<1>6. writes' \subseteq PendingWrites
  BY <1>1 DEF SaverInv, SaverTypeOK, RunRecords, PendingWrites
<1> QED BY <1>1, <1>3, <1>5, <1>6, RunMovesOn

\* Pending writes leave what was read of the channels alone.
LEMMA ReadWritesKeeps == ASSUME SaverInv, NEW r \in Runs, ReadWrites(r) PROVE SaverInv'
<1> DEFINE g == [run[r] EXCEPT !.at = "loaded", !.pending = {w \in writes : w.id = run[r].id}]
<1>1. /\ run' = [run EXCEPT ![r] = g] /\ run[r].at = "reading" /\ run[r].unread = {}
      /\ UNCHANGED <<checkpoints, blobs, writes, put>>
  BY DEF ReadWrites, SaverInv, SaverTypeOK, RunRecords
<1>2. writes' \subseteq PendingWrites
  BY <1>1 DEF SaverInv, SaverTypeOK, RunRecords, PendingWrites
<1>3. g \in RunRecords
  BY DEF SaverInv, SaverTypeOK, RunRecords
<1>4. /\ run'[r] = g
      /\ g.at = "loaded" /\ g.id = run[r].id /\ g.versions = run[r].versions
      /\ g.unread = run[r].unread /\ g.overtaken = run[r].overtaken /\ g.values = run[r].values
  BY <1>1 DEF SaverInv, SaverTypeOK, RunRecords
<1> HIDE DEF g
<1>5. RunStands(r)' /\ RunIsPlaced(r)'
  BY <1>1, <1>4 DEF SaverInv, RunStands, RunIsPlaced, Answers
<1> QED BY <1>1, <1>2, <1>3, <1>5, RunMovesOn

\* Writes are no part of what a checkpoint answers.
LEMMA PutWritesKeeps ==
    ASSUME SaverInv, NEW r \in Runs, NEW channels \in NodeWrites, PutWrites(r, channels)
    PROVE  SaverInv'
<1> DEFINE Result(c) == [id |-> run[r].id, channel |-> c, value |-> r]
           g == [run[r] EXCEPT !.pending = {Result(c) : c \in channels}]
<1>1. /\ run' = [run EXCEPT ![r] = g] /\ run[r].at = "loaded"
      /\ UNCHANGED <<checkpoints, blobs, put>>
  BY DEF PutWrites, SaverInv, SaverTypeOK, RunRecords
<1>2. \A c \in channels : Result(c) \in PendingWrites
  BY SaverAssumption DEF SaverInv, SaverTypeOK, RunRecords, PendingWrites
<1>3. writes' \subseteq writes \cup {Result(c) : c \in channels}
  BY DEF PutWrites
<1>4. writes' \subseteq PendingWrites
  BY <1>2, <1>3 DEF SaverInv, SaverTypeOK, RunRecords
<1>5. g \in RunRecords
  BY <1>2 DEF SaverInv, SaverTypeOK, RunRecords
<1>6. /\ run'[r] = g
      /\ g.at = "loaded" /\ g.id = run[r].id /\ g.versions = run[r].versions
      /\ g.unread = run[r].unread /\ g.overtaken = run[r].overtaken /\ g.values = run[r].values
  BY <1>1 DEF SaverInv, SaverTypeOK, RunRecords
<1> HIDE DEF g
<1>7. RunStands(r)' /\ RunIsPlaced(r)'
  BY <1>1, <1>6 DEF SaverInv, RunStands, RunIsPlaced, Answers
<1> QED BY <1>1, <1>4, <1>5, <1>7, RunMovesOn

\* A run that ends knows nothing.
LEMMA EndKeeps == ASSUME SaverInv, NEW r \in Runs, End(r) PROVE SaverInv'
<1>1. run' = [run EXCEPT ![r] = NothingRead] /\ UNCHANGED <<checkpoints, blobs, writes, put>>
  BY DEF End
<1>2. writes' \subseteq PendingWrites
  BY <1>1 DEF SaverInv, SaverTypeOK, RunRecords, PendingWrites
<1>3. NothingRead \in RunRecords
  BY NothingReadIsTyped DEF SaverInv, SaverTypeOK
<1>4. run'[r] = NothingRead
  BY <1>1 DEF SaverInv, SaverTypeOK, RunRecords
<1>5. RunStands(r)' /\ RunIsPlaced(r)'
  BY <1>4 DEF RunStands, RunIsPlaced, NothingRead
<1> QED BY <1>1, <1>2, <1>3, <1>5, RunMovesOn

\* What a node wrote, and otherwise what was read.
LEMMA ResultsAreTyped ==
    ASSUME SaverTypeOK, NEW r \in Runs
    PROVE  /\ Changed(r) \subseteq SavedChannels
           /\ Results(r) \in ChannelValues
           /\ \A c \in SavedChannels \ Changed(r) :
                 run[r].id # 0 /\ Results(r)[c] = run[r].values[c]
<1>1. /\ run[r].pending \subseteq PendingWrites
      /\ run[r].values \in [SavedChannels -> Runs \cup {NoValue}]
  BY DEF SaverTypeOK, RunRecords, ChannelValues
<1>2. \A w \in run[r].pending : w.channel \in SavedChannels /\ w.value \in Runs
  BY <1>1 DEF PendingWrites
<1>3. Changed(r) \subseteq SavedChannels
  BY <1>2 DEF Changed
<1>4. ASSUME NEW c \in SavedChannels
      PROVE  /\ Results(r)[c] \in Runs \cup {NoValue}
             /\ c \notin Changed(r) => run[r].id # 0 /\ Results(r)[c] = run[r].values[c]
  <2>1. CASE run[r].id = 0
    BY <2>1 DEF Results, Changed
  <2>2. CASE run[r].id # 0 /\ \E w \in run[r].pending : w.channel = c
    <3>1. PICK w \in run[r].pending : w = CHOOSE v \in run[r].pending : v.channel = c
      BY <2>2
    <3>2. Results(r)[c] = w.value
      BY <2>2, <3>1 DEF Results
    <3>3. c \in Changed(r)
      BY <2>2 DEF Changed
    <3> QED BY <1>2, <3>2, <3>3
  <2>3. CASE run[r].id # 0 /\ ~\E w \in run[r].pending : w.channel = c
    BY <1>1, <2>3 DEF Results
  <2> QED BY <2>1, <2>2, <2>3
<1>5. Results(r) \in [SavedChannels -> Runs \cup {NoValue}]
  BY <1>4 DEF Results
<1> QED BY <1>3, <1>4, <1>5 DEF ChannelValues

\* The versions of a put are new: it answers for the channels it changed, and every
\* earlier version still answers what it did.
LEMMA PutKeeps == ASSUME SaverInv, NEW r \in Runs, Put(r) PROVE SaverInv'
<1>0. PICK id, C, R, V, whole :
         /\ whole \in BOOLEAN /\ whole = ~run[r].overtaken
         /\ id = NextId /\ C = Changed(r) /\ R = Results(r)
         /\ V = [c \in SavedChannels |->
                   IF c \in C THEN NextVersion(run[r].versions[c], id) ELSE run[r].versions[c]]
  OBVIOUS
<1> DEFINE New(c) == [channel |-> c, version |-> V[c], value |-> R[c]]
           k == [id |-> id, parent |-> run[r].id, versions |-> V]
           g == [run[r] EXCEPT !.id = id, !.versions = V, !.values = R, !.pending = {}]
<1>1. /\ run[r].at = "loaded"
      /\ blobs' = {b \in blobs : ~(b.channel \in C /\ b.version = V[b.channel])}
                  \cup {New(c) : c \in C}
      /\ checkpoints' = checkpoints \cup {k}
      /\ put' = [i \in 1..id |-> IF i = id
               THEN [values |-> R, whole |-> whole] ELSE put[i]]
      /\ run' = [run EXCEPT ![r] = g]
      /\ writes' = writes
  BY <1>0 DEF Put
<1>2. Puts \in Nat /\ id = Puts + 1 /\ Puts' = Puts + 1 /\ DOMAIN put' = 1..(Puts + 1)
  <2>1. DOMAIN put' = 1..NextId
    BY <1>0, <1>1
  <2> QED BY <1>0, <2>1, PutsGrow DEF SaverInv
<1>3. /\ C \subseteq SavedChannels
      /\ R \in ChannelValues
      /\ \A c \in SavedChannels \ C : run[r].id # 0 /\ R[c] = run[r].values[c]
  BY <1>0, ResultsAreTyped DEF SaverInv
<1>4. /\ \A c \in SavedChannels : V[c] \in Nat \X (0..(Puts + 1))
      /\ \A c \in C : V[c][2] = Puts + 1
      /\ \A c \in SavedChannels \ C : V[c] = run[r].versions[c] /\ V[c] \in Versions
  <2>1. \A c \in SavedChannels : run[r].versions[c] \in Nat \X (0..Puts)
    BY DEF SaverInv, SaverTypeOK, RunRecords, VersionsOfChannels, Versions
  <2> QED BY <1>0, <1>2, <1>3, <2>1 DEF NextVersion, Versions
<1>5. V \in VersionsOfChannels'
  <2>1. V = [c \in SavedChannels |-> V[c]]
    BY <1>0
  <2> QED BY <1>2, <1>4, <2>1 DEF VersionsOfChannels, Versions
<1>6. \A v \in Versions : v[2] # Puts + 1 /\ v \in Versions'
  BY <1>2 DEF Versions
<1>7. blobs' = blobs \cup {New(c) : c \in C}
  <2>1. \A b \in blobs : b.version \in Versions
    BY DEF SaverInv, SaverTypeOK
  <2> QED BY <1>1, <1>4, <1>6, <2>1
<1>8. \A c \in C : New(c).channel = c /\ New(c).version = V[c] /\ New(c).value = R[c]
  OBVIOUS
<1>9. SaverTypeOK'
  <2>1. g \in RunRecords'
    <3>1. g.id \in 0..Puts' /\ g.versions \in VersionsOfChannels' /\ g.values \in ChannelValues
      BY <1>2, <1>3, <1>5 DEF SaverInv, SaverTypeOK, RunRecords
    <3>2. run[r] \in RunRecords
      BY DEF SaverInv, SaverTypeOK
    <3> QED BY <3>1, <3>2 DEF RunRecords, ChannelValues, PendingWrites
  <2>2. RunRecords \subseteq RunRecords'
    <3>1. 0..Puts \subseteq 0..Puts'
      BY <1>2
    <3>2. VersionsOfChannels \subseteq VersionsOfChannels'
      BY <1>6 DEF VersionsOfChannels
    <3> QED BY <3>1, <3>2 DEF RunRecords, ChannelValues, PendingWrites
  <2> HIDE DEF g
  <2>3. run' \in [Runs -> RunRecords']
    BY <1>1, <2>1, <2>2 DEF SaverInv, SaverTypeOK
  <2>4. put' \in [1..Puts' -> [values : ChannelValues, whole : BOOLEAN]]
    BY <1>0, <1>1, <1>2, <1>3 DEF SaverInv, SaverTypeOK
  <2>5. k \in [id : 1..Puts', parent : 0..Puts', versions : VersionsOfChannels']
    BY <1>2, <1>5 DEF SaverInv, SaverTypeOK, RunRecords
  <2>6. checkpoints' \subseteq [id : 1..Puts', parent : 0..Puts', versions : VersionsOfChannels']
    <3>1. \A h \in checkpoints :
             h \in [id : 1..Puts', parent : 0..Puts', versions : VersionsOfChannels']
      <4>1. 1..Puts \subseteq 1..Puts' /\ 0..Puts \subseteq 0..Puts'
        BY <1>2
      <4>2. VersionsOfChannels \subseteq VersionsOfChannels'
        BY <1>6 DEF VersionsOfChannels
      <4> QED BY <4>1, <4>2 DEF SaverInv, SaverTypeOK
    <3> HIDE DEF k
    <3> QED BY <1>1, <2>5, <3>1
  <2>7. \A c \in C :
          New(c) \in [channel : SavedChannels, version : Versions', value : Runs \cup {NoValue}]
    BY <1>3, <1>5 DEF VersionsOfChannels, ChannelValues
  <2>8. blobs' \subseteq [channel : SavedChannels, version : Versions', value : Runs \cup {NoValue}]
    BY <1>6, <1>7, <2>7 DEF SaverInv, SaverTypeOK
  <2> QED BY <1>1, <1>2, <2>3, <2>4, <2>6, <2>8
         DEF SaverInv, SaverTypeOK, ChannelValues, PendingWrites
<1> HIDE DEF New
<1>10. BlobsAreUnique'
  BY <1>4, <1>6, <1>7, <1>8 DEF BlobsAreUnique, SaverInv, SaverTypeOK
<1>11. ASSUME NEW c \in SavedChannels, NEW v \in Versions, NEW x, Answers(c, v, x)
       PROVE  Answers(c, v, x)'
  BY <1>4, <1>6, <1>7, <1>8, <1>11 DEF Answers
<1>12. \A c \in C : Answers(c, V[c], R[c])'
  <2> SUFFICES ASSUME NEW c \in C PROVE Answers(c, V[c], R[c])'
    OBVIOUS
  <2>1. ASSUME NEW b \in blobs', b.channel = c, b.version = V[c]
        PROVE  b.value = R[c]
    <3>1. b \notin blobs
      BY <1>4, <1>6, <2>1 DEF SaverInv, SaverTypeOK
    <3> QED BY <1>7, <1>8, <2>1, <3>1
  <2>2. New(c) \in blobs' /\ New(c).channel = c /\ New(c).version = V[c]
    BY <1>7, <1>8
  <2> QED BY <2>1, <2>2 DEF Answers
<1>13. ~run[r].overtaken => \A c \in SavedChannels : Answers(c, V[c], R[c])'
  <2> SUFFICES ASSUME ~run[r].overtaken, NEW c \in SavedChannels \ C
               PROVE  Answers(c, V[c], R[c])'
    BY <1>12
  <2>1. Answers(c, run[r].versions[c], run[r].values[c])
    BY <1>1, <1>3 DEF SaverInv, RunStands, RunIsPlaced
  <2>2. Answers(c, V[c], R[c]) /\ V[c] \in Versions
    BY <1>3, <1>4, <2>1
  <2> QED BY <1>11, <2>2
<1>14. WholeOnesReadBack'
  <2> SUFFICES ASSUME NEW h \in checkpoints', put'[h.id].whole, NEW c \in SavedChannels,
                      NEW x, x = put'[h.id].values[c]
               PROVE  Answers(c, h.versions[c], x)'
    BY DEF WholeOnesReadBack, Answers
  <2>1. CASE h \in checkpoints
    <3>1. h.id \in 1..Puts /\ h.versions[c] \in Versions
      BY <2>1 DEF SaverInv, SaverTypeOK, VersionsOfChannels
    <3>2. put'[h.id] = put[h.id]
      BY <1>1, <1>2, <3>1
    <3>3. Answers(c, h.versions[c], x)
      BY <2>1, <3>2 DEF SaverInv, WholeOnesReadBack
    <3> QED BY <1>11, <3>1, <3>3
  <2>2. CASE h = k
    <3>1. h.id = id /\ h.versions = V
      BY <2>2
    <3>2. put'[h.id] = [values |-> R, whole |-> whole]
      BY <1>1, <1>2, <3>1
    <3>3. ~run[r].overtaken
      <4>1. put'[h.id].whole = whole
        BY <3>2
      <4> QED BY <1>0, <4>1
    <3>4. x = R[c]
      BY <3>2
    <3> HIDE DEF k
    <3> QED BY <1>13, <3>1, <3>3, <3>4 DEF Answers
  <2> HIDE DEF k
  <2> QED BY <1>1, <2>1, <2>2
<1>15. \A s \in Runs : (RunStands(s) /\ RunIsPlaced(s))'
  <2> SUFFICES ASSUME NEW s \in Runs PROVE RunStands(s)' /\ RunIsPlaced(s)'
    OBVIOUS
  <2>1. CASE s = r
    <3>1. /\ run'[r] = g
          /\ g.at = "loaded" /\ g.id = id /\ g.versions = V /\ g.values = R
          /\ g.unread = run[r].unread /\ g.overtaken = run[r].overtaken
      BY <1>1 DEF SaverInv, SaverTypeOK, RunRecords
    <3>2. run[r].unread = {}
      BY <1>1 DEF SaverInv, RunIsPlaced
    <3>3. k \in checkpoints' /\ k.id = id /\ k.versions = V
      BY <1>1
    <3> HIDE DEF g, k
    <3>4. RunIsPlaced(r)'
      BY <3>1, <3>2 DEF RunIsPlaced
    <3>5. RunStands(r)'
      BY <1>13, <3>1, <3>2, <3>3 DEF RunStands, Answers
    <3> QED BY <2>1, <3>4, <3>5
  <2>2. CASE s # r
    <3>1. run'[s] = run[s] /\ checkpoints \subseteq checkpoints'
      BY <1>1, <2>2 DEF SaverInv, SaverTypeOK
    <3>2. RunIsPlaced(s)'
      BY <3>1 DEF SaverInv, RunIsPlaced
    <3>3. \A c \in SavedChannels : run[s].versions[c] \in Versions
      BY DEF SaverInv, SaverTypeOK, RunRecords, VersionsOfChannels
    <3>4. ASSUME NEW c \in SavedChannels, Answers(c, run[s].versions[c], run[s].values[c])
          PROVE  Answers(c, run[s].versions[c], run[s].values[c])'
      <4>1. PICK v, x : v = run[s].versions[c] /\ x = run[s].values[c]
        OBVIOUS
      <4>2. Answers(c, v, x)'
        BY <1>11, <3>3, <3>4, <4>1
      <4> QED BY <3>1, <4>1, <4>2 DEF Answers
    <3>5. RunStands(s)'
      BY <3>1, <3>4 DEF SaverInv, RunStands
    <3> QED BY <3>2, <3>5
  <2> QED BY <2>1, <2>2
<1> QED BY <1>9, <1>10, <1>14, <1>15 DEF SaverInv

\* Who was under way when the thread was deleted is overtaken; nothing else is left.
LEMMA ForgetKeeps == ASSUME SaverInv, ForgetThread PROVE SaverInv'
<1>1. /\ checkpoints' = {} /\ blobs' = {} /\ writes' = {}
      /\ run' = [r \in Runs |-> [run[r] EXCEPT !.overtaken = run[r].at # "idle"]]
      /\ put' = [i \in 1..NextId |-> [values |-> NothingRead.values, whole |-> FALSE]]
  BY DEF ForgetThread
<1>2. Puts \in Nat /\ NextId = Puts + 1 /\ Puts' = Puts + 1 /\ DOMAIN put' = 1..NextId
  BY <1>1, PutsGrow DEF SaverInv
<1>3. RunRecords \subseteq RunRecords'
  <2>1. 0..Puts \subseteq 0..Puts' /\ Versions \subseteq Versions'
    BY <1>2 DEF Versions
  <2>2. VersionsOfChannels \subseteq VersionsOfChannels'
    BY <2>1 DEF VersionsOfChannels
  <2> QED BY <2>1, <2>2 DEF RunRecords, ChannelValues, PendingWrites
<1>4. ASSUME NEW r \in Runs
      PROVE  /\ run'[r] \in RunRecords
             /\ run'[r].at = run[r].at /\ run'[r].id = run[r].id /\ run'[r].unread = run[r].unread
             /\ run'[r].overtaken = (run[r].at # "idle")
  <2>1. run[r] \in RunRecords /\ run'[r] = [run[r] EXCEPT !.overtaken = run[r].at # "idle"]
    BY <1>1 DEF SaverInv, SaverTypeOK
  <2>2. (run[r].at # "idle") \in BOOLEAN
    OBVIOUS
  <2> QED BY <2>1, <2>2 DEF RunRecords
<1>5. run' \in [Runs -> RunRecords']
  BY <1>1, <1>3, <1>4
<1>6. NothingRead.values \in ChannelValues
  BY <1>2, NothingReadIsTyped DEF RunRecords
<1>7. SaverTypeOK'
  <2>1. put' \in [1..Puts' -> [values : ChannelValues, whole : BOOLEAN]]
    BY <1>1, <1>2, <1>6
  <2> QED BY <1>1, <1>2, <1>5, <2>1 DEF SaverTypeOK, ChannelValues
<1>8. \A r \in Runs : (RunStands(r) /\ RunIsPlaced(r))'
  BY <1>4 DEF SaverInv, RunStands, RunIsPlaced
<1>9. BlobsAreUnique' /\ WholeOnesReadBack'
  BY <1>1 DEF BlobsAreUnique, WholeOnesReadBack
<1> QED BY <1>7, <1>8, <1>9 DEF SaverInv

\* One value answers for a version.
LEMMA AnswersAgree ==
    ASSUME NEW c, NEW v, NEW x, NEW y, Answers(c, v, x), Answers(c, v, y)
    PROVE  x = y
BY DEF Answers

\* What was read and what was put answer for the same versions.
LEMMA SaverInvReadsBack == SaverInv => CheckpointsReadBackWhole
<1> SUFFICES ASSUME SaverInv, NEW r \in Runs, run[r].at = "loaded", run[r].id # 0,
                    ~run[r].overtaken, put[run[r].id].whole
             PROVE  run[r].values = put[run[r].id].values
  BY DEF CheckpointsReadBackWhole
<1>1. PICK k \in checkpoints : k.id = run[r].id /\ k.versions = run[r].versions
  BY DEF SaverInv, RunStands
<1>2. \A c \in SavedChannels : Answers(c, run[r].versions[c], put[run[r].id].values[c])
  BY <1>1 DEF SaverInv, WholeOnesReadBack
<1>3. \A c \in SavedChannels : Answers(c, run[r].versions[c], run[r].values[c])
  BY DEF SaverInv, RunStands, RunIsPlaced
<1>4. \A c \in SavedChannels : run[r].values[c] = put[run[r].id].values[c]
  BY <1>2, <1>3, AnswersAgree
<1>5. run[r].id \in 1..Puts
  BY <1>1 DEF SaverInv, SaverTypeOK
<1>6. run[r].values \in ChannelValues /\ put[run[r].id].values \in ChannelValues
  BY <1>5 DEF SaverInv, SaverTypeOK, RunRecords
<1> QED BY <1>4, <1>6 DEF ChannelValues

\* A checkpoint is read back as it was put, whatever runs overlap, for any channels and
\* any number of runs and checkpoints (AsyncSqliteSaver put, get_tuple).
THEOREM CheckpointsAlwaysReadBack ==
    SaverInit /\ [][SaverNext]_saverVars => []CheckpointsReadBackWhole
<1>1. SaverInit => SaverInv
  BY SaverStarts
<1>2. SaverInv /\ [SaverNext]_saverVars => SaverInv'
  <2> SUFFICES ASSUME SaverInv, [SaverNext]_saverVars PROVE SaverInv'
    OBVIOUS
  <2>1. ASSUME NEW r \in Runs, ReadRow(r) PROVE SaverInv'
    BY <2>1, ReadRowKeeps
  <2>2. ASSUME NEW r \in Runs, NEW c \in SavedChannels, ReadBlob(r, c) PROVE SaverInv'
    BY <2>2, ReadBlobKeeps
  <2>3. ASSUME NEW r \in Runs, ReadWrites(r) PROVE SaverInv'
    BY <2>3, ReadWritesKeeps
  <2>4. ASSUME NEW r \in Runs, NEW channels \in NodeWrites, PutWrites(r, channels)
        PROVE  SaverInv'
    BY <2>4, PutWritesKeeps
  <2>5. ASSUME NEW r \in Runs, Put(r) PROVE SaverInv'
    BY <2>5, PutKeeps
  <2>6. ASSUME NEW r \in Runs, End(r) PROVE SaverInv'
    BY <2>6, EndKeeps
  <2>7. CASE ForgetThread
    BY <2>7, ForgetKeeps
  <2>8. CASE UNCHANGED saverVars
    BY <2>8 DEF saverVars, SaverInv, SaverTypeOK, RunRecords, Puts, Versions,
       VersionsOfChannels, ChannelValues, PendingWrites, BlobsAreUnique,
       WholeOnesReadBack, RunStands, RunIsPlaced, Answers
  <2> QED BY <2>1, <2>2, <2>3, <2>4, <2>5, <2>6, <2>7, <2>8 DEF SaverNext
<1> QED BY <1>1, <1>2, SaverInvReadsBack, PTL

-----------------------------------------------------------------------------
(* Submissions                                                             *)

\* Audit records of n submissions.
Records(n) == [event : {"submitted", "idempotent_replay"}, id : 1..n,
               draft : {asked.draft.id : asked \in Calls}]

\* Receipts and records name the submissions so far, which are numbered.
SubmissionsAreNumbered ==
    /\ IsFiniteSet(stored)
    /\ trail \in Seq(Records(Cardinality(stored)))
    /\ \A s \in stored : s.id \in 1..Cardinality(stored)

LocalSubmissionInv == SubmissionsAreNumbered /\ ReceiptsAreAudited

\* There are no receipts at first.
LEMMA LocalSubmissionStarts == LocalSubmissionInit => LocalSubmissionInv
BY FS_EmptySet DEF LocalSubmissionInit, LocalSubmissionInv, SubmissionsAreNumbered,
   ReceiptsAreAudited

\* The audit grows at its end.
LEMMA AuditGrows ==
    ASSUME trail \in Seq(Records(Cardinality(stored))), NEW event, NEW s,
           Audited(event, s)
    PROVE  /\ Len(trail) \in Nat /\ DOMAIN trail = 1..Len(trail)
           /\ DOMAIN trail' = 1..(Len(trail) + 1)
           /\ \A i \in DOMAIN trail : trail'[i] = trail[i]
           /\ trail'[Len(trail) + 1] = [event |-> event, id |-> s.id, draft |-> s.draft]
<1> DEFINE e == [event |-> event, id |-> s.id, draft |-> s.draft]
<1>1. trail' = Append(trail, e)
  BY DEF Audited
<1> HIDE DEF e
<1>2. /\ Len(trail) \in Nat /\ DOMAIN trail = 1..Len(trail)
      /\ DOMAIN trail' = 1..(Len(trail) + 1)
      /\ \A i \in DOMAIN trail : trail'[i] = trail[i]
      /\ trail'[Len(trail) + 1] = e
  BY <1>1
<1> QED BY <1>2 DEF e

\* A replay adds a record that is not the first of its receipt.
LEMMA ReplayKeeps ==
    ASSUME LocalSubmissionInv, NEW asked \in Calls, Replay(asked) PROVE LocalSubmissionInv'
<1>1. PICK s \in stored : /\ s.draft = asked.draft.id
                          /\ Audited("idempotent_replay", s)
  BY DEF Replay, BoundTo
<1>2. stored' = stored
  BY DEF Replay
<1>3. trail \in Seq(Records(Cardinality(stored)))
  BY DEF LocalSubmissionInv, SubmissionsAreNumbered, Records
<1>4. /\ Len(trail) \in Nat /\ DOMAIN trail = 1..Len(trail)
      /\ DOMAIN trail' = 1..(Len(trail) + 1)
      /\ \A i \in DOMAIN trail : trail'[i] = trail[i]
      /\ trail'[Len(trail) + 1] = [event |-> "idempotent_replay", id |-> s.id, draft |-> s.draft]
  BY <1>1, <1>3, AuditGrows
<1>5. SubmissionsAreNumbered'
  <2>1. [event |-> "idempotent_replay", id |-> s.id, draft |-> s.draft]
           \in Records(Cardinality(stored))
    BY <1>1 DEF Records, LocalSubmissionInv, SubmissionsAreNumbered
  <2>2. trail' \in Seq(Records(Cardinality(stored)))
    BY <1>1, <1>3, <2>1 DEF Audited
  <2> QED BY <1>2, <2>2 DEF LocalSubmissionInv, SubmissionsAreNumbered, Records
<1>6. ASSUME NEW t \in stored
      PROVE  LET entries == {i \in DOMAIN trail' : trail'[i].id = t.id}
             IN  /\ entries # {}
                 /\ \A i \in entries :
                      /\ trail'[i].draft = t.draft
                      /\ trail'[i].event = "submitted" <=> \A j \in entries : i <= j
  <2> DEFINE old == {i \in DOMAIN trail : trail[i].id = t.id}
             entries == {i \in DOMAIN trail' : trail'[i].id = t.id}
             n == Len(trail) + 1
  <2>1. /\ old # {}
        /\ \A i \in old :
              /\ trail[i].draft = t.draft
              /\ trail[i].event = "submitted" <=> \A j \in old : i <= j
    BY DEF LocalSubmissionInv, ReceiptsAreAudited
  <2>2. entries = IF s.id = t.id THEN old \cup {n} ELSE old
    BY <1>4
  <2>3. \A i \in old : i \in Nat /\ i < n /\ trail'[i] = trail[i]
    BY <1>4
  <2>4. s.id = t.id => s = t
    BY DEF LocalSubmissionInv, ReceiptsAreAudited
  <2>5. trail'[n].event # "submitted" /\ trail'[n].draft = s.draft
    BY <1>4
  <2> HIDE DEF old, entries, n
  <2>6. entries # {}
    BY <2>1, <2>2
  <2>7. \A i \in entries : trail'[i].draft = t.draft
    BY <2>1, <2>2, <2>3, <2>4, <2>5
  <2>8. \A i \in old : (\A j \in entries : i <= j) <=> (\A j \in old : i <= j)
    BY <1>4, <2>2, <2>3 DEF n
  <2>9. ~\A j \in entries : n <= j
    BY <1>4, <2>1, <2>2, <2>3 DEF n
  <2>10. \A i \in entries : trail'[i].event = "submitted" <=> \A j \in entries : i <= j
    BY <2>1, <2>2, <2>3, <2>5, <2>8, <2>9
  <2> QED BY <2>6, <2>7, <2>10 DEF entries
<1>7. ReceiptsAreAudited'
  BY <1>2, <1>6 DEF LocalSubmissionInv, ReceiptsAreAudited
<1> QED BY <1>5, <1>7 DEF LocalSubmissionInv

\* A submission has a new id, draft and key, and the first record of its receipt.
LEMMA SubmitKeeps ==
    ASSUME LocalSubmissionInv, NEW asked \in Calls, Submit(asked) PROVE LocalSubmissionInv'
<1>1. PICK s : /\ s = [key |-> asked.key, draft |-> asked.draft.id, id |-> SubmissionId,
                       employee |-> asked.caller, session |-> asked.session]
               /\ stored' = stored \cup {s}
               /\ Audited("submitted", s)
  BY DEF Submit
<1>2. s.id = SubmissionId /\ s.draft = asked.draft.id /\ s.key = asked.key
  BY <1>1
<1>3. \A t \in stored : t.draft # s.draft /\ t.key # s.key
  BY <1>2 DEF Submit, BoundTo, Unbound
<1>4. /\ Cardinality(stored) \in Nat /\ s.id = Cardinality(stored) + 1
      /\ IsFiniteSet(stored') /\ Cardinality(stored') = Cardinality(stored) + 1
  BY <1>1, <1>2, <1>3, FS_CardinalityType, FS_AddElement
     DEF LocalSubmissionInv, SubmissionsAreNumbered, SubmissionId
<1>5. trail \in Seq(Records(Cardinality(stored)))
  BY DEF LocalSubmissionInv, SubmissionsAreNumbered, Records
<1>6. /\ Len(trail) \in Nat /\ DOMAIN trail = 1..Len(trail)
      /\ DOMAIN trail' = 1..(Len(trail) + 1)
      /\ \A i \in DOMAIN trail : trail'[i] = trail[i] /\ trail[i].id # s.id
      /\ trail'[Len(trail) + 1] = [event |-> "submitted", id |-> s.id, draft |-> s.draft]
  <2>1. \A i \in 1..Len(trail) : trail[i] \in Records(Cardinality(stored))
    BY <1>5
  <2>2. \A i \in 1..Len(trail) : trail[i].id # s.id
    BY <1>4, <2>1 DEF Records
  <2> QED BY <1>1, <1>5, <2>2, AuditGrows
<1>7. SubmissionsAreNumbered'
  <2>1. Records(Cardinality(stored)) \subseteq Records(Cardinality(stored'))
    BY <1>4 DEF Records
  <2>2. [event |-> "submitted", id |-> s.id, draft |-> s.draft] \in Records(Cardinality(stored'))
    BY <1>2, <1>4 DEF Records
  <2>3. trail' \in Seq(Records(Cardinality(stored')))
    <3>1. \A i \in 1..Len(trail) : trail[i] \in Records(Cardinality(stored'))
      BY <1>5, <2>1
    <3>2. trail \in Seq(Records(Cardinality(stored')))
      BY <1>5, <3>1
    <3> QED BY <1>1, <2>2, <3>2 DEF Audited
  <2>4. \A t \in stored' : t.id \in 1..Cardinality(stored')
    BY <1>1, <1>4 DEF LocalSubmissionInv, SubmissionsAreNumbered
  <2> QED BY <1>4, <2>3, <2>4 DEF SubmissionsAreNumbered, Records
<1>8. \A a, b \in stored' : a.draft = b.draft \/ a.key = b.key \/ a.id = b.id => a = b
  <2>1. \A t \in stored : t.id # s.id
    BY <1>4 DEF LocalSubmissionInv, SubmissionsAreNumbered
  <2> QED BY <1>1, <1>3, <2>1 DEF LocalSubmissionInv, ReceiptsAreAudited
<1>9. ASSUME NEW t \in stored'
      PROVE  LET entries == {i \in DOMAIN trail' : trail'[i].id = t.id}
             IN  /\ entries # {}
                 /\ \A i \in entries :
                      /\ trail'[i].draft = t.draft
                      /\ trail'[i].event = "submitted" <=> \A j \in entries : i <= j
  <2>1. CASE t = s
    <3>1. {i \in DOMAIN trail' : trail'[i].id = t.id} = {Len(trail) + 1}
      BY <1>6, <2>1
    <3> QED BY <1>6, <2>1, <3>1
  <2>2. CASE t \in stored
    <3>1. t.id # s.id
      BY <1>4, <2>2 DEF LocalSubmissionInv, SubmissionsAreNumbered
    <3>2. {i \in DOMAIN trail' : trail'[i].id = t.id} = {i \in DOMAIN trail : trail[i].id = t.id}
      BY <1>6, <3>1
    <3> QED BY <1>6, <2>2, <3>2 DEF LocalSubmissionInv, ReceiptsAreAudited
  <2> QED BY <1>1, <2>1, <2>2
<1> QED BY <1>7, <1>8, <1>9 DEF LocalSubmissionInv, ReceiptsAreAudited

\* No draft has two receipts and no key two drafts, and the audit of each receipt begins
\* with its submission, for any calls and however many (submit, _submit_transaction).
THEOREM ReceiptsAlwaysAudited ==
    LocalSubmissionInit /\ [][LocalSubmissionNext]_localSubmissionVars => []ReceiptsAreAudited
<1>1. LocalSubmissionInit => LocalSubmissionInv
  BY LocalSubmissionStarts
<1>2. LocalSubmissionInv /\ [LocalSubmissionNext]_localSubmissionVars => LocalSubmissionInv'
  <2> SUFFICES ASSUME LocalSubmissionInv, [LocalSubmissionNext]_localSubmissionVars
               PROVE  LocalSubmissionInv'
    OBVIOUS
  <2>1. ASSUME NEW asked \in Calls, Replay(asked) PROVE LocalSubmissionInv'
    BY <2>1, ReplayKeeps
  <2>2. ASSUME NEW asked \in Calls, Submit(asked) PROVE LocalSubmissionInv'
    BY <2>2, SubmitKeeps
  <2>3. CASE UNCHANGED localSubmissionVars
    BY <2>3 DEF localSubmissionVars, LocalSubmissionInv, SubmissionsAreNumbered,
       ReceiptsAreAudited
  <2> QED BY <2>1, <2>2, <2>3 DEF LocalSubmissionNext
<1>3. LocalSubmissionInv => ReceiptsAreAudited
  BY DEF LocalSubmissionInv
<1> QED BY <1>1, <1>2, <1>3, PTL

-----------------------------------------------------------------------------
(* Memory of a conversation: what is sanitized, counted, read and kept.     *)

\* A sequence of pieces none of which is of a credential.
Clean(s) == \E P : s \in Seq(P) /\ "secret" \notin P

\* The pieces that stay are those behind which no credential goes on.
LEMMA RedactedIsClean ==
    ASSUME NEW said \in {text.pieces : text \in Utterances} \cup Replies
    PROVE  Clean(Redact(said))
<1> DEFINE Secret(i) == i \in DOMAIN said /\ said[i] = "secret"
           InRun(i) == Secret(i) /\ (Secret(i - 1) \/ Secret(i + 1))
           kept == {i \in DOMAIN said : ~(Secret(i - 1) /\ Secret(i))}
           Upto(i) == {j \in kept : j <= i}
           Place(k) == CHOOSE i \in kept : Cardinality(Upto(i)) = k
           N == Cardinality(kept)
           P == ({said[i] : i \in kept} \cup {Redacted}) \ {"secret"}
<1>1. /\ Len(said) \in Nat
      /\ DOMAIN said = 1..Len(said)
      /\ \A i \in DOMAIN said : said[i] = "secret" =>
            \E j \in {i - 1, i + 1} \cap DOMAIN said : said[j] = "secret"
  BY MemoryAssumption
<1>2. IsFiniteSet(kept) /\ N \in Nat /\ kept \subseteq Nat
  <2>1. kept \in SUBSET (1..Len(said)) /\ 1 \in Int /\ Len(said) \in Int
    BY <1>1
  <2> HIDE DEF kept
  <2>2. IsFiniteSet(1..Len(said))
    BY <2>1, FS_Interval
  <2>3. IsFiniteSet(kept) /\ N \in Nat
    BY <2>1, <2>2, FS_Subset, FS_CardinalityType
  <2> QED BY <2>1, <2>3
<1>3. ASSUME NEW k \in 1..N PROVE \E i \in kept : Cardinality(Upto(i)) = k
  <2> DEFINE place == [i \in kept |-> Cardinality(Upto(i))]
  <2> HIDE DEF kept
  <2>1. ASSUME NEW i \in kept
        PROVE IsFiniteSet(Upto(i)) /\ Cardinality(Upto(i)) \in 1..N
    <3>1. Upto(i) \in SUBSET kept /\ i \in Upto(i)
      BY <1>2
    <3> HIDE DEF Upto
    <3>2. IsFiniteSet(Upto(i)) /\ Cardinality(Upto(i)) <= N
      BY <1>2, <3>1, FS_Subset
    <3>3. Cardinality(Upto(i)) \in Nat /\ Cardinality(Upto(i)) # 0
      BY <3>1, <3>2, FS_CardinalityType, FS_EmptySet
    <3> QED BY <1>2, <3>2, <3>3
  <2>2. ASSUME NEW i \in kept, NEW j \in kept, i < j PROVE Cardinality(Upto(i)) # Cardinality(Upto(j))
    <3>1. Upto(i) \in SUBSET Upto(j) /\ j \in Upto(j) /\ j \notin Upto(i)
      BY <1>2, <2>2
    <3> HIDE DEF Upto
    <3> QED BY <2>1, <3>1, FS_Subset
  <2>3. place \in Injection(kept, 1..N)
    <3>1. place \in [kept -> 1..N]
      BY <2>1
    <3>2. ASSUME NEW i \in kept, NEW j \in kept, place[i] = place[j] PROVE i = j
      <4>1. i < j \/ j < i \/ i = j
        BY <1>2
      <4>2. Cardinality(Upto(i)) = Cardinality(Upto(j))
        BY <3>2
      <4> HIDE DEF Upto
      <4> QED BY <4>1, <4>2, <2>2
    <3> HIDE DEF place
    <3> QED BY <3>1, <3>2 DEF Injection, IsInjective
  <2> HIDE DEF place
  <2>4. IsFiniteSet(1..N) /\ Cardinality(1..N) = N
    BY <1>2, FS_Interval
  <2>5. place \in Surjection(kept, 1..N)
    BY <2>3, <2>4, FS_Injection
  <2>6. PICK i \in kept : place[i] = k
    BY <2>5 DEF Surjection
  <2> QED BY <2>6 DEF place
<1>4. \A k \in 1..N : Place(k) \in kept
  <2> HIDE DEF kept, Upto
  <2> QED BY <1>3
<1>5. ASSUME NEW i \in kept PROVE (IF InRun(i) THEN Redacted ELSE said[i]) \in P
  <2>1. Redacted # "secret"
    BY DEF Redacted
  <2>2. CASE InRun(i)
    BY <2>1, <2>2
  <2>3. CASE ~InRun(i)
    BY <1>1, <2>3
  <2> QED BY <2>2, <2>3
<1>6. Redact(said) = [k \in 1..N |-> IF InRun(Place(k)) THEN Redacted ELSE said[Place(k)]]
  BY DEF Redact
<1> HIDE DEF kept, Upto, Place, InRun, P
<1>7. Redact(said) \in [1..N -> P]
  BY <1>4, <1>5, <1>6
<1>8. Redact(said) \in Seq(P)
  BY <1>2, <1>7, SeqDef
<1>9. "secret" \notin P
  BY DEF P
<1> QED BY <1>8, <1>9 DEF Clean

\* What is cut off the end leaves what was clean clean.
LEMMA BeginningIsClean ==
    ASSUME NEW s, Clean(s), NEW n \in Nat, n <= Len(s)
    PROVE  /\ Len(s) \in Nat /\ Clean(SubSeq(s, 1, n)) /\ Len(SubSeq(s, 1, n)) = n
           /\ n = Len(s) => SubSeq(s, 1, n) = s
           /\ IsPrefix(SubSeq(s, 1, n), s)
<1>1. PICK P : s \in Seq(P) /\ "secret" \notin P
  BY DEF Clean
<1>2. Len(s) \in Nat /\ \A i \in 1..n : s[i] \in P
  BY <1>1, ElementOfSeq, LenProperties
<1>3. SubSeq(s, 1, n) \in Seq(P) /\ Len(SubSeq(s, 1, n)) = n
  BY <1>2, SubSeqProperties
<1>4. n = Len(s) => SubSeq(s, 1, n) = s
  BY <1>1, SubSeqFull
<1>5. SubSeq(SubSeq(s, 1, n), 1, n) = SubSeq(s, 1, n)
  BY <1>3, SubSeqFull
<1> QED BY <1>1, <1>2, <1>3, <1>4, <1>5 DEF Clean, IsPrefix

\* Credentials are marked before a message is cut, so no piece of one is left.
LEMMA SanitizedIsClean ==
    ASSUME NEW said \in {text.pieces : text \in Utterances} \cup Replies
    PROVE  Clean(Sanitized(said))
<1>1. Clean(Redact(said))
  BY RedactedIsClean
<1>2. PICK redacted : redacted = Redact(said)
  OBVIOUS
<1>3. CASE Len(redacted) > MaxContent
  <2>1. Clean(SubSeq(redacted, 1, MaxContent - 1))
    <3>1. Len(redacted) \in Nat
      BY <1>1, <1>2, LenProperties DEF Clean
    <3>2. MaxContent - 1 \in Nat /\ MaxContent - 1 <= Len(redacted)
      BY <1>3, <3>1, MemoryAssumption
    <3> QED BY <1>1, <1>2, <3>2, BeginningIsClean
  <2>2. PICK P : SubSeq(redacted, 1, MaxContent - 1) \in Seq(P) /\ "secret" \notin P
    BY <2>1 DEF Clean
  <2>3. SubSeq(redacted, 1, MaxContent - 1) \in Seq(P \cup {Ellipsis}) /\ "secret" \notin P \cup {Ellipsis}
    BY <2>2, SeqMonotonic DEF Ellipsis
  <2>4. Append(SubSeq(redacted, 1, MaxContent - 1), Ellipsis) \in Seq(P \cup {Ellipsis})
    BY <2>3, AppendProperties
  <2>5. Sanitized(said) = Append(SubSeq(redacted, 1, MaxContent - 1), Ellipsis)
    BY <1>2, <1>3 DEF Sanitized, Truncate
  <2> QED BY <2>3, <2>4, <2>5 DEF Clean
<1>4. CASE ~(Len(redacted) > MaxContent)
  BY <1>1, <1>2, <1>4 DEF Sanitized, Truncate
<1> QED BY <1>3, <1>4

\* A list of whole messages without credentials.
IsHistory(h) ==
    /\ \E M : h \in Seq(M)
    /\ \A i \in 1..Len(h) : /\ h[i] = Message(h[i].number, h[i].role, h[i].content)
                            /\ Clean(h[i].content)

\* The pieces of a message.
PiecesAt(h, i) == {i} \X DOMAIN h[i].content

\* They are finitely many, as many as its content is long.
LEMMA PiecesAtCounted ==
    ASSUME NEW h, NEW i, Clean(h[i].content)
    PROVE  /\ Len(h[i].content) \in Nat
           /\ IsFiniteSet(PiecesAt(h, i))
           /\ Cardinality(PiecesAt(h, i)) = Len(h[i].content)
<1> DEFINE n == Len(h[i].content)
<1>1. n \in Nat /\ DOMAIN h[i].content = 1..n
  BY LenProperties DEF Clean
<1>2. IsFiniteSet(1..n) /\ Cardinality(1..n) = n
  BY <1>1, FS_Interval
<1>3. IsFiniteSet({i}) /\ Cardinality({i}) = 1
  BY FS_Singleton
<1>4. IsFiniteSet({i} \X (1..n)) /\ Cardinality({i} \X (1..n)) = Cardinality({i}) * Cardinality(1..n)
  BY <1>2, <1>3, FS_Product
<1>5. Cardinality({i}) * Cardinality(1..n) = n
  BY <1>1, <1>2, <1>3
<1>6. PiecesAt(h, i) = {i} \X (1..n)
  BY <1>1 DEF PiecesAt
<1> HIDE DEF n
<1> QED BY <1>1, <1>4, <1>5, <1>6 DEF n

\* The pieces behind place i.
Behind(h, i) == {p \in PiecesOf(h) : p[1] > i}

\* Counted from behind: each message adds its own pieces to those of the later ones.
LEMMA PiecesAdd ==
    ASSUME NEW h, IsHistory(h)
    PROVE  /\ Len(h) \in Nat /\ DOMAIN h = 1..Len(h) /\ IsFiniteSet(PiecesOf(h))
           /\ \A i \in 0..Len(h) : PiecesAfter(h, i) \in Nat
           /\ PiecesAfter(h, Len(h)) = 0
           /\ \A i \in 1..Len(h) : PiecesAfter(h, i - 1) = PiecesAfter(h, i) + Len(h[i].content)
           /\ \A i, j \in 0..Len(h) : i <= j => PiecesAfter(h, j) <= PiecesAfter(h, i)
<1>1. Len(h) \in Nat /\ DOMAIN h = 1..Len(h)
  BY LenProperties DEF IsHistory
<1>2. PiecesOf(h) = UNION {PiecesAt(h, i) : i \in 1..Len(h)}
  BY <1>1 DEF PiecesOf, PiecesAt
<1>3. IsFiniteSet(PiecesOf(h))
  <2> DEFINE at == [i \in 1..Len(h) |-> PiecesAt(h, i)]
             all == {PiecesAt(h, i) : i \in 1..Len(h)}
  <2>1. IsFiniteSet(1..Len(h))
    BY <1>1, FS_Interval
  <2>2. at \in Surjection(1..Len(h), all)
    BY DEF Surjection
  <2>3. \A T \in all : IsFiniteSet(T)
    BY PiecesAtCounted DEF IsHistory
  <2> HIDE DEF at, all
  <2>4. IsFiniteSet(all)
    BY <2>1, <2>2, FS_Surjection
  <2>5. IsFiniteSet(UNION all)
    BY <2>3, <2>4, FS_UNION
  <2> QED BY <1>2, <2>5 DEF all
<1>4. \A i : PiecesAfter(h, i) = Cardinality(Behind(h, i))
  BY DEF PiecesAfter, Behind
<1>5. \A i \in Int : IsFiniteSet(Behind(h, i)) /\ Cardinality(Behind(h, i)) \in Nat
  <2> SUFFICES ASSUME NEW i \in Int PROVE IsFiniteSet(Behind(h, i)) /\ Cardinality(Behind(h, i)) \in Nat
    OBVIOUS
  <2>1. Behind(h, i) \in SUBSET PiecesOf(h)
    BY DEF Behind
  <2>2. IsFiniteSet(Behind(h, i))
    BY <1>3, <2>1, FS_Subset
  <2> QED BY <2>2, FS_CardinalityType
<1>6. Behind(h, Len(h)) = {}
  BY <1>1, <1>2 DEF Behind, PiecesAt
<1>7. ASSUME NEW i \in 1..Len(h) PROVE PiecesAfter(h, i - 1) = PiecesAfter(h, i) + Len(h[i].content)
  <2>1. Behind(h, i - 1) = Behind(h, i) \cup PiecesAt(h, i)
    <3>1. \A j \in 1..Len(h) : j > i - 1 <=> j > i \/ j = i
      BY <1>1
    <3>2. \A j \in 1..Len(h) : \A p \in PiecesAt(h, j) : p[1] = j
      BY DEF PiecesAt
    <3> QED BY <1>2, <3>1, <3>2 DEF Behind
  <2>2. Behind(h, i) \cap PiecesAt(h, i) = {}
    BY <1>1 DEF Behind, PiecesAt
  <2>3. IsFiniteSet(Behind(h, i)) /\ Cardinality(Behind(h, i)) \in Nat
    BY <1>1, <1>5
  <2>4. /\ Len(h[i].content) \in Nat /\ IsFiniteSet(PiecesAt(h, i))
        /\ Cardinality(PiecesAt(h, i)) = Len(h[i].content)
    BY PiecesAtCounted DEF IsHistory
  <2>5. Cardinality(Behind(h, i - 1)) = Cardinality(Behind(h, i)) + Cardinality(PiecesAt(h, i)) - Cardinality({})
    BY <2>1, <2>2, <2>3, <2>4, FS_Union
  <2>6. Cardinality({}) = 0
    BY FS_EmptySet
  <2> QED BY <1>4, <2>3, <2>4, <2>5, <2>6
<1>8. ASSUME NEW i \in 0..Len(h), NEW j \in 0..Len(h), i <= j PROVE PiecesAfter(h, j) <= PiecesAfter(h, i)
  <2>1. Behind(h, j) \in SUBSET Behind(h, i)
    <3>1. \A p \in PiecesOf(h) : p[1] \in 1..Len(h)
      BY <1>2 DEF PiecesAt
    <3> QED BY <1>1, <1>8, <3>1 DEF Behind
  <2>2. IsFiniteSet(Behind(h, i))
    BY <1>1, <1>5
  <2> QED BY <1>4, <2>1, <2>2, FS_Subset
<1>9. \A i \in 0..Len(h) : PiecesAfter(h, i) \in Nat
  BY <1>1, <1>4, <1>5
<1>10. PiecesAfter(h, Len(h)) = 0
  BY <1>4, <1>6, FS_EmptySet
<1> QED BY <1>1, <1>3, <1>7, <1>8, <1>9, <1>10

\* A set of places that has every later place with each is the last places.
LEMMA LastPlaces ==
    ASSUME NEW n \in Nat, NEW S \in SUBSET (1..n), \A i \in S, j \in 1..n : i <= j => j \in S
    PROVE  Cardinality(S) \in 0..n /\ S = (n - Cardinality(S) + 1)..n
<1> DEFINE c == Cardinality(S)
<1>1. IsFiniteSet(1..n) /\ Cardinality(1..n) = n
  BY FS_Interval
<1>2. IsFiniteSet(S) /\ c <= n /\ c \in Nat
  BY <1>1, FS_Subset, FS_CardinalityType
<1>3. ASSUME NEW i \in S PROVE i > n - c
  <2>1. i..n \in SUBSET S /\ i \in Int
    OBVIOUS
  <2>2. Cardinality(i..n) <= c
    BY <1>2, <2>1, FS_Subset
  <2>3. Cardinality(i..n) = n - i + 1
    BY <2>1, FS_Interval
  <2> HIDE DEF c
  <2> QED BY <1>2, <2>1, <2>2, <2>3
<1> DEFINE last == (n - c + 1)..n
<1>4. S \in SUBSET last
  <2> HIDE DEF c
  <2> QED BY <1>2, <1>3
<1>5. IsFiniteSet(last) /\ Cardinality(last) = c
  <2> HIDE DEF c
  <2>1. n - c + 1 \in Int
    BY <1>2
  <2> QED BY <1>2, <2>1, FS_Interval
<1>6. S = last
  <2> HIDE DEF last
  <2> QED BY <1>4, <1>5, FS_Subset
<1> QED BY <1>2, <1>6

\* What is read of a list within a limit of messages and a budget of pieces.
RecentAndClean(context, past, limit, budget) ==
    LET skipped == Len(past) - Len(context)
    IN  /\ \A m \in ToSet(context) : "secret" \notin ToSet(m.content)
        /\ Len(context) <= limit
        /\ PiecesAfter(context, 0) <= budget
        /\ \A i \in 2..Len(context) : context[i] = past[skipped + i]
        /\ context # <<>> =>
              /\ IsPrefix(context[1].content, past[skipped + 1].content)
              /\ \/ PiecesAfter(context, 0) = budget
                 \/ /\ context[1] = past[skipped + 1]
                    /\ skipped = 0 \/ Len(context) = limit

\* A clean list says nothing secret.
LEMMA HistorySaysNoSecret ==
    ASSUME NEW h, IsHistory(h)
    PROVE  \A m \in ToSet(h) : "secret" \notin ToSet(m.content)
<1> SUFFICES ASSUME NEW m \in ToSet(h) PROVE "secret" \notin ToSet(m.content)
  OBVIOUS
<1>1. DOMAIN h = 1..Len(h)
  BY LenProperties DEF IsHistory
<1>2. PICK i \in 1..Len(h) : m = h[i]
  BY <1>1 DEF ToSet
<1>3. PICK P : m.content \in Seq(P) /\ "secret" \notin P
  BY <1>2 DEF IsHistory, Clean
<1>4. \A j \in DOMAIN m.content : m.content[j] \in P
  BY <1>3, LenProperties
<1> QED BY <1>3, <1>4 DEF ToSet

\* Two lists whose later messages are the same have as many pieces in them.
LEMMA SamePiecesBehind ==
    ASSUME NEW h, IsHistory(h), NEW g, IsHistory(g), NEW s \in Nat, Len(h) = s + Len(g),
           NEW k \in 1..Len(g), \A i \in (k + 1)..Len(g) : g[i] = h[s + i]
    PROVE  PiecesAfter(g, k) = PiecesAfter(h, s + k)
<1>1. /\ Len(g) \in Nat /\ DOMAIN g = 1..Len(g)
      /\ Len(h) \in Nat /\ DOMAIN h = 1..Len(h)
  BY PiecesAdd
<1> DEFINE A == Behind(g, k)
           B == Behind(h, s + k)
           f == [p \in A |-> <<p[1] + s, p[2]>>]
<1>2. A = {p \in UNION {{i} \X DOMAIN g[i].content : i \in 1..Len(g)} : p[1] > k}
  BY <1>1 DEF Behind, PiecesOf
<1>3. B = {p \in UNION {{i} \X DOMAIN h[i].content : i \in 1..Len(h)} : p[1] > s + k}
  BY <1>1 DEF Behind, PiecesOf
<1> HIDE DEF A, B
<1>4. ASSUME NEW p \in A
      PROVE  /\ p = <<p[1], p[2]>> /\ p[1] \in (k + 1)..Len(g)
             /\ <<p[1] + s, p[2]>> \in B
  <2>1. p = <<p[1], p[2]>> /\ p[1] \in (k + 1)..Len(g) /\ p[2] \in DOMAIN g[p[1]].content
    BY <1>1, <1>2
  <2>2. s + p[1] \in 1..Len(h) /\ s + p[1] > s + k /\ p[2] \in DOMAIN h[s + p[1]].content /\ p[1] + s = s + p[1]
    BY <1>1, <2>1
  <2> QED BY <1>3, <2>1, <2>2
<1>5. ASSUME NEW q \in B PROVE \E p \in A : <<p[1] + s, p[2]>> = q
  <2>1. q = <<q[1], q[2]>> /\ q[1] \in 1..Len(h) /\ q[1] > s + k /\ q[2] \in DOMAIN h[q[1]].content
    BY <1>3
  <2>2. PICK i \in (k + 1)..Len(g) : q[1] = i + s
    <3>1. q[1] - s \in (k + 1)..Len(g) /\ q[1] = (q[1] - s) + s
      BY <1>1, <2>1
    <3> QED BY <3>1
  <2>3. h[q[1]] = g[i] /\ i \in 1..Len(g) /\ i > k
    BY <1>1, <2>2
  <2>4. <<i, q[2]>> \in A
    BY <1>2, <2>1, <2>3
  <2> QED BY <2>1, <2>2, <2>4
<1>6. f \in Bijection(A, B)
  <2>1. f \in Surjection(A, B)
    BY <1>4, <1>5 DEF Surjection
  <2>2. ASSUME NEW p \in A, NEW q \in A, f[p] = f[q] PROVE p = q
    <3>1. p[1] + s = q[1] + s /\ p[2] = q[2]
      BY <2>2
    <3>2. p[1] \in Int /\ q[1] \in Int
      <4>1. p[1] \in (k + 1)..Len(g) /\ q[1] \in (k + 1)..Len(g)
        BY <1>4
      <4>2. \A x \in (k + 1)..Len(g) : x \in Int
        BY <1>1
      <4> QED BY <4>1, <4>2
    <3>3. p[1] = q[1]
      BY <3>1, <3>2
    <3>4. p = <<p[1], p[2]>> /\ q = <<q[1], q[2]>>
      BY <1>4
    <3> QED BY <3>1, <3>3, <3>4
  <2> HIDE DEF f
  <2>3. f \in [A -> B]
    BY <2>1 DEF Surjection
  <2> QED BY <2>1, <2>2, <2>3 DEF Bijection, Injection, IsInjective
<1>7. IsFiniteSet(A)
  <2>1. IsFiniteSet(PiecesOf(g))
    BY PiecesAdd
  <2>2. A \in SUBSET PiecesOf(g)
    BY DEF A, Behind
  <2> QED BY <2>1, <2>2, FS_Subset
<1>8. Cardinality(B) = Cardinality(A)
  <2> HIDE DEF f
  <2>1. ExistsBijection(A, B)
    BY <1>6 DEF ExistsBijection
  <2> QED BY <1>7, <2>1, FS_Bijection
<1> QED BY <1>8 DEF A, B, PiecesAfter, Behind

\* The last c messages, each as far as the later ones leave room for it.
ReadFrom(h, s, c, budget) ==
    [k \in 1..c |-> [h[s + k] EXCEPT !.content =
        SubSeq(@, 1, Least(budget - PiecesAfter(h, s + k), Len(@)))]]

\* What is read are the last messages, each as far as the later ones leave room for it.
LEMMA SelectedPlaces ==
    ASSUME NEW h, IsHistory(h), NEW limit \in Nat, NEW budget \in Nat
    PROVE  \E s \in Nat, c \in Nat :
              /\ Len(h) = s + c
              /\ \A k \in 1..c : s + k > Len(h) - limit /\ PiecesAfter(h, s + k) < budget
              /\ s # 0 => s <= Len(h) - limit \/ PiecesAfter(h, s) >= budget
              /\ Selected(h, limit, budget) = ReadFrom(h, s, c, budget)
<1> DEFINE n == Len(h)
           rest(i) == budget - PiecesAfter(h, i)
           read == {i \in DOMAIN h : i > n - limit /\ rest(i) > 0}
           c == Cardinality(read)
           s == n - c
<1>1. /\ n \in Nat /\ DOMAIN h = 1..n
      /\ \A i \in 0..n : PiecesAfter(h, i) \in Nat
      /\ \A i, j \in 0..n : i <= j => PiecesAfter(h, j) <= PiecesAfter(h, i)
  BY PiecesAdd
<1>2. c \in 0..n /\ read = (n - c + 1)..n
  <2>1. read \in SUBSET (1..n)
    BY <1>1
  <2>2. ASSUME NEW i \in read, NEW j \in 1..n, i <= j PROVE j \in read
    <3>1. i \in 1..n /\ i > n - limit /\ rest(i) > 0
      BY <1>1
    <3>2. PiecesAfter(h, j) <= PiecesAfter(h, i) /\ PiecesAfter(h, i) \in Nat /\ PiecesAfter(h, j) \in Nat
      BY <1>1, <2>2, <3>1
    <3>3. j > n - limit /\ rest(j) > 0
      BY <1>1, <2>2, <3>1, <3>2
    <3> QED BY <1>1, <3>3
  <2> HIDE DEF read
  <2> QED BY <1>1, <2>1, <2>2, LastPlaces
<1>3. \A i \in 1..n : i \in read <=> i > n - limit /\ rest(i) > 0
  BY <1>1
<1>4. Selected(h, limit, budget) = ReadFrom(h, s, c, budget)
  BY DEF Selected, ReadFrom
<1> HIDE DEF read, c
<1>5. s \in Nat /\ c \in Nat /\ n = s + c
  BY <1>1, <1>2
<1>6. ASSUME NEW k \in 1..c PROVE s + k > n - limit /\ PiecesAfter(h, s + k) < budget
  <2>1. s + k \in 1..n /\ s + k \in (n - c + 1)..n
    BY <1>1, <1>2
  <2>2. s + k > n - limit /\ rest(s + k) > 0
    BY <1>2, <1>3, <2>1
  <2>3. PiecesAfter(h, s + k) \in Nat
    BY <1>1, <2>1
  <2> QED BY <2>2, <2>3
<1>7. s # 0 => s <= n - limit \/ PiecesAfter(h, s) >= budget
  <2> SUFFICES ASSUME s # 0 PROVE s <= n - limit \/ PiecesAfter(h, s) >= budget
    OBVIOUS
  <2>1. s \in 1..n /\ s \notin (n - c + 1)..n
    <3>1. n \in Nat /\ c \in 0..n
      BY <1>1, <1>2
    <3> QED BY <3>1
  <2>2. ~(s > n - limit) \/ ~(rest(s) > 0)
    BY <1>2, <1>3, <2>1
  <2>3. PiecesAfter(h, s) \in Nat
    BY <1>1, <2>1
  <2> QED BY <1>1, <2>1, <2>2, <2>3
<1> HIDE DEF s
<1> QED BY <1>4, <1>5, <1>6, <1>7

\* So it is recent, clean and within its limits.
LEMMA SelectedIsRecent ==
    ASSUME NEW h, IsHistory(h), NEW limit \in Nat, NEW budget \in Nat
    PROVE  RecentAndClean(Selected(h, limit, budget), h, limit, budget)
<1> DEFINE n == Len(h)
<1>1. PICK s \in Nat, c \in Nat :
          /\ Len(h) = s + c
          /\ \A k \in 1..c : s + k > Len(h) - limit /\ PiecesAfter(h, s + k) < budget
          /\ s # 0 => s <= Len(h) - limit \/ PiecesAfter(h, s) >= budget
          /\ Selected(h, limit, budget) = ReadFrom(h, s, c, budget)
  BY SelectedPlaces
<1>2. PICK after : after = [i \in 0..n |-> PiecesAfter(h, i)]
  OBVIOUS
<1>3. PICK length : length = [i \in 1..n |-> Len(h[i].content)]
  OBVIOUS
<1>4. PICK size : size = [k \in 1..c |-> Least(budget - after[s + k], length[s + k])]
  OBVIOUS
<1>5. PICK context : context = Selected(h, limit, budget)
  OBVIOUS
<1>6. n \in Nat /\ n = s + c
  BY <1>1
<1>7. ASSUME NEW i \in 1..n
      PROVE  /\ h[i] = [number |-> h[i].number, role |-> h[i].role, content |-> h[i].content]
             /\ Clean(h[i].content) /\ Len(h[i].content) = length[i] /\ length[i] \in Nat
  <2>1. h[i] = Message(h[i].number, h[i].role, h[i].content) /\ Clean(h[i].content)
    BY DEF IsHistory
  <2>2. Len(h[i].content) \in Nat
    BY <2>1, LenProperties DEF Clean
  <2> QED BY <1>3, <2>1, <2>2 DEF Message
<1>8. /\ \A i \in 0..n : after[i] \in Nat
      /\ \A i \in 1..n : after[i - 1] = after[i] + length[i]
      /\ \A i, j \in 0..n : i <= j => after[j] <= after[i]
  <2>1. /\ \A i \in 0..n : PiecesAfter(h, i) \in Nat
        /\ \A i \in 1..n : PiecesAfter(h, i - 1) = PiecesAfter(h, i) + Len(h[i].content)
        /\ \A i, j \in 0..n : i <= j => PiecesAfter(h, j) <= PiecesAfter(h, i)
    BY PiecesAdd
  <2>2. \A i \in 1..n : i - 1 \in 0..n /\ i \in 0..n
    BY <1>6
  <2> QED BY <1>2, <1>3, <2>1, <2>2
<1>9. /\ \A k \in 1..c : s + k \in 1..n /\ s + k \in 0..n /\ s + k > n - limit /\ after[s + k] < budget
      /\ s # 0 => s \in 1..n /\ (s <= n - limit \/ after[s] >= budget)
  <2>1. \A k \in 1..c : s + k \in 1..n /\ s + k \in 0..n
    BY <1>6
  <2>2. s \in 0..n /\ (s # 0 => s \in 1..n)
    BY <1>6
  <2>3. \A i \in 0..n : PiecesAfter(h, i) = after[i]
    BY <1>2
  <2> QED BY <1>1, <2>1, <2>2, <2>3
<1>10. ASSUME NEW k \in 1..c
       PROVE  /\ size[k] \in Nat /\ size[k] <= length[s + k]
              /\ after[s + k] + size[k] <= budget
              /\ after[s + k] + size[k] = budget \/ size[k] = length[s + k]
              /\ after[s + k] + length[s + k] <= budget => size[k] = length[s + k]
  <2>1. s + k \in 1..n /\ s + k \in 0..n /\ after[s + k] < budget
    BY <1>9
  <2>2. after[s + k] \in Nat /\ length[s + k] \in Nat
    BY <1>7, <1>8, <2>1
  <2>3. size[k] = IF budget - after[s + k] < length[s + k] THEN budget - after[s + k] ELSE length[s + k]
    BY <1>4 DEF Least
  <2> QED BY <2>1, <2>2, <2>3
<1>11. ASSUME NEW k \in 1..c
       PROVE  /\ context[k] = [number |-> h[s + k].number, role |-> h[s + k].role, content |-> context[k].content]
              /\ Clean(context[k].content) /\ Len(context[k].content) = size[k]
              /\ size[k] = length[s + k] => context[k] = h[s + k]
              /\ IsPrefix(context[k].content, h[s + k].content)
  <2>1. s + k \in 1..n /\ s + k \in 0..n
    BY <1>9
  <2>2. PICK cut : cut = SubSeq(h[s + k].content, 1, size[k])
    OBVIOUS
  <2>3. /\ h[s + k] = [number |-> h[s + k].number, role |-> h[s + k].role, content |-> h[s + k].content]
        /\ Clean(h[s + k].content) /\ Len(h[s + k].content) = length[s + k]
    BY <1>7, <2>1
  <2>4. Least(budget - PiecesAfter(h, s + k), Len(h[s + k].content)) = size[k]
    BY <1>2, <1>4, <2>1, <2>3
  <2>5. context[k] = [h[s + k] EXCEPT !.content = cut]
    BY <1>1, <1>5, <2>2, <2>4 DEF ReadFrom
  <2>6. context[k] = [number |-> h[s + k].number, role |-> h[s + k].role, content |-> cut]
    BY <2>3, <2>5
  <2>7. /\ Clean(cut) /\ Len(cut) = size[k]
        /\ size[k] = length[s + k] => cut = h[s + k].content
        /\ IsPrefix(cut, h[s + k].content)
    BY <1>10, <2>2, <2>3, BeginningIsClean
  <2> QED BY <2>3, <2>6, <2>7
<1>12. context = [k \in 1..c |-> context[k]] /\ Len(context) = c
  BY <1>1, <1>5 DEF ReadFrom
<1>13. IsHistory(context)
  <2> DEFINE M == {context[k] : k \in 1..c}
  <2>1. context \in [1..c -> M]
    BY <1>12
  <2>2. context \in Seq(M)
    BY <2>1, SeqDef
  <2>3. ASSUME NEW k \in 1..c
        PROVE context[k] = Message(context[k].number, context[k].role, context[k].content) /\ Clean(context[k].content)
    <3>1. /\ context[k] = [number |-> h[s + k].number, role |-> h[s + k].role, content |-> context[k].content]
          /\ Clean(context[k].content)
      BY <1>11
    <3> QED BY <3>1 DEF Message
  <2> QED BY <1>12, <2>2, <2>3 DEF IsHistory
<1>14. ASSUME NEW k \in 2..c PROVE context[k] = h[s + k]
  <2>1. k \in 1..c /\ 1 \in 1..c /\ s + k \in 1..n /\ s + 1 <= s + k - 1 /\ s + k - 1 \in 0..n /\ s + 1 \in 0..n
    BY <1>6
  <2>2. after[s + k - 1] = after[s + k] + length[s + k] /\ after[s + k - 1] <= after[s + 1]
    BY <1>8, <2>1
  <2>3. after[s + 1] < budget /\ after[s + 1] \in Nat /\ after[s + k - 1] \in Nat
    BY <1>8, <1>9, <2>1
  <2>4. size[k] = length[s + k]
    BY <1>10, <2>1, <2>2, <2>3
  <2> QED BY <1>11, <2>1, <2>4
<1>15. c <= limit
  <2> SUFFICES ASSUME c # 0 PROVE c <= limit
    OBVIOUS
  <2>1. 1 \in 1..c
    OBVIOUS
  <2>2. s + 1 > n - limit
    BY <1>9, <2>1
  <2> QED BY <1>6, <2>2
<1>16. ASSUME c # 0
       PROVE  /\ 1 \in 1..c /\ s + 1 \in 1..n
              /\ PiecesAfter(context, 0) = after[s + 1] + size[1]
  <2>1. 1 \in 1..c /\ s + 1 \in 1..n /\ s + 1 \in 0..n
    BY <1>6, <1>16
  <2>2. PiecesAfter(context, 1) = PiecesAfter(h, s + 1)
    <3>1. \A i \in (1 + 1)..Len(context) : context[i] = h[s + i]
      <4>1. (1 + 1)..Len(context) = 2..c
        BY <1>12
      <4> QED BY <1>14, <4>1
    <3>2. 1 \in 1..Len(context) /\ Len(h) = s + Len(context)
      BY <1>6, <1>12, <2>1
    <3> QED BY <1>13, <3>1, <3>2, SamePiecesBehind
  <2>3. PiecesAfter(context, 1 - 1) = PiecesAfter(context, 1) + Len(context[1].content)
    <3>1. \A i \in 1..Len(context) : PiecesAfter(context, i - 1) = PiecesAfter(context, i) + Len(context[i].content)
      BY <1>13, PiecesAdd
    <3> QED BY <1>12, <2>1, <3>1
  <2>4. Len(context[1].content) = size[1]
    BY <1>11, <2>1
  <2> QED BY <1>2, <2>1, <2>2, <2>3, <2>4
<1>17. ASSUME c # 0
       PROVE  /\ PiecesAfter(context, 0) <= budget
              /\ \/ PiecesAfter(context, 0) = budget
                 \/ context[1] = h[s + 1] /\ (s = 0 \/ c = limit)
  <2>1. 1 \in 1..c /\ s + 1 \in 1..n /\ PiecesAfter(context, 0) = after[s + 1] + size[1]
    BY <1>16, <1>17
  <2>2. /\ PiecesAfter(context, 0) <= budget
        /\ PiecesAfter(context, 0) = budget \/ size[1] = length[s + 1]
    BY <1>10, <2>1
  <2>3. ASSUME size[1] = length[s + 1], s # 0, s > n - limit PROVE PiecesAfter(context, 0) = budget
    <3>1. s \in 1..n /\ after[s] >= budget
      BY <1>6, <1>9, <2>3
    <3>2. after[s + 1 - 1] = after[s + 1] + length[s + 1]
      BY <1>8, <2>1
    <3>3. after[s] \in Nat /\ after[s] = PiecesAfter(context, 0)
      BY <1>8, <2>1, <2>3, <3>1, <3>2
    <3> QED BY <2>2, <3>1, <3>3
  <2>4. ~(s > n - limit) => c = limit
    BY <1>6, <1>15
  <2>5. size[1] = length[s + 1] => context[1] = h[s + 1]
    BY <1>11, <2>1
  <2> QED BY <2>2, <2>3, <2>4, <2>5
<1>18. ASSUME c = 0 PROVE context = <<>> /\ PiecesAfter(context, 0) = 0
  <2>1. context = <<>>
    BY <1>12, <1>18
  <2>2. PiecesAfter(context, Len(context)) = 0
    BY <1>13, PiecesAdd
  <2> QED BY <1>12, <1>18, <2>1, <2>2
<1>19. \A m \in ToSet(context) : "secret" \notin ToSet(m.content)
  BY <1>13, HistorySaysNoSecret
<1>20. Len(h) - Len(context) = s
  BY <1>6, <1>12
<1>21. c # 0 => IsPrefix(context[1].content, h[s + 1].content)
  BY <1>11, <1>16
<1>22. PiecesAfter(context, 0) <= budget
  BY <1>17, <1>18
<1>23. context # <<>> => c # 0
  BY <1>18
<1>24. RecentAndClean(context, h, limit, budget)
  BY <1>12, <1>14, <1>15, <1>17, <1>19, <1>20, <1>21, <1>22, <1>23 DEF RecentAndClean
<1> QED BY <1>5, <1>24

\* What users and the agent said.
Said == {text.pieces : text \in Utterances} \cup Replies

\* The messages of the turn numbered n, if it is one of turns.
TurnAt(list, at, turns, n) ==
    /\ list[2 * at - 1] = Message(n, "user", Sanitized(turns[n].user))
    /\ list[2 * at] = Message(n, "assistant", Sanitized(turns[n].assistant))

\* A list remembers the newest of some turns.
Remembers(list, turns) ==
    LET kept == Least(MaxStoredTurns, Len(turns))
    IN  /\ Len(list) = 2 * kept
        /\ \A i \in 1..kept : TurnAt(list, i, turns, Len(turns) - kept + i)

\* Turns are numbered from one and tell what was said.
SaidInTurns(turns) ==
    /\ \E T : turns \in Seq(T)
    /\ \A i \in 1..Len(turns) : turns[i].user \in Said /\ turns[i].assistant \in Said

\* The next turn has the next number.
LEMMA NumbersGoOn ==
    ASSUME SaidInTurns(told), IsHistory(messages), Remembers(messages, told)
    PROVE  NextNumber = Len(told) + 1
<1> DEFINE t == Len(told)
           k == Least(MaxStoredTurns, t)
<1>1. t \in Nat /\ MaxStoredTurns \in Nat \ {0}
  BY LenProperties, MemoryAssumption DEF SaidInTurns
<1>2. k \in Nat /\ (k = 0 => t = 0) /\ k <= t
  BY <1>1 DEF Least
<1>3. Len(messages) = 2 * k /\ \A i \in 1..k : TurnAt(messages, i, told, t - k + i)
  BY DEF Remembers
<1> HIDE DEF k
<1>4. CASE k = 0
  <2>1. Len(messages) = 0 /\ t = 0
    BY <1>2, <1>3, <1>4
  <2>2. messages = <<>>
    BY <2>1, EmptySeq DEF IsHistory
  <2> QED BY <2>1, <2>2 DEF NextNumber
<1>5. CASE k # 0
  <2>1. TurnAt(messages, k, told, t - k + k) /\ t - k + k = t
    BY <1>1, <1>2, <1>3, <1>5
  <2>2. messages[Len(messages)] = Message(t, "assistant", Sanitized(told[t].assistant))
    BY <1>3, <2>1 DEF TurnAt
  <2>3. messages # <<>>
    <3>1. Len(messages) # 0
      BY <1>2, <1>3, <1>5
    <3> QED BY <3>1, EmptySeq
  <2> QED BY <2>2, <2>3 DEF NextNumber, Last, Message
<1> QED BY <1>4, <1>5

\* A turn that is appended is the last, before anything is cut.
LEMMA TurnIsAppended ==
    ASSUME NEW turns, SaidInTurns(turns), NEW list, IsHistory(list), Remembers(list, turns),
           NEW user \in Said, NEW assistant \in Said, NEW number, number = Len(turns) + 1
    PROVE  LET turn == [number |-> number, user |-> user, assistant |-> assistant]
               longer == list \o <<Message(number, "user", Sanitized(user)),
                                   Message(number, "assistant", Sanitized(assistant))>>
               k == Least(MaxStoredTurns, Len(turns))
           IN  /\ Len(turns) \in Nat /\ k \in Nat /\ k <= Len(turns)
               /\ SaidInTurns(Append(turns, turn)) /\ Len(Append(turns, turn)) = number
               /\ IsHistory(longer) /\ Len(longer) = 2 * k + 2
               /\ \A j \in 1..(k + 1) : TurnAt(longer, j, Append(turns, turn), Len(turns) - k + j)
<1> DEFINE turn == [number |-> number, user |-> user, assistant |-> assistant]
           u == Message(number, "user", Sanitized(user))
           a == Message(number, "assistant", Sanitized(assistant))
           longer == list \o <<u, a>>
           t == Len(turns)
           k == Least(MaxStoredTurns, t)
           later == Append(turns, turn)
<1>1. t \in Nat /\ k \in Nat /\ k <= t
  <2>1. t \in Nat /\ MaxStoredTurns \in Nat
    BY LenProperties, MemoryAssumption DEF SaidInTurns
  <2> QED BY <2>1 DEF Least
<1>2. Len(list) = 2 * k /\ \A i \in 1..k : TurnAt(list, i, turns, t - k + i)
  BY DEF Remembers
<1> HIDE DEF k
<1>3. /\ Len(later) = t + 1 /\ \A i \in 1..t : later[i] = turns[i]
      /\ later[t + 1] = turn /\ \E T : later \in Seq(T)
  <2>1. PICK T : turns \in Seq(T)
    BY DEF SaidInTurns
  <2>2. turns \in Seq(T \cup {turn}) /\ turn \in T \cup {turn}
    BY <2>1, SeqMonotonic
  <2> HIDE DEF turn
  <2> QED BY <2>2, AppendProperties
<1>4. SaidInTurns(later)
  <2> HIDE DEF later
  <2>1. ASSUME NEW i \in 1..Len(later) PROVE later[i].user \in Said /\ later[i].assistant \in Said
    <3>1. i \in 1..t \/ i = t + 1
      BY <1>1, <1>3
    <3>2. CASE i \in 1..t
      BY <1>3, <3>2 DEF SaidInTurns
    <3>3. CASE i = t + 1
      BY <1>3, <3>3
    <3> QED BY <3>1, <3>2, <3>3
  <2> QED BY <1>3, <2>1 DEF SaidInTurns
<1>5. PICK M : list \in Seq(M)
  BY DEF IsHistory
<1>6. /\ longer \in Seq(M \cup {u, a}) /\ Len(longer) = 2 * k + 2
      /\ \A i \in 1..(2 * k) : longer[i] = list[i]
      /\ longer[2 * k + 1] = u /\ longer[2 * k + 2] = a
  <2> HIDE DEF u, a
  <2>1. /\ list \in Seq(M \cup {u, a}) /\ <<u, a>> \in Seq(M \cup {u, a}) /\ Len(<<u, a>>) = 2
        /\ <<u, a>>[1] = u /\ <<u, a>>[2] = a
    BY <1>5, SeqMonotonic
  <2>2. PICK two : two = <<u, a>>
    OBVIOUS
  <2>3. /\ list \o two \in Seq(M \cup {u, a}) /\ Len(list \o two) = Len(list) + 2
        /\ \A i \in 1..(Len(list) + 2) : (list \o two)[i] = IF i <= Len(list) THEN list[i] ELSE two[i - Len(list)]
    BY <2>1, <2>2, ConcatProperties
  <2>4. \A i \in 1..(2 * k) : i \in 1..(Len(list) + 2) /\ i <= Len(list)
    BY <1>1, <1>2
  <2>5. /\ 2 * k + 1 \in 1..(Len(list) + 2) /\ ~(2 * k + 1 <= Len(list)) /\ 2 * k + 1 - Len(list) = 1
        /\ 2 * k + 2 \in 1..(Len(list) + 2) /\ ~(2 * k + 2 <= Len(list)) /\ 2 * k + 2 - Len(list) = 2
    BY <1>1, <1>2
  <2> QED BY <1>2, <2>1, <2>2, <2>3, <2>4, <2>5
<1> HIDE DEF longer, later
<1>7. Clean(Sanitized(user)) /\ Clean(Sanitized(assistant))
  BY SanitizedIsClean DEF Said
<1>8. IsHistory(longer)
  <2>1. ASSUME NEW i \in 1..Len(longer)
        PROVE longer[i] = Message(longer[i].number, longer[i].role, longer[i].content) /\ Clean(longer[i].content)
    <3>1. i \in 1..(2 * k) \/ i = 2 * k + 1 \/ i = 2 * k + 2
      BY <1>1, <1>6
    <3>2. CASE i \in 1..(2 * k)
      BY <1>2, <1>6, <3>2 DEF IsHistory
    <3>3. CASE i = 2 * k + 1 \/ i = 2 * k + 2
      BY <1>6, <1>7, <3>3 DEF Message
    <3> QED BY <3>1, <3>2, <3>3
  <2> QED BY <1>6, <2>1 DEF IsHistory
<1>9. ASSUME NEW j \in 1..(k + 1) PROVE TurnAt(longer, j, later, t - k + j)
  <2>1. CASE j \in 1..k
    <3>1. TurnAt(list, j, turns, t - k + j) /\ t - k + j \in 1..t
      BY <1>1, <1>2, <2>1
    <3>2. 2 * j - 1 \in 1..(2 * k) /\ 2 * j \in 1..(2 * k)
      BY <1>1, <2>1
    <3> QED BY <1>3, <1>6, <3>1, <3>2 DEF TurnAt
  <2>2. CASE j = k + 1
    <3>1. t - k + j = t + 1 /\ 2 * j - 1 = 2 * k + 1 /\ 2 * j = 2 * k + 2 /\ number = t + 1
      BY <1>1, <2>2
    <3>2. later[t + 1].user = user /\ later[t + 1].assistant = assistant
      BY <1>3
    <3> QED BY <1>6, <3>1, <3>2 DEF TurnAt
  <2> QED BY <1>1, <2>1, <2>2
<1> QED BY <1>1, <1>3, <1>4, <1>6, <1>8, <1>9 DEF longer, later, k

\* Its messages bear its number.
LEMMA TurnNumbers ==
    ASSUME NEW list, NEW at, NEW turns, NEW n, TurnAt(list, at, turns, n)
    PROVE  list[2 * at - 1].number = n /\ list[2 * at].number = n
<1>1. /\ list[2 * at - 1] = Message(n, "user", Sanitized(turns[n].user))
      /\ list[2 * at] = Message(n, "assistant", Sanitized(turns[n].assistant))
  BY DEF TurnAt
<1>2. \A role, content : Message(n, role, content).number = n
  BY DEF Message
<1> QED BY <1>1, <1>2

\* Both stores keep as much of a list: the newest turns.
LEMMA KeptOfBoth ==
    ASSUME NEW list, IsHistory(list), NEW turns, NEW t \in Nat, NEW k \in Nat, k <= t,
           k = Least(MaxStoredTurns, t), Len(list) = 2 * k + 2,
           \A j \in 1..(k + 1) : TurnAt(list, j, turns, t - k + j)
    PROVE  Trimmed(list, t + 1) = SubSeq(list, Len(list) - Least(2 * MaxStoredTurns, Len(list)) + 1, Len(list))
<1> DEFINE S == {i \in DOMAIN list : list[i].number >= t + 1 + 1 - MaxStoredTurns}
           K == Least(2 * MaxStoredTurns, Len(list))
<1>1. MaxStoredTurns \in Nat \ {0}
  BY MemoryAssumption
<1>2. DOMAIN list = 1..(2 * k + 2)
  BY LenProperties DEF IsHistory
<1>3. ASSUME NEW j \in 1..(k + 1)
      PROVE  list[2 * j - 1].number = t - k + j /\ list[2 * j].number = t - k + j
  BY TurnNumbers
<1>4. \A i \in 1..(2 * k + 2) : \E j \in 1..(k + 1) : i = 2 * j - 1 \/ i = 2 * j
  <2> SUFFICES ASSUME NEW i \in 1..(2 * k + 2) PROVE \E j \in 1..(k + 1) : i = 2 * j - 1 \/ i = 2 * j
    OBVIOUS
  <2>1. CASE i % 2 = 0
    <3>1. i \div 2 \in 1..(k + 1) /\ i = 2 * (i \div 2)
      BY <2>1
    <3> QED BY <3>1
  <2>2. CASE i % 2 = 1
    <3>1. i \div 2 + 1 \in 1..(k + 1) /\ i = 2 * (i \div 2 + 1) - 1
      BY <2>2
    <3> QED BY <3>1
  <2> QED BY <2>1, <2>2
<1>5. Cardinality(S) = K
  <2>1. CASE k < MaxStoredTurns
    <3>1. K = 2 * k + 2 /\ t = k
      BY <1>1, <2>1 DEF Least
    <3>2. \A i \in 1..(2 * k + 2) : list[i].number >= t + 1 + 1 - MaxStoredTurns
      <4>1. ASSUME NEW j \in 1..(k + 1) PROVE t - k + j >= t + 1 + 1 - MaxStoredTurns
        BY <1>1, <2>1
      <4> SUFFICES ASSUME NEW i \in 1..(2 * k + 2) PROVE list[i].number >= t + 1 + 1 - MaxStoredTurns
        OBVIOUS
      <4>2. PICK j \in 1..(k + 1) : i = 2 * j - 1 \/ i = 2 * j
        BY <1>4
      <4>3. list[i].number = t - k + j
        BY <1>3, <4>2
      <4> QED BY <4>1, <4>3
    <3>3. S = 1..(2 * k + 2)
      BY <1>2, <3>2
    <3>4. 2 * k + 2 \in Int /\ ~(1 > 2 * k + 2) /\ 2 * k + 2 - 1 + 1 = 2 * k + 2
      OBVIOUS
    <3> HIDE DEF S
    <3>5. Cardinality(1..(2 * k + 2)) = 2 * k + 2
      BY <3>4, FS_Interval
    <3> QED BY <3>1, <3>3, <3>5
  <2>2. CASE k = MaxStoredTurns
    <3>1. K = 2 * k
      BY <1>1, <2>2 DEF Least
    <3>2. \A i \in 1..(2 * k + 2) : list[i].number >= t + 1 + 1 - MaxStoredTurns <=> i \in 3..(2 * k + 2)
      <4>1. ASSUME NEW j \in 1..(k + 1)
            PROVE  /\ t - k + j >= t + 1 + 1 - MaxStoredTurns <=> j >= 2
                   /\ 2 * j - 1 \in 3..(2 * k + 2) <=> j >= 2
                   /\ 2 * j \in 3..(2 * k + 2) <=> j >= 2
        BY <2>2
      <4> SUFFICES ASSUME NEW i \in 1..(2 * k + 2)
                   PROVE  list[i].number >= t + 1 + 1 - MaxStoredTurns <=> i \in 3..(2 * k + 2)
        OBVIOUS
      <4>2. PICK j \in 1..(k + 1) : i = 2 * j - 1 \/ i = 2 * j
        BY <1>4
      <4>3. list[i].number = t - k + j
        BY <1>3, <4>2
      <4> QED BY <4>1, <4>2, <4>3
    <3>3. S = 3..(2 * k + 2)
      BY <1>2, <3>2
    <3>4. PICK last \in Int : last = 2 * k + 2
      OBVIOUS
    <3>5. Cardinality(3..last) = IF 3 > last THEN 0 ELSE last - 3 + 1
      BY FS_Interval
    <3>6. ~(3 > last) /\ last - 3 + 1 = 2 * k
      BY <1>1, <2>2, <3>4
    <3>7. S = 3..last
      BY <3>3, <3>4
    <3> HIDE DEF S
    <3> QED BY <3>1, <3>5, <3>6, <3>7
  <2>3. k < MaxStoredTurns \/ k = MaxStoredTurns
    BY <1>1 DEF Least
  <2> QED BY <2>1, <2>2, <2>3
<1> QED BY <1>5 DEF Trimmed

\* So the store remembers the newest turns, the appended one among them.
LEMMA AppendedIsRemembered ==
    ASSUME SaidInTurns(told), IsHistory(messages), Remembers(messages, told),
           NEW user \in Said, NEW assistant \in Said,
           messages' = Trimmed(messages \o <<Message(NextNumber, "user", Sanitized(user)),
                                             Message(NextNumber, "assistant", Sanitized(assistant))>>,
                               NextNumber),
           told' = Append(told, [number |-> NextNumber, user |-> user, assistant |-> assistant])
    PROVE  SaidInTurns(told') /\ IsHistory(messages') /\ Remembers(messages', told')
<1> DEFINE t == Len(told)
           k == Least(MaxStoredTurns, t)
           K == Least(MaxStoredTurns, t + 1)
           d == k + 1 - K
<1>1. PICK number : number = NextNumber
  OBVIOUS
<1>2. number = t + 1
  BY <1>1, NumbersGoOn
<1>3. PICK turn : turn = [number |-> number, user |-> user, assistant |-> assistant]
  OBVIOUS
<1>4. PICK longer : longer = messages \o <<Message(number, "user", Sanitized(user)),
                                           Message(number, "assistant", Sanitized(assistant))>>
  OBVIOUS
<1>5. told' = Append(told, turn) /\ messages' = Trimmed(longer, t + 1)
  BY <1>1, <1>2, <1>3, <1>4
<1>6. /\ t \in Nat /\ k \in Nat /\ k <= t
      /\ SaidInTurns(told') /\ Len(told') = t + 1
      /\ IsHistory(longer) /\ Len(longer) = 2 * k + 2
      /\ \A j \in 1..(k + 1) : TurnAt(longer, j, told', t - k + j)
  BY <1>2, <1>3, <1>4, <1>5, TurnIsAppended
<1>7. messages' = SubSeq(longer, Len(longer) - Least(2 * MaxStoredTurns, Len(longer)) + 1, Len(longer))
  BY <1>5, <1>6, KeptOfBoth
<1>8. t \in Nat /\ k \in Nat /\ k <= t /\ Len(longer) = 2 * k + 2
  BY <1>6
<1>9. K \in Nat /\ d \in Nat /\ d + K = k + 1 /\ t + 1 - K = t - k + d
  <2>1. PICK most \in Nat : most = MaxStoredTurns
    BY MemoryAssumption
  <2>2. k = IF most < t THEN most ELSE t
    BY <2>1 DEF Least
  <2>3. K = IF most < t + 1 THEN most ELSE t + 1
    BY <2>1 DEF Least
  <2>4. d = k + 1 - K
    OBVIOUS
  <2> HIDE DEF t, k, K, d
  <2> QED BY <1>8, <2>2, <2>3, <2>4
<1>10. /\ Len(told') = t + 1
       /\ \A j \in 1..(k + 1) : TurnAt(longer, j, told', t - k + j)
  BY <1>6
<1>11. Least(2 * MaxStoredTurns, 2 * k + 2) = 2 * K
  <2>1. PICK most \in Nat : most = MaxStoredTurns
    BY MemoryAssumption
  <2>2. k = IF most < t THEN most ELSE t
    BY <2>1 DEF Least
  <2>3. K = IF most < t + 1 THEN most ELSE t + 1
    BY <2>1 DEF Least
  <2>4. Least(2 * MaxStoredTurns, 2 * k + 2) = IF 2 * most < 2 * k + 2 THEN 2 * most ELSE 2 * k + 2
    BY <2>1 DEF Least
  <2> HIDE DEF t, k, K, d
  <2> QED BY <1>8, <1>9, <2>2, <2>3, <2>4
<1> HIDE DEF K, d, k, t
<1>12. messages' = SubSeq(longer, 2 * d + 1, 2 * k + 2)
  <2>1. PICK n : n = 2 * k + 2
    OBVIOUS
  <2>2. PICK kept : kept = Least(2 * MaxStoredTurns, n)
    OBVIOUS
  <2>3. PICK start : start = n - kept + 1
    OBVIOUS
  <2>4. messages' = SubSeq(longer, start, n)
    BY <1>7, <1>8, <2>1, <2>2, <2>3
  <2>5. start = 2 * d + 1
    BY <1>8, <1>9, <1>11, <2>1, <2>2, <2>3
  <2> QED BY <2>1, <2>4, <2>5
<1>13. /\ \E M : messages' \in Seq(M)
       /\ Len(messages') = 2 * K
       /\ \A i \in 1..(2 * K) : messages'[i] = longer[2 * d + i] /\ 2 * d + i \in 1..(2 * k + 2)
  <2>1. PICK M : longer \in Seq(M)
    BY <1>6 DEF IsHistory
  <2>2. PICK m \in Int : m = 2 * d + 1
    BY <1>9
  <2>3. PICK n \in Int : n = 2 * k + 2
    BY <1>8
  <2>4. \A i \in m..n : longer[i] \in M
    <3>1. \A i \in m..n : i \in 1..Len(longer)
      BY <1>8, <1>9, <2>2, <2>3
    <3> QED BY <2>1, <3>1, ElementOfSeq
  <2>5. /\ SubSeq(longer, m, n) \in Seq(M)
        /\ Len(SubSeq(longer, m, n)) = IF m <= n THEN n - m + 1 ELSE 0
        /\ \A i \in 1..(n - m + 1) : SubSeq(longer, m, n)[i] = longer[m + i - 1]
    BY <2>4, SubSeqProperties
  <2>6. /\ n - m + 1 = 2 * K
        /\ ~(m <= n) => K = 0
        /\ \A i \in 1..(2 * K) : m + i - 1 = 2 * d + i /\ 2 * d + i \in 1..(2 * k + 2)
    BY <1>8, <1>9, <2>2, <2>3
  <2>7. messages' = SubSeq(longer, m, n)
    BY <1>12, <2>2, <2>3
  <2>8. Len(messages') = 2 * K
    BY <1>9, <2>5, <2>6, <2>7
  <2> QED BY <2>5, <2>6, <2>7, <2>8
<1>14. IsHistory(messages')
  <2>1. ASSUME NEW i \in 1..(2 * K)
        PROVE /\ messages'[i] = Message(messages'[i].number, messages'[i].role, messages'[i].content)
              /\ Clean(messages'[i].content)
    <3>1. messages'[i] = longer[2 * d + i] /\ 2 * d + i \in 1..Len(longer)
      BY <1>8, <1>13
    <3> QED BY <1>6, <3>1 DEF IsHistory
  <2> QED BY <1>13, <2>1 DEF IsHistory
<1>15. ASSUME NEW i \in 1..K PROVE TurnAt(messages', i, told', t + 1 - K + i)
  <2>1. i + d \in 1..(k + 1) /\ t - k + (i + d) = t + 1 - K + i
    BY <1>8, <1>9
  <2>2. TurnAt(longer, i + d, told', t + 1 - K + i)
    BY <1>10, <2>1
  <2>3. /\ 2 * i - 1 \in 1..(2 * K) /\ 2 * d + (2 * i - 1) = 2 * (i + d) - 1
        /\ 2 * i \in 1..(2 * K) /\ 2 * d + 2 * i = 2 * (i + d)
    BY <1>9
  <2> QED BY <1>13, <2>2, <2>3 DEF TurnAt
<1>16. Remembers(messages', told')
  <2>1. K = Least(MaxStoredTurns, Len(told'))
    BY <1>10 DEF K
  <2>2. ASSUME NEW i \in 1..K PROVE TurnAt(messages', i, told', Len(told') - K + i)
    <3>1. PICK n : n = t + 1 - K + i
      OBVIOUS
    <3>2. PICK end : end = Len(told')
      OBVIOUS
    <3>3. end - K + i = n
      BY <1>8, <1>9, <1>10, <3>1, <3>2
    <3>4. TurnAt(messages', i, told', n)
      BY <1>15, <3>1, Zenon
    <3> QED BY <3>2, <3>3, <3>4, Zenon
  <2>3. PICK kept : kept = K
    OBVIOUS
  <2>4. /\ kept = Least(MaxStoredTurns, Len(told'))
        /\ Len(messages') = 2 * kept
        /\ \A i \in 1..kept : TurnAt(messages', i, told', Len(told') - kept + i)
    BY <1>13, <2>1, <2>2, <2>3
  <2> QED BY <2>4 DEF Remembers
<1> QED BY <1>6, <1>14, <1>16

\* What is stored is the newest of what was said; a request reads it as it was stored at
\* some time.
MemoryInv ==
    /\ SaidInTurns(told)
    /\ IsHistory(messages)
    /\ Remembers(messages, told)
    /\ client = [c \in Callers |-> client[c]]
    /\ \A c \in Callers : client[c].at = "answering" =>
          /\ client[c].text \in Utterances
          /\ IsHistory(client[c].read)
          /\ client[c].context = Contextualized(client[c].text, client[c].read, client[c].waiting)

\* Nothing is remembered of nothing.
LEMMA NothingIsRemembered == SaidInTurns(<<>>) /\ IsHistory(<<>>) /\ Remembers(<<>>, <<>>)
<1>1. PICK none : none = <<>>
  OBVIOUS
<1>2. none \in Seq({}) /\ Len(none) = 0
  BY <1>1, EmptySeq
<1>3. SaidInTurns(none) /\ IsHistory(none)
  BY <1>2 DEF SaidInTurns, IsHistory
<1>4. Least(MaxStoredTurns, 0) = 0
  BY MemoryAssumption DEF Least
<1>5. Remembers(none, none)
  BY <1>2, <1>4 DEF Remembers
<1> QED BY <1>1, <1>3, <1>5

\* At the start nothing is stored and nobody asks.
LEMMA MemoryStart == MemoryInit => MemoryInv
BY NothingIsRemembered DEF MemoryInit, MemoryInv, Idle

\* A turn that is appended, a memory that is cleared and a restart keep that.
LEMMA MemoryStep == MemoryInv /\ [MemoryNext]_memoryVars => MemoryInv'
<1> SUFFICES ASSUME MemoryInv, [MemoryNext]_memoryVars PROVE MemoryInv'
  OBVIOUS
<1>1. ASSUME NEW c \in Callers, NEW text \in Utterances, NEW waiting \in BOOLEAN, Read(c, text, waiting)
      PROVE  MemoryInv'
  BY <1>1 DEF Read, MemoryInv
<1>2. ASSUME NEW c \in Callers, NEW reply \in Replies, AppendTurn(c, reply) PROVE MemoryInv'
  <2>1. client[c].text.pieces \in Said /\ reply \in Said
    BY <1>2 DEF AppendTurn, MemoryInv, Said
  <2>2. SaidInTurns(told') /\ IsHistory(messages') /\ Remembers(messages', told')
    BY <1>2, <2>1, AppendedIsRemembered DEF AppendTurn, MemoryInv
  <2> QED BY <1>2, <2>2 DEF AppendTurn, MemoryInv, Idle
<1>3. ASSUME NEW c \in Callers, Abandon(c) PROVE MemoryInv'
  BY <1>3 DEF Abandon, MemoryInv, Idle
<1>4. ASSUME NEW c \in Callers, Clear(c) PROVE MemoryInv'
  BY <1>4, NothingIsRemembered DEF Clear, MemoryInv
<1>5. ASSUME Restart PROVE MemoryInv'
  BY <1>5, NothingIsRemembered DEF Restart, MemoryInv, Idle
<1>6. ASSUME UNCHANGED memoryVars PROVE MemoryInv'
  BY <1>6 DEF memoryVars, MemoryInv
<1> QED BY <1>1, <1>2, <1>3, <1>4, <1>5, <1>6 DEF MemoryNext

\* What the invariant says is what is promised.
LEMMA InvIsFaithful == MemoryInv => MemoryIsFaithful
<1> SUFFICES ASSUME MemoryInv PROVE RemembersNewestTurns /\ HistoryIsRecentAndClean
  BY DEF MemoryIsFaithful
<1>1. RemembersNewestTurns
  BY DEF MemoryInv, Remembers, TurnAt, RemembersNewestTurns
<1>2. ASSUME NEW c \in Callers, client[c].at = "answering"
      PROVE  /\ RecentAndClean(client[c].context, client[c].read, MessageLimit, PieceLimit)
             /\ client[c].context # <<>> => RequiresContext(client[c].text) /\ ~client[c].waiting
  <2>1. PICK past : past = client[c].read
    OBVIOUS
  <2>2. PICK context : context = client[c].context
    OBVIOUS
  <2>3. /\ IsHistory(past)
        /\ context = Contextualized(client[c].text, past, client[c].waiting)
    BY <1>2, <2>1, <2>2 DEF MemoryInv
  <2>4. CASE client[c].waiting \/ ~RequiresContext(client[c].text)
    <3>1. context = <<>>
      BY <2>3, <2>4 DEF Contextualized
    <3>2. IsHistory(context) /\ Len(context) = 0
      BY <3>1, NothingIsRemembered, EmptySeq
    <3>3. PiecesAfter(context, 0) = 0
      BY <3>2, PiecesAdd
    <3>4. \A m \in ToSet(context) : "secret" \notin ToSet(m.content)
      BY <3>2, HistorySaysNoSecret
    <3>5. RecentAndClean(context, past, MessageLimit, PieceLimit)
      BY <3>1, <3>2, <3>3, <3>4, MemoryAssumption DEF RecentAndClean
    <3> QED BY <2>1, <2>2, <3>1, <3>5
  <2>5. CASE ~client[c].waiting /\ RequiresContext(client[c].text)
    <3>1. context = Selected(past, MessageLimit, PieceLimit)
      BY <2>3, <2>5 DEF Contextualized
    <3>2. MessageLimit \in Nat /\ PieceLimit \in Nat
      BY MemoryAssumption
    <3>3. RecentAndClean(context, past, MessageLimit, PieceLimit)
      BY <2>3, <3>1, <3>2, SelectedIsRecent
    <3> QED BY <2>1, <2>2, <2>5, <3>3
  <2> QED BY <2>4, <2>5
<1>3. HistoryIsRecentAndClean
  BY <1>2 DEF HistoryIsRecentAndClean, RecentAndClean
<1> QED BY <1>1, <1>3

\* What is stored is the newest turns, whole and in order, and what a request reads is the
\* end of them within its limits, without a piece of a credential, for any overlapping
\* requests, limits and texts (append_turn of both stores, sanitize_memory_content, build).
THEOREM MemoryIsAlwaysFaithful == MemorySpec => []MemoryIsFaithful
BY MemoryStart, MemoryStep, InvIsFaithful, PTL DEF MemorySpec
===============================================================================
