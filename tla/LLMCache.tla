------------------------------- MODULE LLMCache -------------------------------
(***************************************************************************)
(* CachedLLMClient over RedisLLMCache: requests read the cache, join or     *)
(* start the shared call of their key (AsyncSingleFlight) and store its     *)
(* answer.  The event loop runs one coroutine at a time; no coroutine       *)
(* suspends while it holds the lock of the registry, so each section under  *)
(* the lock is part of the step it occurs in.                               *)
(***************************************************************************)
EXTENDS Naturals, FiniteSets

CONSTANTS
    Chats,      \* calls of chat
    Keys,       \* digests of cacheable messages
    Absent,     \* not cacheable, not cached, nobody
    MaxKeys,    \* singleflight_max_keys
    Coalescing  \* singleflight_enabled

ASSUME CacheAssumption ==
    /\ MaxKeys \in Nat \ {0}
    /\ Coalescing \in BOOLEAN
    /\ Absent \notin Chats \cup Keys

VARIABLES
    cache,     \* Redis: the keys that hold an answer
    registry,  \* AsyncSingleFlight._tasks: who started the shared call of a key
    closing,   \* the close of the application
    chat,      \* the coroutine of each chat
    call       \* the call of _fetch_and_maybe_cache each chat has started

cacheVars == <<cache, registry, closing, chat, call>>

-----------------------------------------------------------------------------
Closings == {"open", "cancelling", "backendClosed", "closed"}
\* alone: the call runs inside the chat.  joined: whose shared call it awaits.
Requested == [at : {"new", "reading", "shared", "alone", "answered", "failed",
                    "cancelled", "disconnected"},
              key : Keys \cup {Absent}, read : {"none", "hit", "miss", "error"},
              joined : Chats \cup {Absent}]
\* shared: the call is a task.  stores: cache_read_succeeded.  fit: the model gave
\* an answer that is not blank.
Called == [at : {"none", "upstream", "storing", "answered", "failed", "cancelled"},
           key : Keys \cup {Absent}, shared : BOOLEAN, stores : BOOLEAN,
           fit : BOOLEAN, cancel : BOOLEAN]

NewRequest == [at |-> "new", key |-> Absent, read |-> "none", joined |-> Absent]
NoCall == [at |-> "none", key |-> Absent, shared |-> FALSE, stores |-> FALSE,
           fit |-> FALSE, cancel |-> FALSE]

CacheTypeOK ==
    /\ cache \subseteq Keys
    /\ registry \in [Keys -> Chats \cup {Absent}]
    /\ closing \in Closings
    /\ chat \in [Chats -> Requested]
    /\ call \in [Chats -> Called]

CacheInit ==
    /\ cache = {}
    /\ registry = [k \in Keys |-> Absent]
    /\ closing = "open"
    /\ chat = [r \in Chats |-> NewRequest]
    /\ call = [r \in Chats |-> NoCall]

ChatAt(r, place) == chat[r].at = place
CallAt(r, place) == call[r].at = place
CallRuns(r) == call[r].at \in {"upstream", "storing"}
Closed == closing # "open"

\* The chat leaves with this outcome.
Leaves(r, outcome) == chat' = [chat EXCEPT ![r] = [NewRequest EXCEPT !.at = outcome]]

Starts(r, shared) ==
    call' = [call EXCEPT ![r] =
        [NoCall EXCEPT !.at = "upstream", !.key = chat[r].key, !.shared = shared,
                       !.stores = (chat[r].read = "miss")]]

-----------------------------------------------------------------------------
(* chat                                                                     *)

\* A disabled backend, or messages build_llm_cache_key gives no digest.
Bypass(r) ==
    /\ ChatAt(r, "new")
    /\ chat' = [chat EXCEPT ![r].at = "alone"]
    /\ Starts(r, FALSE)
    /\ UNCHANGED <<cache, registry, closing>>

\* What Redis answers and what it holds when the coroutine continues may differ.
Get(r) ==
    /\ ChatAt(r, "new")
    /\ \E k \in Keys, read \in {"hit", "miss", "error"} :
          /\ read = "hit" => k \in cache
          /\ read = "miss" => k \notin cache
          /\ chat' = [chat EXCEPT ![r] =
                [@ EXCEPT !.at = "reading", !.key = k, !.read = read]]
    /\ UNCHANGED <<cache, registry, closing, call>>

Hit(r) ==
    /\ ChatAt(r, "reading")
    /\ chat[r].read = "hit"
    /\ Leaves(r, "answered")
    /\ UNCHANGED <<cache, registry, closing, call>>

GoesOn(r) == ChatAt(r, "reading") /\ chat[r].read # "hit"

\* run raises: the coordinator is closed.
RunRejected(r) ==
    /\ GoesOn(r)
    /\ Coalescing /\ Closed
    /\ Leaves(r, "failed")
    /\ UNCHANGED <<cache, registry, closing, call>>

InFlight == {k \in Keys : registry[k] # Absent}

\* singleflight_enabled is off, or the registry is full: the call is the
\* chat's own.
Overflow(r) ==
    /\ GoesOn(r)
    /\ Coalescing => /\ ~Closed
                     /\ registry[chat[r].key] = Absent
                     /\ Cardinality(InFlight) >= MaxKeys
    /\ chat' = [chat EXCEPT ![r].at = "alone"]
    /\ Starts(r, FALSE)
    /\ UNCHANGED <<cache, registry, closing>>

Lead(r) ==
    /\ GoesOn(r)
    /\ Coalescing /\ ~Closed
    /\ registry[chat[r].key] = Absent
    /\ Cardinality(InFlight) < MaxKeys
    /\ chat' = [chat EXCEPT ![r].at = "shared", ![r].joined = r]
    /\ registry' = [registry EXCEPT ![chat[r].key] = r]
    /\ Starts(r, TRUE)
    /\ UNCHANGED <<cache, closing>>

Follow(r) ==
    /\ GoesOn(r)
    /\ Coalescing /\ ~Closed
    /\ registry[chat[r].key] # Absent
    /\ chat' = [chat EXCEPT ![r].at = "shared", ![r].joined = registry[chat[r].key]]
    /\ UNCHANGED <<cache, registry, closing, call>>

\* The task is done and the waiter runs again.
Resume(r) ==
    /\ ChatAt(r, "shared")
    /\ ~CallRuns(chat[r].joined)
    /\ Leaves(r, call[chat[r].joined].at)
    /\ UNCHANGED <<cache, registry, closing, call>>

\* The client disconnects: the waiter ends, the shielded task does not.
Disconnect(r) ==
    /\ chat[r].at \in {"reading", "shared"}
    /\ Leaves(r, "disconnected")
    /\ UNCHANGED <<cache, registry, closing, call>>

\* A call inside the chat ends with it, whether Redis has stored or not.
DisconnectAlone(r) ==
    /\ ChatAt(r, "alone")
    /\ CallRuns(r)
    /\ Leaves(r, "disconnected")
    /\ call' = [call EXCEPT ![r].at = "cancelled"]
    /\ UNCHANGED <<cache, registry, closing>>

-----------------------------------------------------------------------------
(* _fetch_and_maybe_cache                                                   *)

\* The finally clause of _run_and_cleanup.
Deregistered(r, end) == [k \in Keys |-> IF registry[k] = r THEN Absent ELSE registry[k]]

\* A call alone returns to its chat, a shared one to whoever waits for it.
CallEnds(r, end) ==
    /\ call' = [call EXCEPT ![r].at = end]
    /\ registry' = IF call[r].shared THEN Deregistered(r, end) ELSE registry
    /\ IF ChatAt(r, "alone") THEN Leaves(r, end) ELSE UNCHANGED chat

UpstreamFails(r) ==
    /\ CallAt(r, "upstream")
    /\ ~call[r].cancel
    /\ CallEnds(r, "failed")
    /\ UNCHANGED <<cache, closing>>

\* Nothing is stored when the read of this chat did not succeed, or the answer
\* is blank.
UpstreamAnswers(r) ==
    /\ CallAt(r, "upstream")
    /\ ~call[r].cancel
    /\ \/ CallEnds(r, "answered")
       \/ /\ call[r].stores
          /\ call' = [call EXCEPT ![r].at = "storing", ![r].fit = TRUE]
          /\ UNCHANGED <<registry, chat>>
    /\ UNCHANGED <<cache, closing>>

\* Redis executes SET; the call has yet to hear of it.
Stores(r) ==
    /\ CallAt(r, "storing")
    /\ cache' = cache \cup {call[r].key}
    /\ UNCHANGED <<registry, closing, chat, call>>

\* Mutant: a failed SET is raised.
SetRaises(r) ==
    /\ CallAt(r, "storing")
    /\ ~call[r].cancel
    /\ \E end \in {"answered", "failed"} : CallEnds(r, end)
    /\ UNCHANGED <<cache, closing>>

\* SET returned, failed or was rejected: the answer is returned in each case.
SetReturns(r) ==
    /\ CallAt(r, "storing")
    /\ ~call[r].cancel
    /\ CallEnds(r, "answered")
    /\ UNCHANGED <<cache, closing>>

\* CancelledError reaches the task at whatever it awaits.
TaskCancelled(r) ==
    /\ CallRuns(r)
    /\ call[r].cancel
    /\ CallEnds(r, "cancelled")
    /\ UNCHANGED <<cache, closing>>

Expire(k) ==
    /\ k \in cache
    /\ cache' = cache \ {k}
    /\ UNCHANGED <<registry, closing, chat, call>>

-----------------------------------------------------------------------------
(* close                                                                    *)

\* aclose: the registry is emptied and its tasks are cancelled.
CloseBegin ==
    /\ closing = "open"
    /\ closing' = "cancelling"
    /\ call' = [r \in Chats |->
          IF \E k \in Keys : registry[k] = r THEN [call[r] EXCEPT !.cancel = TRUE]
          ELSE call[r]]
    /\ registry' = [k \in Keys |-> Absent]
    /\ UNCHANGED <<cache, chat>>

SharedRunning == {r \in Chats : call[r].shared /\ CallRuns(r)}

\* gather returned; then the backend is closed, an error only logged.
CloseBackend ==
    /\ closing = "cancelling"
    /\ SharedRunning = {}
    /\ closing' = "backendClosed"
    /\ UNCHANGED <<cache, registry, chat, call>>

CloseUpstream ==
    /\ closing = "backendClosed"
    /\ closing' = "closed"
    /\ UNCHANGED <<cache, registry, chat, call>>

Chat(r) ==
    \/ Bypass(r)
    \/ Get(r)
    \/ Hit(r)
    \/ RunRejected(r)
    \/ Overflow(r)
    \/ Lead(r)
    \/ Follow(r)
    \/ Resume(r)
    \/ Disconnect(r)
    \/ DisconnectAlone(r)

FetchAndMaybeCache(r) ==
    \/ UpstreamFails(r)
    \/ UpstreamAnswers(r)
    \/ Stores(r)
    \/ SetReturns(r)
    \/ TaskCancelled(r)

CacheNext ==
    \/ \E r \in Chats : Chat(r) \/ FetchAndMaybeCache(r)
    \/ \E k \in Keys : Expire(k)
    \/ CloseBegin
    \/ CloseBackend
    \/ CloseUpstream

CacheSpec == CacheInit /\ [][CacheNext]_cacheVars

-----------------------------------------------------------------------------
(* Properties                                                               *)

\* Calls that fail, lose their first waiter or are cancelled leave no entry
\* behind and lose none: the registry names exactly the shared calls that run,
\* one for a key and at most MaxKeys, until close empties it (run,
\* _run_and_cleanup, aclose).  The connections to Redis and to the model are closed
\* when no shared call runs on them, and none starts later (close, aclose).
RegistryIsExact ==
    /\ ~Closed => \A r \in Chats, k \in Keys :
           registry[k] = r <=> r \in SharedRunning /\ call[r].key = k
    /\ Closed => InFlight = {}
    /\ Cardinality(InFlight) <= MaxKeys
    /\ closing \in {"backendClosed", "closed"} => SharedRunning = {}

\* A chat that did not disconnect is cancelled only by the shutdown, although
\* the others that share its call may leave in any order (asyncio.shield in run);
\* and an error of Redis never turns an answer into an error: a call the model has
\* answered does not fail, whoever waits for it (_fetch_and_maybe_cache).
NobodyEndsForAnother ==
    \A r \in Chats :
        /\ ChatAt(r, "cancelled") => Closed
        /\ CallAt(r, "failed") => ~call[r].fit

\* A shared call is one call, and the end of one who shares it is his own.
SharingIsInvisible == RegistryIsExact /\ NobodyEndsForAnother
=============================================================================
