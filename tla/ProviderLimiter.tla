---------------------------- MODULE ProviderLimiter ----------------------------
(***************************************************************************)
(* ConcurrencyLimitedLLMClient: permits for calls of the LLM provider, a   *)
(* bounded FIFO queue behind them, a queue timeout, and a close that       *)
(* rejects, drains and closes the upstream client once.                    *)
(*                                                                         *)
(* Every task runs on one event loop and no critical section of the        *)
(* condition awaits anything, so its lock is never contended: a section    *)
(* from one suspension to the next is one step.  What does interleave is   *)
(* the order in which suspended tasks run again: notify_all only makes     *)
(* them runnable, and each tests its predicate when its turn comes.        *)
(***************************************************************************)
EXTENDS Naturals, Sequences, FiniteSets, SequencesExt

CONSTANTS
    Requests,       \* tasks that call chat, one call at a time each
    Closers,        \* tasks that call close
    Enabled,        \* enabled
    MaxConcurrency, \* max_concurrency
    MaxQueue,       \* max_queue
    Modulus         \* bound: the counters are kept modulo this number

ASSUME LimiterAssumption ==
    /\ Requests \cap Closers = {}
    /\ IsFiniteSet(Requests)
    /\ Enabled \in BOOLEAN
    /\ MaxConcurrency \in Nat \ {0}
    /\ MaxQueue \in Nat
    /\ Modulus \in Nat \ {0}

VARIABLES
    call,           \* where the task of each request stands
    waiters,        \* _waiters
    inFlight,       \* _in_flight
    closing,        \* where each call of close stands
    closed,         \* _closed
    upstreamClosed, \* _upstream_closed
    woken,          \* suspended tasks that a notify_all has made runnable
    metrics         \* the counters of status that balance

limiter == <<call, waiters, inFlight, closing, closed, upstreamClosed, woken, metrics>>

Counters == {"requests", "accepted", "completed", "failed", "rejected",
             "timed_out", "cancelled"}

TypeOK ==
    /\ call \in [Requests -> {"idle", "queued", "calling"}]
    /\ waiters \in Seq(Requests)
    /\ inFlight \in Nat
    /\ closing \in [Closers -> {"idle", "locking", "draining", "closing"}]
    /\ closed \in BOOLEAN
    /\ upstreamClosed \in BOOLEAN
    /\ woken \subseteq Requests \cup Closers
    /\ metrics \in [Counters -> 0 .. Modulus - 1]

Init ==
    /\ call = [p \in Requests |-> "idle"]
    /\ waiters = <<>>
    /\ inFlight = 0
    /\ closing = [c \in Closers |-> "idle"]
    /\ closed = FALSE
    /\ upstreamClosed = FALSE
    /\ woken = {}
    /\ metrics = [f \in Counters |-> 0]

Count(fields) ==
    metrics' = [f \in Counters |->
                   IF f \in fields THEN (metrics[f] + 1) % Modulus ELSE metrics[f]]

\* notify_all: whoever is suspended in wait_for after this step may run.
NotifyAll ==
    woken' = {p \in Requests : call'[p] = "queued"}
             \cup {c \in Closers : closing[c] = "draining"}

Position(p) == CHOOSE i \in DOMAIN waiters : waiters[i] = p

closeVars == <<closing, closed, upstreamClosed>>

-----------------------------------------------------------------------------
(* _acquire, up to the first suspension                                     *)

RejectClosed(p) ==
    /\ call[p] = "idle"
    /\ closed
    /\ Count({"requests", "rejected"})
    /\ UNCHANGED <<call, waiters, inFlight, closeVars, woken>>

\* A disabled limiter counts the call and lets it pass.
StartAtOnce(p) ==
    /\ call[p] = "idle"
    /\ ~closed
    /\ Enabled => inFlight < MaxConcurrency /\ waiters = <<>>
    /\ call' = [call EXCEPT ![p] = "calling"]
    /\ inFlight' = inFlight + 1
    /\ Count({"requests", "accepted"})
    /\ UNCHANGED <<waiters, closeVars, woken>>

MustWait == Enabled /\ ~closed /\ (inFlight >= MaxConcurrency \/ waiters # <<>>)

RejectOverloaded(p) ==
    /\ call[p] = "idle"
    /\ MustWait
    /\ Len(waiters) >= MaxQueue
    /\ Count({"requests", "rejected"})
    /\ UNCHANGED <<call, waiters, inFlight, closeVars, woken>>

Enqueue(p) ==
    /\ call[p] = "idle"
    /\ MustWait
    /\ Len(waiters) < MaxQueue
    /\ waiters' = Append(waiters, p)
    /\ call' = [call EXCEPT ![p] = "queued"]
    /\ Count({"requests", "accepted"})
    /\ UNCHANGED <<inFlight, closeVars, woken>>

-----------------------------------------------------------------------------
(* _acquire, from the suspension on                                         *)

\* Mutant: having been woken at the head of the queue is enough.
HeadOfQueue(p) == Head(waiters) = p

MayStart(p) == Head(waiters) = p /\ inFlight < MaxConcurrency

StartWaiter(p) ==
    /\ call[p] = "queued"
    /\ p \in woken
    /\ ~closed
    /\ MayStart(p)
    /\ waiters' = Tail(waiters)
    /\ call' = [call EXCEPT ![p] = "calling"]
    /\ inFlight' = inFlight + 1
    /\ NotifyAll
    /\ UNCHANGED <<closeVars, metrics>>

WaitOn(p) ==
    /\ call[p] = "queued"
    /\ p \in woken
    /\ ~closed
    /\ ~MayStart(p)
    /\ woken' = woken \ {p}
    /\ UNCHANGED <<call, waiters, inFlight, closeVars, metrics>>

\* _remove_waiter, a counter, notify_all, and an exception for the caller.
Leave(p, counter) ==
    /\ call[p] = "queued"
    /\ waiters' = RemoveAt(waiters, Position(p))
    /\ call' = [call EXCEPT ![p] = "idle"]
    /\ Count({counter})
    /\ NotifyAll
    /\ UNCHANGED <<inFlight, closeVars>>

\* A timeout or a cancellation is thrown into the task even if it is runnable.
TimeOut(p) == Leave(p, "timed_out")
CancelQueued(p) == Leave(p, "cancelled")

LeaveClosed(p) ==
    /\ p \in woken
    /\ closed
    /\ Leave(p, "cancelled")

Wake(p) == StartWaiter(p) \/ WaitOn(p) \/ LeaveClosed(p)

-----------------------------------------------------------------------------
(* The upstream call ends: _finish                                          *)

\* Mutant: the permit is given back and nobody told.
ReturnQuietly(p, outcome) ==
    /\ call[p] = "calling"
    /\ call' = [call EXCEPT ![p] = "idle"]
    /\ inFlight' = inFlight - 1
    /\ Count({outcome})
    /\ UNCHANGED <<waiters, closeVars, woken>>

Return(p, outcome) ==
    /\ call[p] = "calling"
    /\ call' = [call EXCEPT ![p] = "idle"]
    /\ inFlight' = inFlight - 1
    /\ Count({outcome})
    /\ NotifyAll
    /\ UNCHANGED <<waiters, closeVars>>

Finish(p) == \E outcome \in {"completed", "failed", "cancelled"} : Return(p, outcome)

-----------------------------------------------------------------------------
(* close                                                                    *)

Drained == inFlight = 0 /\ waiters = <<>>

Close(c) ==
    /\ closing[c] = "idle"
    /\ closing' = [closing EXCEPT ![c] = "locking"]
    /\ UNCHANGED <<call, waiters, inFlight, closed, upstreamClosed, woken, metrics>>

CloseLockFree == \A c \in Closers : closing[c] \notin {"draining", "closing"}

CloseAgain(c) ==
    /\ closing[c] = "locking"
    /\ CloseLockFree
    /\ upstreamClosed
    /\ closing' = [closing EXCEPT ![c] = "idle"]
    /\ UNCHANGED <<call, waiters, inFlight, closed, upstreamClosed, woken, metrics>>

\* The closer notifies the others before it waits itself.
CloseBegin(c) ==
    /\ closing[c] = "locking"
    /\ CloseLockFree
    /\ ~upstreamClosed
    /\ closed' = TRUE
    /\ woken' = {p \in Requests : call[p] = "queued"}
    /\ closing' = [closing EXCEPT ![c] = IF Drained THEN "closing" ELSE "draining"]
    /\ UNCHANGED <<call, waiters, inFlight, upstreamClosed, metrics>>

CloserWakes(c) ==
    /\ closing[c] = "draining"
    /\ c \in woken
    /\ closing' = IF Drained THEN [closing EXCEPT ![c] = "closing"] ELSE closing
    /\ woken' = woken \ {c}
    /\ UNCHANGED <<call, waiters, inFlight, closed, upstreamClosed, metrics>>

\* await self._upstream.close() returns.
UpstreamCloses(c) ==
    /\ closing[c] = "closing"
    /\ upstreamClosed' = TRUE
    /\ closing' = [closing EXCEPT ![c] = "idle"]
    /\ UNCHANGED <<call, waiters, inFlight, closed, woken, metrics>>

\* The task is cancelled, or the upstream's close raises: the limiter stays
\* closed to new work and close may be called again.
CloseFails(c) ==
    /\ closing[c] # "idle"
    /\ closing' = [closing EXCEPT ![c] = "idle"]
    /\ woken' = woken \ {c}
    /\ UNCHANGED <<call, waiters, inFlight, closed, upstreamClosed, metrics>>

CloserRuns(c) == CloseAgain(c) \/ CloseBegin(c) \/ CloserWakes(c) \/ UpstreamCloses(c)

-----------------------------------------------------------------------------

Next ==
    \/ \E p \in Requests :
          \/ RejectClosed(p)
          \/ StartAtOnce(p)
          \/ RejectOverloaded(p)
          \/ Enqueue(p)
          \/ Wake(p)
          \/ TimeOut(p)
          \/ CancelQueued(p)
          \/ Finish(p)
    \/ \E c \in Closers :
          \/ Close(c)
          \/ CloserRuns(c)
          \/ CloseFails(c)

Spec == Init /\ [][Next]_limiter

\* The event loop runs every runnable task, and the HTTP client ends every call:
\* it has a timeout and a bounded number of retries.  Nothing obliges a client to
\* call, a timer to fire first, or anybody to close.
Fairness ==
    /\ \A p \in Requests : WF_limiter(Wake(p)) /\ WF_limiter(Finish(p))
    /\ \A c \in Closers : WF_limiter(CloserRuns(c))

FairSpec == Spec /\ Fairness

-----------------------------------------------------------------------------
(* Properties                                                               *)

Calling == {p \in Requests : call[p] = "calling"}
Queued == {p \in Requests : call[p] = "queued"}

\* The counters of status: each request was refused or accepted, and each accepted
\* one is waiting, running or ended in one way.
MetricsBalance ==
    /\ metrics["requests"] = (metrics["accepted"] + metrics["rejected"]) % Modulus
    /\ metrics["accepted"] =
          (Len(waiters) + inFlight + metrics["completed"] + metrics["failed"]
           + metrics["timed_out"] + metrics["cancelled"]) % Modulus

\* However calls end, by answer, error, cancellation, timeout or shutdown, no permit
\* is lost or given back twice: the count is the number of calls the provider is
\* serving, within the limit, the queue holds every waiting task exactly once, and
\* the counters balance; and from the moment a closer starts to close the upstream
\* client no call runs on it and none will start, whatever was admitted before.
PermitsAreConserved ==
    /\ MetricsBalance
    /\ inFlight = Cardinality(Calling)
    /\ ToSet(waiters) = Queued
    /\ Len(waiters) = Cardinality(Queued)
    /\ Enabled => inFlight <= MaxConcurrency /\ Len(waiters) <= MaxQueue
    /\ upstreamClosed \/ (\E c \in Closers : closing[c] = "closing")
          => Calling = {} /\ Queued = {}

Starts(p) == call[p] # "calling" /\ call'[p] = "calling"
Behind(p, q) == p \in Queued => Position(q) < Position(p)

\* First come, first served: no call starts while an earlier request is waiting,
\* not even one that arrives when a permit has just become free.
NoOvertaking ==
    [][\A p, q \in Requests : Starts(p) /\ q \in Queued /\ q # p => ~Behind(p, q)]_limiter

\* No wake-up is lost: a waiting request gets its turn although no timer ever fires
\* for it (notify_all in _finish and on every way out of the queue).
WaitersAreServed == \A p \in Requests : call[p] = "queued" ~> call[p] # "queued"

\* A close that drains comes to its end, whatever is queued or running when it
\* begins and in whichever order the woken tasks run.
CloseEnds == \A c \in Closers : closing[c] = "draining" ~> closing[c] # "draining"

\* Neither a request nor a close waits for ever, and none is served before an earlier
\* one (the tickets of the queue, notify_all in _finish and close).
EveryoneIsServedInTurn == NoOvertaking /\ WaitersAreServed /\ CloseEnds
=============================================================================
