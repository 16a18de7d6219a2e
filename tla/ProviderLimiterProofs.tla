------------------------- MODULE ProviderLimiterProofs -------------------------
(***************************************************************************)
(* However calls end, by answer, error, timeout, cancellation or shutdown: *)
(* permits and queue places are conserved, the counters balance, no call   *)
(* runs once the upstream client is being closed, and no newcomer          *)
(* overtakes.  The queue is a sequence without repetitions whose elements  *)
(* are the tasks that wait; each action moves one task between the queue,  *)
(* the calls and the idle ones.                                            *)
(***************************************************************************)
EXTENDS ProviderLimiter, FiniteSetTheorems, SequenceTheorems, TLAPS

-----------------------------------------------------------------------------
(* Counters modulo a number                                                 *)

\* The remainder is determined by quotient and remainder.
LEMMA ModUnique ==
    ASSUME NEW m \in Nat \ {0}, NEW q \in Int, NEW r \in 0 .. m - 1
    PROVE  (q * m + r) % m = r
<1> DEFINE d == (q * m + r) \div m
           s == (q * m + r) % m
<1>1. d \in Int /\ s \in 0 .. m - 1 /\ q * m + r = m * d + s
  OBVIOUS
<1> HIDE DEF d, s
<1>2. (q - d) * m = s - r
  BY <1>1
<1>3. q - d = 0
  <2>1. CASE q - d >= 1
    <3>1. (q - d) * m >= m
      BY <2>1, <1>1
    <3> QED BY <3>1, <1>1, <1>2
  <2>2. CASE q - d <= -1
    <3>1. (q - d) * m <= -m
      BY <2>2, <1>1
    <3> QED BY <3>1, <1>1, <1>2
  <2> QED BY <2>1, <2>2, <1>1
<1> QED BY <1>1, <1>3 DEF s

\* A number is a multiple of the modulus and its remainder.
LEMMA ModParts ==
    ASSUME NEW m \in Nat \ {0}, NEW x \in Nat
    PROVE  /\ x % m \in 0 .. m - 1
           /\ \E q \in Int : x = q * m + (x % m)
<1> DEFINE d == x \div m
           r == x % m
<1>1. x = m * d + r /\ d \in Int /\ r \in 0 .. m - 1
  OBVIOUS
<1> HIDE DEF d, r
<1>2. x = d * m + r
  BY <1>1
<1>3. r \in 0 .. m - 1 /\ \E q \in Int : x = q * m + r
  BY <1>1, <1>2
<1> QED BY <1>3 DEF r

\* A term of a sum may be reduced before the sum is.
LEMMA ModSum ==
    ASSUME NEW m \in Nat \ {0}, NEW x \in Nat, NEW y \in Nat
    PROVE  (x + (y % m)) % m = (x + y) % m
<1> DEFINE r == y % m
           s == (x + r) % m
<1>1. r \in 0 .. m - 1 /\ \E q \in Int : y = q * m + r
  BY ModParts
<1>2. s \in 0 .. m - 1 /\ \E q \in Int : x + r = q * m + s
  <2>1. x + r \in Nat
    BY <1>1
  <2> HIDE DEF r
  <2> QED BY <2>1, ModParts
<1> HIDE DEF r, s
<1>3. PICK q \in Int : y = q * m + r
  BY <1>1
<1>4. PICK p \in Int : x + r = p * m + s
  BY <1>2
<1>5. x + y = (p + q) * m + s /\ p + q \in Int
  BY <1>1, <1>2, <1>3, <1>4
<1>6. s = (x + y) % m
  BY <1>2, <1>5, ModUnique
<1> QED BY <1>6 DEF r, s

\* Counting one more before or after the reduction.
LEMMA ModNext ==
    ASSUME NEW m \in Nat \ {0}, NEW n \in Nat, NEW x, x = n % m
    PROVE  x \in 0 .. m - 1 /\ (x + 1) % m = (n + 1) % m
<1>1. x \in 0 .. m - 1
  BY ModParts
<1>2. (1 + (n % m)) % m = (1 + n) % m
  BY ModSum
<1>3. 1 + x = x + 1 /\ 1 + n = n + 1
  BY <1>1
<1> QED BY <1>1, <1>2, <1>3

-----------------------------------------------------------------------------
(* The queue as a sequence without repetitions                              *)

NoTwice(s) == \A i, j \in 1 .. Len(s) : s[i] = s[j] => i = j

\* What RemoveAt leaves.
LEMMA RemovedAt ==
    ASSUME NEW S, NEW s \in Seq(S), NEW i \in 1 .. Len(s)
    PROVE  /\ RemoveAt(s, i) \in Seq(S)
           /\ Len(RemoveAt(s, i)) = Len(s) - 1
           /\ \A j \in 1 .. Len(s) - 1 :
                 RemoveAt(s, i)[j] = IF j < i THEN s[j] ELSE s[j + 1]
<1> DEFINE front == SubSeq(s, 1, i - 1)
           back == SubSeq(s, i + 1, Len(s))
<1>0. Len(s) \in Nat /\ i \in Int /\ \A j \in 1 .. Len(s) : s[j] \in S
  BY LenProperties, ElementOfSeq
<1>1. /\ front \in Seq(S) /\ Len(front) = i - 1
      /\ \A j \in 1 .. i - 1 : front[j] = s[j]
  BY <1>0, SubSeqProperties
<1>2. /\ back \in Seq(S) /\ Len(back) = Len(s) - i
      /\ \A j \in 1 .. Len(s) - i : back[j] = s[i + j]
  BY <1>0, SubSeqProperties
<1> HIDE DEF front, back
<1>3. /\ front \o back \in Seq(S)
      /\ Len(front \o back) = Len(front) + Len(back)
      /\ \A j \in 1 .. Len(front) + Len(back) : (front \o back)[j] =
             IF j <= Len(front) THEN front[j] ELSE back[j - Len(front)]
  BY <1>1, <1>2, ConcatProperties
<1>4. ASSUME NEW j \in 1 .. Len(s) - 1
      PROVE  (front \o back)[j] = IF j < i THEN s[j] ELSE s[j + 1]
  <2>1. CASE j < i
    BY <2>1, <1>0, <1>1, <1>2, <1>3
  <2>2. CASE ~(j < i)
    <3>1. j - (i - 1) \in 1 .. Len(s) - i /\ i + (j - (i - 1)) = j + 1
      BY <2>2, <1>0
    <3>2. (front \o back)[j] = back[j - (i - 1)]
      BY <2>2, <1>0, <1>1, <1>2, <1>3
    <3> QED BY <2>2, <3>1, <3>2, <1>2
  <2> QED BY <2>1, <2>2
<1>5. RemoveAt(s, i) = front \o back
  BY DEF RemoveAt, front, back
<1>6. Len(front) + Len(back) = Len(s) - 1
  BY <1>0, <1>1, <1>2
<1> QED BY <1>3, <1>4, <1>5, <1>6

\* Taking out one place of a queue without repetitions takes out one element.
LEMMA QueueShrinks ==
    ASSUME NEW S, NEW s \in Seq(S), NEW i \in 1 .. Len(s), NoTwice(s)
    PROVE  /\ NoTwice(RemoveAt(s, i))
           /\ ToSet(RemoveAt(s, i)) = ToSet(s) \ {s[i]}
<1> DEFINE t == RemoveAt(s, i)
<1>a. /\ t \in Seq(S) /\ Len(t) = Len(s) - 1
      /\ \A j \in 1 .. Len(s) - 1 : t[j] = IF j < i THEN s[j] ELSE s[j + 1]
  BY RemovedAt
<1> HIDE DEF t
<1>0. /\ Len(s) \in Nat /\ i \in Int
      /\ DOMAIN s = 1 .. Len(s) /\ DOMAIN t = 1 .. Len(s) - 1
  BY <1>a, LenProperties
<1>1. NoTwice(t)
  BY <1>a, <1>0 DEF NoTwice
<1>2. ASSUME NEW x \in ToSet(t) PROVE x \in ToSet(s) \ {s[i]}
  <2>1. PICK j \in 1 .. Len(s) - 1 : x = t[j]
    BY <1>a, <1>0, <1>2 DEF ToSet
  <2>2. PICK k \in 1 .. Len(s) : x = s[k] /\ k # i
    BY <1>a, <1>0, <2>1
  <2> QED BY <1>a, <1>0, <2>2 DEF ToSet, NoTwice
<1>3. ASSUME NEW x \in ToSet(s) \ {s[i]} PROVE x \in ToSet(t)
  <2>1. PICK k \in 1 .. Len(s) : x = s[k] /\ k # i
    BY <1>a, <1>0, <1>3 DEF ToSet
  <2>2. CASE k < i
    <3>1. k \in 1 .. Len(s) - 1 /\ t[k] = x
      BY <2>1, <2>2, <1>a, <1>0
    <3> QED BY <3>1, <1>a, <1>0 DEF ToSet
  <2>3. CASE ~(k < i)
    <3>1. k - 1 \in 1 .. Len(s) - 1 /\ t[k - 1] = x
      BY <2>1, <2>3, <1>a, <1>0
    <3> QED BY <3>1, <1>a, <1>0 DEF ToSet
  <2> QED BY <2>2, <2>3
<1> QED BY <1>1, <1>2, <1>3 DEF t

\* Appending a task that does not wait yet keeps the queue free of repetitions.
LEMMA QueueGrows ==
    ASSUME NEW S, NEW s \in Seq(S), NoTwice(s), NEW p \in S, p \notin ToSet(s)
    PROVE  /\ Append(s, p) \in Seq(S)
           /\ Len(Append(s, p)) = Len(s) + 1
           /\ NoTwice(Append(s, p))
           /\ ToSet(Append(s, p)) = ToSet(s) \cup {p}
<1> DEFINE t == Append(s, p)
<1>1. /\ t \in Seq(S) /\ Len(t) = Len(s) + 1
      /\ \A i \in 1 .. Len(s) : t[i] = s[i]
      /\ t[Len(s) + 1] = p
  BY AppendProperties
<1>2. /\ Len(s) \in Nat
      /\ DOMAIN s = 1 .. Len(s) /\ DOMAIN t = 1 .. Len(s) + 1
  BY <1>1, LenProperties
<1> HIDE DEF t
<1>3. \A i \in 1 .. Len(s) : t[i] # p
  BY <1>1, <1>2 DEF ToSet
<1>4. NoTwice(t)
  BY <1>1, <1>2, <1>3 DEF NoTwice
<1>5. ToSet(t) = ToSet(s) \cup {p}
  <2>1. ASSUME NEW x \in ToSet(t) PROVE x \in ToSet(s) \cup {p}
    BY <2>1, <1>1, <1>2 DEF ToSet
  <2>2. ASSUME NEW x \in ToSet(s) PROVE x \in ToSet(t)
    <3>1. PICK i \in 1 .. Len(s) : x = s[i]
      BY <2>2, <1>2 DEF ToSet
    <3> QED BY <3>1, <1>1, <1>2 DEF ToSet
  <2>3. p \in ToSet(t)
    <3>1. Len(s) + 1 \in 1 .. Len(s) + 1
      BY <1>2
    <3> QED BY <3>1, <1>1, <1>2 DEF ToSet
  <2> QED BY <2>1, <2>2, <2>3
<1> QED BY <1>1, <1>4, <1>5 DEF t

-----------------------------------------------------------------------------
(* The inductive invariant                                                  *)

\* A close that drains or closes has shut the door before, and so has one that
\* has closed the upstream client.
ClosingIsClosed ==
    upstreamClosed \/ (\E c \in Closers : closing[c] \in {"draining", "closing"})
        => closed

\* PermitsAreConserved says how much waits and runs; that no task holds two places
\* of the queue, that a disabled limiter never queues, and that the door is shut
\* before the upstream client is closed make it inductive.
LimiterInv ==
    /\ TypeOK
    /\ NoTwice(waiters)
    /\ ~Enabled => waiters = <<>>
    /\ ClosingIsClosed
    /\ PermitsAreConserved

-----------------------------------------------------------------------------
(* The counters                                                             *)

Ends == {"completed", "failed", "timed_out", "cancelled"}

\* What Count does to each counter.
LEMMA Counted ==
    ASSUME TypeOK, NEW F, Count(F)
    PROVE  /\ metrics' \in [Counters -> 0 .. Modulus - 1]
           /\ \A f \in Counters : metrics'[f] =
                 IF f \in F THEN (metrics[f] + 1) % Modulus ELSE metrics[f]
<1>1. \A f \in Counters : (metrics[f] + 1) % Modulus \in 0 .. Modulus - 1
  BY LimiterAssumption DEF TypeOK
<1>2. metrics' = [f \in Counters |->
                     IF f \in F THEN (metrics[f] + 1) % Modulus ELSE metrics[f]]
  BY DEF Count
<1>3. \A f \in Counters : metrics[f] \in 0 .. Modulus - 1
  BY DEF TypeOK
<1> QED BY <1>1, <1>2, <1>3

EndedIn(m) == m["completed"] + m["failed"] + m["timed_out"] + m["cancelled"]

\* The terms of the balance are natural numbers, and the ends may be added up first.
LEMMA BalanceTerms ==
    ASSUME NEW m \in [Counters -> Nat], NEW l \in Nat, NEW n \in Nat
    PROVE  /\ EndedIn(m) \in Nat
           /\ l + n + m["completed"] + m["failed"] + m["timed_out"] + m["cancelled"]
                 = (l + n) + EndedIn(m)
<1> DEFINE c == m["completed"]
           f == m["failed"]
           t == m["timed_out"]
           k == m["cancelled"]
<1>1. c \in Nat /\ f \in Nat /\ t \in Nat /\ k \in Nat
  BY DEF Counters
<1>2. EndedIn(m) = c + f + t + k
  BY DEF EndedIn
<1> HIDE DEF c, f, t, k
<1>3. EndedIn(m) \in Nat /\ l + n + c + f + t + k = (l + n) + EndedIn(m)
  BY <1>1, <1>2
<1> QED BY <1>3 DEF c, f, t, k

\* One more of one end is one more of them all, up to the modulus.
LEMMA EndedNext ==
    ASSUME NEW m \in [Counters -> Nat], NEW n \in [Counters -> Nat], NEW e \in Ends,
           \A f \in Ends \ {e} : n[f] = m[f]
    PROVE  /\ EndedIn(m) - m[e] \in Nat
           /\ EndedIn(n) = (EndedIn(m) - m[e]) + n[e]
<1>1. \A f \in Ends : m[f] \in Nat /\ n[f] \in Nat
  BY DEF Counters, Ends
<1>2. CASE e = "completed"
  BY <1>1, <1>2 DEF EndedIn, Ends
<1>3. CASE e = "failed"
  BY <1>1, <1>3 DEF EndedIn, Ends
<1>4. CASE e = "timed_out"
  BY <1>1, <1>4 DEF EndedIn, Ends
<1>5. CASE e = "cancelled"
  BY <1>1, <1>5 DEF EndedIn, Ends
<1> QED BY <1>2, <1>3, <1>4, <1>5 DEF Ends

\* A refused request is counted as a request and as refused.
LEMMA RefusalBalances ==
    ASSUME TypeOK, MetricsBalance, Count({"requests", "rejected"}),
           UNCHANGED <<waiters, inFlight>>
    PROVE  MetricsBalance'
<1> DEFINE m == Modulus
           r == metrics["requests"]
           a == metrics["accepted"]
           j == metrics["rejected"]
           z == metrics'["rejected"]
<1>1. m \in Nat \ {0} /\ a \in Nat /\ j \in Nat
  BY LimiterAssumption DEF TypeOK, Counters
<1>2. /\ metrics'["requests"] = (r + 1) % m
      /\ z = (j + 1) % m
      /\ \A f \in Ends \cup {"accepted"} : metrics'[f] = metrics[f]
  BY Counted DEF Counters, Ends
<1>3. r = (a + j) % m
  BY DEF MetricsBalance
<1> HIDE DEF m, r, a, j, z
<1>4. (r + 1) % m = (a + j + 1) % m
  <2> DEFINE n == a + j
  <2>1. n \in Nat /\ r = n % m
    BY <1>1, <1>3
  <2> HIDE DEF n
  <2>2. (r + 1) % m = (n + 1) % m
    BY <2>1, <1>1, ModNext
  <2> QED BY <2>2 DEF n
<1>5. (a + z) % m = (a + j + 1) % m
  <2> DEFINE n == j + 1
  <2>1. n \in Nat /\ z = n % m /\ a + n = a + j + 1
    BY <1>1, <1>2
  <2> HIDE DEF n
  <2>2. (a + (n % m)) % m = (a + n) % m
    BY <2>1, <1>1, ModSum
  <2> QED BY <2>1, <2>2
<1>6. metrics'["requests"] = (metrics'["accepted"] + metrics'["rejected"]) % m
  BY <1>2, <1>4, <1>5 DEF a, z
<1> QED BY <1>2, <1>6 DEF MetricsBalance, Ends, m

\* An accepted request is counted as a request and as accepted, and it now waits or
\* runs.
LEMMA AdmissionBalances ==
    ASSUME TypeOK, MetricsBalance, Count({"requests", "accepted"}),
           Len(waiters') \in Nat, inFlight' \in Nat,
           Len(waiters') + inFlight' = Len(waiters) + inFlight + 1
    PROVE  MetricsBalance'
<1> DEFINE m == Modulus
           r == metrics["requests"]
           a == metrics["accepted"]
           j == metrics["rejected"]
           z == metrics'["accepted"]
           w == Len(waiters) + inFlight
           e == EndedIn(metrics)
<1>1. m \in Nat \ {0} /\ a \in Nat /\ j \in Nat /\ w \in Nat
  BY LimiterAssumption, LenProperties DEF TypeOK, Counters
<1>2. metrics \in [Counters -> Nat] /\ metrics' \in [Counters -> Nat]
  BY Counted, LimiterAssumption DEF TypeOK
<1>3. /\ metrics'["requests"] = (r + 1) % m
      /\ z = (a + 1) % m
      /\ metrics'["rejected"] = j
      /\ \A f \in Ends : metrics'[f] = metrics[f]
  <2>1. \A f \in Counters : metrics'[f] =
            IF f \in {"requests", "accepted"} THEN (metrics[f] + 1) % Modulus ELSE metrics[f]
    BY Counted
  <2> QED BY <2>1 DEF Counters, Ends
<1>4. r = (a + j) % m
  BY DEF MetricsBalance
<1>5. a = (w + e) % m /\ e \in Nat
  <2>1. Len(waiters) \in Nat /\ inFlight \in Nat
    BY LenProperties DEF TypeOK
  <2> QED BY <2>1, <1>2, BalanceTerms DEF MetricsBalance
<1>6. Len(waiters') + inFlight' + metrics'["completed"] + metrics'["failed"]
      + metrics'["timed_out"] + metrics'["cancelled"] = (w + 1) + e
  <2>1. EndedIn(metrics') = e
    BY <1>3 DEF EndedIn, Ends
  <2>2. Len(waiters') + inFlight' + metrics'["completed"] + metrics'["failed"]
        + metrics'["timed_out"] + metrics'["cancelled"]
            = (Len(waiters') + inFlight') + EndedIn(metrics')
    BY <1>2, BalanceTerms
  <2> QED BY <2>1, <2>2
<1> HIDE DEF m, r, a, j, z, w, e
<1>7. (r + 1) % m = (a + j + 1) % m
  <2> DEFINE n == a + j
  <2>1. n \in Nat /\ r = n % m
    BY <1>1, <1>4
  <2> HIDE DEF n
  <2>2. (r + 1) % m = (n + 1) % m
    BY <2>1, <1>1, ModNext
  <2> QED BY <2>2 DEF n
<1>8. (j + z) % m = (j + a + 1) % m /\ z \in Nat
  <2> DEFINE n == a + 1
  <2>1. n \in Nat /\ z = n % m /\ j + n = j + a + 1
    BY <1>1, <1>3
  <2> HIDE DEF n
  <2>2. (j + (n % m)) % m = (j + n) % m /\ n % m \in 0 .. m - 1
    BY <2>1, <1>1, ModSum, ModParts
  <2> QED BY <2>1, <2>2, <1>1
<1>9. (a + 1) % m = (w + e + 1) % m
  <2> DEFINE n == w + e
  <2>1. n \in Nat /\ a = n % m
    BY <1>1, <1>5
  <2> HIDE DEF n
  <2>2. (a + 1) % m = (n + 1) % m
    BY <2>1, <1>1, ModNext
  <2> QED BY <2>2 DEF n
<1>10. a + j + 1 = j + a + 1 /\ j + z = z + j /\ w + e + 1 = (w + 1) + e
  BY <1>1, <1>5, <1>8
<1>11. metrics'["requests"] = (metrics'["accepted"] + metrics'["rejected"]) % m
  BY <1>3, <1>7, <1>8, <1>10 DEF z
<1>12. metrics'["accepted"] = ((w + 1) + e) % m
  BY <1>3, <1>9, <1>10 DEF z
<1> QED BY <1>6, <1>11, <1>12 DEF MetricsBalance, m

\* Whoever stops waiting or running is counted as one of the four ends.
LEMMA EndBalances ==
    ASSUME TypeOK, MetricsBalance, NEW o \in Ends, Count({o}),
           Len(waiters') \in Nat, inFlight' \in Nat,
           Len(waiters') + inFlight' = Len(waiters) + inFlight - 1
    PROVE  MetricsBalance'
<1> DEFINE m == Modulus
           a == metrics["accepted"]
           w == Len(waiters') + inFlight'
           x == metrics[o]
           z == metrics'[o]
           rest == EndedIn(metrics) - x
<1>1. m \in Nat \ {0} /\ w \in Nat /\ x \in Nat
  BY LimiterAssumption DEF TypeOK, Counters, Ends
<1>2. metrics \in [Counters -> Nat] /\ metrics' \in [Counters -> Nat]
  BY Counted, LimiterAssumption DEF TypeOK
<1>3. /\ z = (x + 1) % m
      /\ \A f \in Counters \ {o} : metrics'[f] = metrics[f]
  BY Counted DEF Counters, Ends
<1>4. rest \in Nat /\ EndedIn(metrics') = rest + z
  BY <1>2, <1>3, EndedNext DEF Counters, Ends
<1>5. a = (Len(waiters) + inFlight + EndedIn(metrics)) % m
  <2>1. Len(waiters) \in Nat /\ inFlight \in Nat
    BY LenProperties DEF TypeOK
  <2> QED BY <2>1, <1>2, BalanceTerms DEF MetricsBalance
<1>6. Len(waiters) + inFlight + EndedIn(metrics) = w + rest + x + 1
  <2> DEFINE v == Len(waiters) + inFlight
             s == EndedIn(metrics)
  <2>1. v \in Nat /\ s \in Nat /\ w = v - 1
    BY <1>2, LenProperties, BalanceTerms DEF TypeOK
  <2> HIDE DEF v, s, w, x
  <2>2. v + s = w + (s - x) + x + 1
    BY <2>1, <1>1
  <2> QED BY <2>2 DEF v, s
<1>7. Len(waiters') + inFlight' + metrics'["completed"] + metrics'["failed"]
      + metrics'["timed_out"] + metrics'["cancelled"] = w + (rest + z)
  <2>1. Len(waiters') + inFlight' + metrics'["completed"] + metrics'["failed"]
        + metrics'["timed_out"] + metrics'["cancelled"]
            = (Len(waiters') + inFlight') + EndedIn(metrics')
    BY <1>2, BalanceTerms
  <2> QED BY <2>1, <1>4
<1>8. /\ metrics'["requests"] = (metrics'["accepted"] + metrics'["rejected"]) % m
      /\ metrics'["accepted"] = a
  BY <1>3 DEF MetricsBalance, Counters, Ends
<1> HIDE DEF m, a, w, x, z, rest
<1>9. ((w + rest) + z) % m = ((w + rest) + x + 1) % m /\ z \in Nat
  <2> DEFINE n == w + rest
  <2>1. n \in Nat
    BY <1>1, <1>4
  <2> HIDE DEF n
  <2> DEFINE y == x + 1
  <2>2. y \in Nat /\ z = y % m /\ n + y = n + x + 1
    BY <2>1, <1>1, <1>3
  <2> HIDE DEF y
  <2>3. (n + (y % m)) % m = (n + y) % m /\ y % m \in 0 .. m - 1
    BY <2>1, <2>2, <1>1, ModSum, ModParts
  <2> QED BY <2>2, <2>3, <1>1 DEF n
<1>10. (w + rest) + z = w + (rest + z) /\ (w + rest) + x + 1 = w + rest + x + 1
  BY <1>1, <1>4, <1>9
<1>11. metrics'["accepted"] = (w + (rest + z)) % m
  BY <1>5, <1>6, <1>8, <1>9, <1>10
<1> QED BY <1>7, <1>8, <1>11 DEF MetricsBalance, m

-----------------------------------------------------------------------------
(* Who waits and who runs                                                   *)

\* The invariant of the counts alone.
Populated ==
    /\ inFlight = Cardinality(Calling)
    /\ ToSet(waiters) = Queued
    /\ Len(waiters) = Cardinality(Queued)

LEMMA FinitePopulation ==
    IsFiniteSet(Calling) /\ IsFiniteSet(Queued)
<1>1. Calling \in SUBSET Requests /\ Queued \in SUBSET Requests
  BY DEF Calling, Queued
<1> QED BY <1>1, FS_Subset, LimiterAssumption

\* What one task's change of place does to the two sets.
LEMMA Moved ==
    ASSUME TypeOK, NEW p \in Requests,
           NEW s \in {"idle", "queued", "calling"},
           call' = [call EXCEPT ![p] = s]
    PROVE  /\ call' \in [Requests -> {"idle", "queued", "calling"}]
           /\ Calling' = IF s = "calling" THEN Calling \cup {p} ELSE Calling \ {p}
           /\ Queued' = IF s = "queued" THEN Queued \cup {p} ELSE Queued \ {p}
<1>1. call \in [Requests -> {"idle", "queued", "calling"}]
  BY DEF TypeOK
<1>2. \A q \in Requests : call'[q] = IF q = p THEN s ELSE call[q]
  BY <1>1
<1> QED BY <1>1, <1>2 DEF Calling, Queued

\* A waiting task stands in the queue, at its position.
LEMMA PositionOf ==
    ASSUME TypeOK, Populated, NEW p \in Queued
    PROVE  Position(p) \in 1 .. Len(waiters) /\ waiters[Position(p)] = p
<1>1. p \in ToSet(waiters) /\ DOMAIN waiters = 1 .. Len(waiters)
  BY LenProperties DEF Populated, TypeOK
<1>2. PICK i \in DOMAIN waiters : waiters[i] = p
  BY <1>1 DEF ToSet
<1> QED BY <1>1, <1>2 DEF Position

\* A place of the queue is given up.
LEMMA PlaceGivenUp ==
    ASSUME TypeOK, Populated, NoTwice(waiters), NEW p \in Queued,
           waiters' = RemoveAt(waiters, Position(p)),
           Queued' = Queued \ {p}
    PROVE  /\ waiters' \in Seq(Requests)
           /\ NoTwice(waiters')
           /\ ToSet(waiters') = Queued'
           /\ Len(waiters') = Cardinality(Queued')
           /\ Len(waiters') = Len(waiters) - 1
           /\ Len(waiters') \in Nat
<1>1. Position(p) \in 1 .. Len(waiters) /\ waiters[Position(p)] = p
  BY PositionOf
<1>2. waiters \in Seq(Requests)
  BY DEF TypeOK
<1>3. /\ waiters' \in Seq(Requests)
      /\ Len(waiters') = Len(waiters) - 1
      /\ \A j \in 1 .. Len(waiters) - 1 : waiters'[j] =
            IF j < Position(p) THEN waiters[j] ELSE waiters[j + 1]
  BY <1>1, <1>2, RemovedAt
<1>4. NoTwice(waiters') /\ ToSet(waiters') = ToSet(waiters) \ {p}
  <2> DEFINE i == Position(p)
  <2>1. i \in 1 .. Len(waiters) /\ waiters[i] = p /\ waiters' = RemoveAt(waiters, i)
    BY <1>1
  <2> HIDE DEF i
  <2>2. /\ NoTwice(RemoveAt(waiters, i))
        /\ ToSet(RemoveAt(waiters, i)) = ToSet(waiters) \ {waiters[i]}
    BY <2>1, <1>2, QueueShrinks
  <2> QED BY <2>1, <2>2
<1>5. Cardinality(Queued') = Cardinality(Queued) - 1
  BY FinitePopulation, FS_RemoveElement
<1> QED BY <1>3, <1>4, <1>5, LenProperties DEF Populated

\* The head of the queue is its first position.
LEMMA HeadIsFirst ==
    ASSUME TypeOK, Populated, NEW p \in Queued, Head(waiters) = p, NoTwice(waiters)
    PROVE  Position(p) = 1 /\ Tail(waiters) = RemoveAt(waiters, 1)
<1>1. waiters \in Seq(Requests) /\ Len(waiters) \in Nat
  BY LenProperties DEF TypeOK
<1>2. Position(p) \in 1 .. Len(waiters) /\ waiters[Position(p)] = p
  BY PositionOf
<1>3. waiters[1] = p /\ 1 \in 1 .. Len(waiters)
  BY <1>1, <1>2
<1>4. Position(p) = 1
  BY <1>2, <1>3 DEF NoTwice
<1>5. Tail(waiters) = RemoveAt(waiters, 1)
  <2>1. /\ RemoveAt(waiters, 1) \in Seq(Requests)
        /\ Len(RemoveAt(waiters, 1)) = Len(waiters) - 1
        /\ \A j \in 1 .. Len(waiters) - 1 :
              RemoveAt(waiters, 1)[j] = IF j < 1 THEN waiters[j] ELSE waiters[j + 1]
    BY <1>1, <1>3, RemovedAt
  <2>2. /\ Tail(waiters) \in Seq(Requests)
        /\ Len(Tail(waiters)) = Len(waiters) - 1
        /\ \A j \in 1 .. Len(waiters) - 1 : Tail(waiters)[j] = waiters[j + 1]
    BY <1>1, <1>3, HeadTailProperties
  <2>3. \A j \in 1 .. Len(waiters) - 1 : RemoveAt(waiters, 1)[j] = Tail(waiters)[j]
    BY <2>1, <2>2
  <2> QED BY <2>1, <2>2, <2>3, SeqEqual
<1> QED BY <1>4, <1>5

-----------------------------------------------------------------------------
(* The actions                                                              *)

\* What the closing of the upstream client demands.
QuietWhenClosing ==
    upstreamClosed \/ (\E c \in Closers : closing[c] = "closing")
        => Calling = {} /\ Queued = {}

WithinLimits ==
    Enabled => inFlight <= MaxConcurrency /\ Len(waiters) <= MaxQueue

\* While the door is open nobody closes the upstream client.
LEMMA OpenMeansNotClosing ==
    ASSUME ClosingIsClosed, ~closed
    PROVE  ~upstreamClosed /\ \A c \in Closers : closing[c] \notin {"draining", "closing"}
BY DEF ClosingIsClosed

\* A refused request changes nothing but the counters.
LEMMA RefusalSafe ==
    ASSUME LimiterInv, NEW p \in Requests, RejectClosed(p) \/ RejectOverloaded(p)
    PROVE  LimiterInv'
<1>1. /\ Count({"requests", "rejected"})
      /\ UNCHANGED <<call, waiters, inFlight, closeVars, woken>>
  BY DEF RejectClosed, RejectOverloaded
<1>2. MetricsBalance'
  BY <1>1, RefusalBalances DEF LimiterInv, PermitsAreConserved
<1>3. TypeOK'
  BY <1>1, Counted DEF LimiterInv, TypeOK, closeVars
<1>4. UNCHANGED <<Calling, Queued>>
  BY <1>1 DEF Calling, Queued
<1> QED BY <1>1, <1>2, <1>3, <1>4
        DEF LimiterInv, PermitsAreConserved, ClosingIsClosed, closeVars, NoTwice

\* A free permit, an empty queue and an open door.
LEMMA StartAtOnceSafe ==
    ASSUME LimiterInv, NEW p \in Requests, StartAtOnce(p)
    PROVE  LimiterInv'
<1>1. /\ call[p] = "idle" /\ ~closed
      /\ Enabled => inFlight < MaxConcurrency
      /\ call' = [call EXCEPT ![p] = "calling"]
      /\ inFlight' = inFlight + 1
      /\ Count({"requests", "accepted"})
      /\ UNCHANGED <<waiters, closeVars, woken>>
  BY DEF StartAtOnce
<1>2. TypeOK /\ Populated /\ MetricsBalance /\ ClosingIsClosed
  BY DEF LimiterInv, PermitsAreConserved, Populated
<1>3. /\ call' \in [Requests -> {"idle", "queued", "calling"}]
      /\ Calling' = Calling \cup {p} /\ Queued' = Queued \ {p}
  BY <1>1, <1>2, Moved
<1>4. p \notin Calling /\ p \notin Queued
  BY <1>1 DEF Calling, Queued
<1>5. Queued' = Queued /\ Cardinality(Calling') = Cardinality(Calling) + 1
  BY <1>3, <1>4, FinitePopulation, FS_AddElement
<1>6. Len(waiters') \in Nat /\ inFlight' \in Nat /\ Len(waiters) \in Nat /\ inFlight \in Nat
  BY <1>1, <1>2, LenProperties DEF TypeOK
<1>7. MetricsBalance'
  <2>1. Len(waiters') + inFlight' = Len(waiters) + inFlight + 1
    BY <1>1, <1>6
  <2> QED BY <2>1, <1>1, <1>2, <1>6, AdmissionBalances
<1>8. TypeOK'
  BY <1>1, <1>2, <1>3, <1>6, Counted DEF TypeOK, closeVars
<1>9. ClosingIsClosed' /\ QuietWhenClosing'
  BY <1>1, <1>2, OpenMeansNotClosing DEF ClosingIsClosed, QuietWhenClosing, closeVars
<1>10. WithinLimits'
  BY <1>1, <1>6, LimiterAssumption DEF LimiterInv, PermitsAreConserved, WithinLimits
<1>11. Populated'
  BY <1>1, <1>2, <1>5 DEF Populated
<1>12. NoTwice(waiters') /\ (~Enabled => waiters' = <<>>)
  BY <1>1 DEF LimiterInv, NoTwice
<1> QED BY <1>7, <1>8, <1>9, <1>10, <1>11, <1>12
        DEF LimiterInv, PermitsAreConserved, Populated, QuietWhenClosing, WithinLimits

\* A request takes the last place of the queue.
LEMMA EnqueueSafe ==
    ASSUME LimiterInv, NEW p \in Requests, Enqueue(p)
    PROVE  LimiterInv'
<1>1. /\ call[p] = "idle" /\ ~closed /\ Enabled
      /\ Len(waiters) < MaxQueue
      /\ waiters' = Append(waiters, p)
      /\ call' = [call EXCEPT ![p] = "queued"]
      /\ Count({"requests", "accepted"})
      /\ UNCHANGED <<inFlight, closeVars, woken>>
  BY DEF Enqueue, MustWait
<1>2. TypeOK /\ Populated /\ MetricsBalance /\ ClosingIsClosed /\ NoTwice(waiters)
  BY DEF LimiterInv, PermitsAreConserved, Populated
<1>3. /\ call' \in [Requests -> {"idle", "queued", "calling"}]
      /\ Calling' = Calling \ {p} /\ Queued' = Queued \cup {p}
  BY <1>1, <1>2, Moved
<1>4. p \notin Calling /\ p \notin Queued
  BY <1>1 DEF Calling, Queued
<1>5. Calling' = Calling /\ Cardinality(Queued') = Cardinality(Queued) + 1
  BY <1>3, <1>4, FinitePopulation, FS_AddElement
<1>6. /\ waiters' \in Seq(Requests) /\ Len(waiters') = Len(waiters) + 1
      /\ NoTwice(waiters') /\ ToSet(waiters') = ToSet(waiters) \cup {p}
  BY <1>1, <1>2, <1>4, QueueGrows DEF TypeOK, Populated
<1>7. Len(waiters') \in Nat /\ inFlight' \in Nat /\ Len(waiters) \in Nat /\ inFlight \in Nat
  BY <1>1, <1>2, <1>6, LenProperties DEF TypeOK
<1>8. MetricsBalance'
  <2>1. Len(waiters') + inFlight' = Len(waiters) + inFlight + 1
    BY <1>1, <1>6, <1>7
  <2> QED BY <2>1, <1>1, <1>2, <1>7, AdmissionBalances
<1>9. TypeOK'
  BY <1>1, <1>2, <1>3, <1>6, Counted DEF TypeOK, closeVars
<1>10. ClosingIsClosed' /\ QuietWhenClosing'
  BY <1>1, <1>2, OpenMeansNotClosing DEF ClosingIsClosed, QuietWhenClosing, closeVars
<1>11. WithinLimits'
  BY <1>1, <1>6, <1>7, LimiterAssumption DEF LimiterInv, PermitsAreConserved, WithinLimits
<1>12. Populated'
  BY <1>1, <1>2, <1>3, <1>5, <1>6 DEF Populated
<1> QED BY <1>1, <1>6, <1>8, <1>9, <1>10, <1>11, <1>12
        DEF LimiterInv, PermitsAreConserved, Populated, QuietWhenClosing, WithinLimits

\* The first of the queue takes a free permit.
LEMMA StartWaiterSafe ==
    ASSUME LimiterInv, NEW p \in Requests, StartWaiter(p)
    PROVE  LimiterInv'
<1>1. /\ call[p] = "queued" /\ ~closed /\ Head(waiters) = p
      /\ inFlight < MaxConcurrency
      /\ waiters' = Tail(waiters)
      /\ call' = [call EXCEPT ![p] = "calling"]
      /\ inFlight' = inFlight + 1
      /\ NotifyAll
      /\ UNCHANGED <<closeVars, metrics>>
  BY DEF StartWaiter, MayStart
<1>2. TypeOK /\ Populated /\ MetricsBalance /\ ClosingIsClosed /\ NoTwice(waiters)
  BY DEF LimiterInv, PermitsAreConserved, Populated
<1>3. /\ call' \in [Requests -> {"idle", "queued", "calling"}]
      /\ Calling' = Calling \cup {p} /\ Queued' = Queued \ {p}
  BY <1>1, <1>2, Moved
<1>4. p \in Queued /\ p \notin Calling
  BY <1>1 DEF Queued, Calling
<1>5. Cardinality(Calling') = Cardinality(Calling) + 1
  BY <1>3, <1>4, FinitePopulation, FS_AddElement
<1>6. waiters' = RemoveAt(waiters, Position(p))
  BY <1>1, <1>2, <1>4, HeadIsFirst
<1>7. /\ waiters' \in Seq(Requests) /\ NoTwice(waiters')
      /\ ToSet(waiters') = Queued' /\ Len(waiters') = Cardinality(Queued')
      /\ Len(waiters') = Len(waiters) - 1 /\ Len(waiters') \in Nat
  BY <1>2, <1>3, <1>4, <1>6, PlaceGivenUp
<1>8. inFlight \in Nat /\ Len(waiters) \in Nat
  BY <1>2, LenProperties DEF TypeOK
<1>9. MetricsBalance'
  <2>1. Len(waiters') + inFlight' = Len(waiters) + inFlight
    BY <1>1, <1>7, <1>8
  <2>2. /\ metrics' = metrics /\ metrics \in [Counters -> Nat]
        /\ inFlight' \in Nat
    BY <1>1, <1>2, <1>8, LimiterAssumption DEF TypeOK
  <2>3. /\ Len(waiters) + inFlight + metrics["completed"] + metrics["failed"]
           + metrics["timed_out"] + metrics["cancelled"]
              = (Len(waiters) + inFlight) + EndedIn(metrics)
        /\ Len(waiters') + inFlight' + metrics["completed"] + metrics["failed"]
           + metrics["timed_out"] + metrics["cancelled"]
              = (Len(waiters') + inFlight') + EndedIn(metrics)
    BY <1>7, <1>8, <2>2, BalanceTerms
  <2> QED BY <1>2, <2>1, <2>2, <2>3 DEF MetricsBalance
<1>10. TypeOK'
  <2>1. woken' \subseteq Requests \cup Closers
    BY <1>1 DEF NotifyAll
  <2> QED BY <2>1, <1>1, <1>2, <1>3, <1>7, <1>8 DEF TypeOK, closeVars
<1>11. ClosingIsClosed' /\ QuietWhenClosing'
  BY <1>1, <1>2, OpenMeansNotClosing DEF ClosingIsClosed, QuietWhenClosing, closeVars
<1>12. WithinLimits'
  BY <1>1, <1>7, <1>8, LimiterAssumption DEF LimiterInv, PermitsAreConserved, WithinLimits
<1>13. Populated'
  BY <1>1, <1>2, <1>5, <1>7 DEF Populated
<1>14. Enabled
  <2>1. waiters # <<>>
    BY <1>7, <1>8
  <2> QED BY <2>1 DEF LimiterInv
<1> QED BY <1>7, <1>9, <1>10, <1>11, <1>12, <1>13, <1>14
        DEF LimiterInv, PermitsAreConserved, Populated, QuietWhenClosing, WithinLimits

\* A task leaves the queue without a permit, wherever it stands in it.
LEMMA LeaveSafe ==
    ASSUME LimiterInv, NEW p \in Requests, NEW o \in Ends, Leave(p, o)
    PROVE  LimiterInv'
<1>1. /\ call[p] = "queued"
      /\ waiters' = RemoveAt(waiters, Position(p))
      /\ call' = [call EXCEPT ![p] = "idle"]
      /\ Count({o})
      /\ NotifyAll
      /\ UNCHANGED <<inFlight, closeVars>>
  BY DEF Leave
<1>2. TypeOK /\ Populated /\ MetricsBalance /\ ClosingIsClosed /\ NoTwice(waiters)
  BY DEF LimiterInv, PermitsAreConserved, Populated
<1>3. /\ call' \in [Requests -> {"idle", "queued", "calling"}]
      /\ Calling' = Calling \ {p} /\ Queued' = Queued \ {p}
  BY <1>1, <1>2, Moved
<1>4. p \in Queued /\ Calling' = Calling
  BY <1>1, <1>3 DEF Queued, Calling
<1>5. /\ waiters' \in Seq(Requests) /\ NoTwice(waiters')
      /\ ToSet(waiters') = Queued' /\ Len(waiters') = Cardinality(Queued')
      /\ Len(waiters') = Len(waiters) - 1 /\ Len(waiters') \in Nat
  BY <1>1, <1>2, <1>3, <1>4, PlaceGivenUp
<1>6. inFlight \in Nat /\ Len(waiters) \in Nat
  BY <1>2, LenProperties DEF TypeOK
<1>7. MetricsBalance'
  <2>1. Len(waiters') + inFlight' = Len(waiters) + inFlight - 1 /\ inFlight' \in Nat
    BY <1>1, <1>5, <1>6
  <2> QED BY <2>1, <1>1, <1>2, <1>5, EndBalances
<1>8. TypeOK'
  <2>1. woken' \subseteq Requests \cup Closers
    BY <1>1 DEF NotifyAll
  <2> QED BY <2>1, <1>1, <1>2, <1>3, <1>5, Counted DEF TypeOK, closeVars
<1>9. ClosingIsClosed' /\ QuietWhenClosing'
  BY <1>1, <1>3, <1>4
     DEF LimiterInv, PermitsAreConserved, ClosingIsClosed, QuietWhenClosing, closeVars
<1>10. WithinLimits'
  BY <1>1, <1>5, <1>6, LimiterAssumption DEF LimiterInv, PermitsAreConserved, WithinLimits
<1>11. Populated'
  BY <1>1, <1>2, <1>4, <1>5 DEF Populated
<1>12. Enabled
  <2>1. waiters # <<>>
    BY <1>5, <1>6
  <2> QED BY <2>1 DEF LimiterInv
<1> QED BY <1>5, <1>7, <1>8, <1>9, <1>10, <1>11, <1>12
        DEF LimiterInv, PermitsAreConserved, Populated, QuietWhenClosing, WithinLimits

\* A call ends, however it ends, and gives its permit back.
LEMMA ReturnSafe ==
    ASSUME LimiterInv, NEW p \in Requests, NEW o \in Ends, Return(p, o)
    PROVE  LimiterInv'
<1>1. /\ call[p] = "calling"
      /\ call' = [call EXCEPT ![p] = "idle"]
      /\ inFlight' = inFlight - 1
      /\ Count({o})
      /\ NotifyAll
      /\ UNCHANGED <<waiters, closeVars>>
  BY DEF Return
<1>2. TypeOK /\ Populated /\ MetricsBalance /\ ClosingIsClosed /\ NoTwice(waiters)
  BY DEF LimiterInv, PermitsAreConserved, Populated
<1>3. /\ call' \in [Requests -> {"idle", "queued", "calling"}]
      /\ Calling' = Calling \ {p} /\ Queued' = Queued \ {p}
  BY <1>1, <1>2, Moved
<1>4. p \in Calling /\ Queued' = Queued
  BY <1>1, <1>3 DEF Queued, Calling
<1>5. /\ Cardinality(Calling') = Cardinality(Calling) - 1
      /\ Cardinality(Calling') \in Nat
  BY <1>3, <1>4, FinitePopulation, FS_RemoveElement, FS_CardinalityType
<1>6. inFlight \in Nat /\ Len(waiters) \in Nat /\ inFlight' \in Nat
  BY <1>1, <1>2, <1>5, LenProperties DEF TypeOK, Populated
<1>7. MetricsBalance'
  <2>1. Len(waiters') + inFlight' = Len(waiters) + inFlight - 1 /\ Len(waiters') \in Nat
    BY <1>1, <1>6
  <2> QED BY <2>1, <1>1, <1>2, <1>6, EndBalances
<1>8. TypeOK'
  <2>1. woken' \subseteq Requests \cup Closers
    BY <1>1 DEF NotifyAll
  <2> QED BY <2>1, <1>1, <1>2, <1>3, <1>6, Counted DEF TypeOK, closeVars
<1>9. ClosingIsClosed' /\ QuietWhenClosing'
  BY <1>1, <1>3, <1>4
     DEF LimiterInv, PermitsAreConserved, ClosingIsClosed, QuietWhenClosing, closeVars
<1>10. WithinLimits'
  BY <1>1, <1>6, LimiterAssumption DEF LimiterInv, PermitsAreConserved, WithinLimits
<1>11. Populated'
  BY <1>1, <1>2, <1>4, <1>5 DEF Populated
<1>12. NoTwice(waiters') /\ (~Enabled => waiters' = <<>>)
  BY <1>1 DEF LimiterInv, NoTwice
<1> QED BY <1>7, <1>8, <1>9, <1>10, <1>11, <1>12
        DEF LimiterInv, PermitsAreConserved, Populated, QuietWhenClosing, WithinLimits

\* Nothing waits and nothing runs when a close finds the limiter drained.
LEMMA DrainedMeansQuiet ==
    ASSUME Populated, Drained
    PROVE  Calling = {} /\ Queued = {}
<1>1. Calling = {}
  BY FinitePopulation, FS_EmptySet DEF Drained, Populated
<1>2. Queued = {}
  BY DEF Drained, Populated, ToSet
<1> QED BY <1>1, <1>2

\* What belongs to the closes and to the wake-ups.
CloseSide ==
    /\ closing \in [Closers -> {"idle", "locking", "draining", "closing"}]
    /\ closed \in BOOLEAN
    /\ upstreamClosed \in BOOLEAN
    /\ woken \subseteq Requests \cup Closers
    /\ ClosingIsClosed
    /\ QuietWhenClosing

\* A step of a close, or a task that goes back to sleep: no request moves.
LEMMA OthersSafe ==
    ASSUME LimiterInv,
           \/ \E p \in Requests : WaitOn(p)
           \/ \E c \in Closers : Close(c) \/ CloserRuns(c) \/ CloseFails(c)
    PROVE  LimiterInv'
<1>1. UNCHANGED <<call, waiters, inFlight, metrics>>
  BY DEF WaitOn, Close, CloserRuns, CloseAgain, CloseBegin, CloserWakes,
         UpstreamCloses, CloseFails, closeVars
<1>2. Populated /\ CloseSide
  BY DEF LimiterInv, TypeOK, PermitsAreConserved, Populated, CloseSide, QuietWhenClosing
<1>3. UNCHANGED <<Calling, Queued>>
  BY <1>1 DEF Calling, Queued
<1>4. CloseSide'
  <2> USE DEF CloseSide, ClosingIsClosed, QuietWhenClosing
  <2>1. ASSUME NEW p \in Requests, WaitOn(p) PROVE CloseSide'
    BY <1>2, <1>3, <2>1 DEF WaitOn, closeVars
  <2>2. ASSUME NEW c \in Closers, Close(c) PROVE CloseSide'
    BY <1>2, <1>3, <2>2 DEF Close
  <2>3. ASSUME NEW c \in Closers, CloseAgain(c) PROVE CloseSide'
    BY <1>2, <1>3, <2>3 DEF CloseAgain
  <2>4. ASSUME NEW c \in Closers, CloseBegin(c) PROVE CloseSide'
    <3>1. Drained => Calling = {} /\ Queued = {}
      BY <1>2, DrainedMeansQuiet
    <3>2. /\ closing' = [closing EXCEPT ![c] = IF Drained THEN "closing" ELSE "draining"]
          /\ closed' = TRUE /\ upstreamClosed' = upstreamClosed
          /\ woken' \subseteq Requests
          /\ ~upstreamClosed
      BY <2>4 DEF CloseBegin
    <3>3. \A d \in Closers : closing'[d] = "closing" => Drained \/ closing[d] = "closing"
      BY <1>2, <3>2
    <3> QED BY <1>2, <1>3, <3>1, <3>2, <3>3
  <2>5. ASSUME NEW c \in Closers, CloserWakes(c) PROVE CloseSide'
    <3>1. Drained => Calling = {} /\ Queued = {}
      BY <1>2, DrainedMeansQuiet
    <3>2. /\ closing[c] = "draining"
          /\ closing' = IF Drained THEN [closing EXCEPT ![c] = "closing"] ELSE closing
          /\ UNCHANGED <<closed, upstreamClosed>>
          /\ woken' \subseteq woken
      BY <2>5 DEF CloserWakes
    <3>3. \A d \in Closers : closing'[d] = "closing" => Drained \/ closing[d] = "closing"
      BY <1>2, <3>2
    <3>4. closed
      BY <1>2, <3>2
    <3> QED BY <1>2, <1>3, <3>1, <3>2, <3>3, <3>4
  <2>6. ASSUME NEW c \in Closers, UpstreamCloses(c) PROVE CloseSide'
    BY <1>2, <1>3, <2>6 DEF UpstreamCloses
  <2>7. ASSUME NEW c \in Closers, CloseFails(c) PROVE CloseSide'
    BY <1>2, <1>3, <2>7 DEF CloseFails
  <2> QED BY <2>1, <2>2, <2>3, <2>4, <2>5, <2>6, <2>7 DEF CloserRuns
<1> QED BY <1>1, <1>3, <1>4
        DEF LimiterInv, TypeOK, PermitsAreConserved, MetricsBalance, NoTwice,
            CloseSide, QuietWhenClosing

-----------------------------------------------------------------------------
(* The theorems                                                             *)

LEMMA LimiterInvInit ==
    ASSUME Init
    PROVE  LimiterInv
<1>1. Calling = {} /\ Queued = {}
  BY DEF Init, Calling, Queued
<1>2. TypeOK
  <2>1. <<>> \in Seq(Requests)
    OBVIOUS
  <2>2. 0 \in 0 .. Modulus - 1
    BY LimiterAssumption
  <2> QED BY <2>1, <2>2 DEF Init, TypeOK
<1>3. MetricsBalance
  <2>1. \A f \in Counters : metrics[f] = 0
    BY DEF Init
  <2>2. 0 = 0 % Modulus
    <3>1. 0 * Modulus + 0 = 0 /\ 0 \in 0 .. Modulus - 1
      BY LimiterAssumption
    <3> QED BY <3>1, ModUnique, LimiterAssumption
  <2> QED BY <2>1, <2>2 DEF Init, MetricsBalance, Counters
<1>4. ToSet(waiters) = {} /\ Len(waiters) = 0
  BY DEF Init, ToSet
<1>5. WithinLimits
  BY <1>4, LimiterAssumption DEF Init, WithinLimits
<1> QED BY <1>1, <1>2, <1>3, <1>4, <1>5, FS_EmptySet
        DEF Init, LimiterInv, NoTwice, ClosingIsClosed, PermitsAreConserved, WithinLimits

LEMMA LimiterInvStep ==
    ASSUME LimiterInv, [Next]_limiter
    PROVE  LimiterInv'
<1>1. CASE UNCHANGED limiter
  <2>1. UNCHANGED <<call, waiters, inFlight, closing, closed, upstreamClosed, woken, metrics>>
    BY <1>1 DEF limiter
  <2>2. UNCHANGED <<Calling, Queued>>
    BY <2>1 DEF Calling, Queued
  <2> QED BY <2>1, <2>2
          DEF LimiterInv, TypeOK, NoTwice, ClosingIsClosed, PermitsAreConserved, MetricsBalance
<1>2. ASSUME NEW p \in Requests,
             RejectClosed(p) \/ StartAtOnce(p) \/ RejectOverloaded(p) \/ Enqueue(p)
      PROVE  LimiterInv'
  BY <1>2, RefusalSafe, StartAtOnceSafe, EnqueueSafe
<1>3. ASSUME NEW p \in Requests, Wake(p) \/ TimeOut(p) \/ CancelQueued(p)
      PROVE  LimiterInv'
  <2>1. "timed_out" \in Ends /\ "cancelled" \in Ends
    BY DEF Ends
  <2> QED BY <1>3, <2>1, StartWaiterSafe, LeaveSafe, OthersSafe
          DEF Wake, LeaveClosed, TimeOut, CancelQueued
<1>4. ASSUME NEW p \in Requests, Finish(p)
      PROVE  LimiterInv'
  BY <1>4, ReturnSafe DEF Finish, Ends
<1>5. ASSUME NEW c \in Closers, Close(c) \/ CloserRuns(c) \/ CloseFails(c)
      PROVE  LimiterInv'
  BY <1>5, OthersSafe
<1> QED BY <1>1, <1>2, <1>3, <1>4, <1>5 DEF Next

\* The limiter's invariant holds in every run of it.
THEOREM LimiterInvAlways == Spec => []LimiterInv
<1>1. Init => LimiterInv
  BY LimiterInvInit
<1>2. LimiterInv /\ [Next]_limiter => LimiterInv'
  BY LimiterInvStep
<1> QED BY <1>1, <1>2, PTL DEF Spec

\* For any number of requests, permits and queue places and any number of closes: no
\* permit is lost or given back twice, the queue holds every waiting task once, the
\* counters of status balance, and no call runs once the upstream client is being
\* closed.
THEOREM PermitsAlwaysConserved == Spec => []PermitsAreConserved
<1>1. LimiterInv => PermitsAreConserved
  BY DEF LimiterInv
<1> QED BY <1>1, LimiterInvAlways, PTL

\* A call that starts was the first of the queue, or the queue was empty.
LEMMA StartsInTurn ==
    ASSUME LimiterInv, [Next]_limiter, NEW p \in Requests, NEW q \in Queued,
           Starts(p), q # p
    PROVE  ~Behind(p, q)
<1>1. TypeOK /\ Populated /\ NoTwice(waiters) /\ (~Enabled => waiters = <<>>)
  BY DEF LimiterInv, PermitsAreConserved, Populated
<1>2. PICK r \in Requests : StartAtOnce(r) \/ StartWaiter(r)
  <2>1. call \in [Requests -> {"idle", "queued", "calling"}]
    BY <1>1 DEF TypeOK
  <2>2. ASSUME NEW r \in Requests, NEW s \in {"idle", "queued"},
               call' = [call EXCEPT ![r] = s]
        PROVE  FALSE
    BY <2>1, <2>2 DEF Starts
  <2>3. call' # call
    BY DEF Starts
  <2>4. ASSUME NEW r \in Requests PROVE ~Enqueue(r) /\ ~Leave(r, "cancelled")
                /\ ~Leave(r, "timed_out") /\ ~Finish(r)
    BY <2>2 DEF Enqueue, Leave, Finish, Return
  <2> QED BY <2>3, <2>4
          DEF Next, limiter, RejectClosed, RejectOverloaded, Wake, WaitOn, LeaveClosed,
              TimeOut, CancelQueued, Close, CloserRuns, CloseAgain, CloseBegin,
              CloserWakes, UpstreamCloses, CloseFails
<1>3. r = p
  BY <1>1, <1>2 DEF Starts, StartAtOnce, StartWaiter, TypeOK
<1>4. CASE StartAtOnce(p)
  <2>1. waiters = <<>>
    BY <1>1, <1>4 DEF StartAtOnce
  <2>2. Queued = {}
    BY <1>1, <2>1 DEF Populated, ToSet
  <2> QED BY <2>2
<1>5. CASE StartWaiter(p)
  <2>1. p \in Queued /\ Head(waiters) = p
    BY <1>5 DEF StartWaiter, MayStart, Queued
  <2>2. Position(p) = 1
    BY <1>1, <2>1, HeadIsFirst
  <2>3. Position(q) \in 1 .. Len(waiters)
    BY <1>1, PositionOf
  <2> QED BY <2>1, <2>2, <2>3 DEF Behind
<1> QED BY <1>2, <1>3, <1>4, <1>5

\* First come, first served.
THEOREM NobodyOvertakes == Spec => NoOvertaking
<1>1. LimiterInv /\ [Next]_limiter
        => [\A p, q \in Requests :
               Starts(p) /\ q \in Queued /\ q # p => ~Behind(p, q)]_limiter
  BY StartsInTurn
<1> QED BY <1>1, LimiterInvAlways, PTL DEF Spec, NoOvertaking
=============================================================================
