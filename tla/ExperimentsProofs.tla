---- MODULE ExperimentsProofs ----
(***************************************************************************)
(* Proofs about the requests of one conversation: the approval route a      *)
(* message gets, the draft that is generated from it, and its revisions.    *)
(* The numbers are those of every message, not of the few a run asks.       *)
(*                                                                         *)
(* Every route lists its approvers in the order of one ranking, so that a   *)
(* route follows its policy when its people are those the policy asks for.  *)
(* A draft is always what some text says; a revision reads a text that      *)
(* starts with the merged fields of the draft.                              *)
(*                                                                         *)
(* Answers about policies are proved of any corpus whose chunks have an id  *)
(* each: a ranking lists every chunk once and in the order of the scores,   *)
(* which are totals over finite sets, and what is cited was ranked among    *)
(* the chunks the asker could see.                                          *)
(***************************************************************************)
EXTENDS AgentRequests, RetrievalEvaluation, SemanticContract, FacetSets,
        FiniteSetTheorems, SequenceTheorems, TLAPS

-----------------------------------------------------------------------------
(* Numbers and sequences                                                    *)

\* A nonempty set of naturals has a least element: Min chooses it.
LEMMA MinOfNaturals ==
    ASSUME NEW S \in SUBSET Nat, S # {}
    PROVE  Min(S) \in S /\ \A y \in S : Min(S) <= y
<1> DEFINE Below(x) == {y \in S : y < x}
           R == StrictSubsetOrdering(Nat)
           T == {Below(x) : x \in S}
<1>1. IsWellFoundedOn(R, FiniteSubsetsOf(Nat))
  BY FS_StrictSubsetOrderingWellFounded
<1>2. T \subseteq FiniteSubsetsOf(Nat)
  <2>1. ASSUME NEW x \in S PROVE Below(x) \in FiniteSubsetsOf(Nat)
    <3>0. x \in Nat /\ \A y \in Below(x) : y \in Nat /\ y < x
      OBVIOUS
    <3>1. Below(x) \in SUBSET Nat /\ x \in Nat /\ \A y \in Below(x) : y <= x
      <4> HIDE DEF Below
      <4> QED BY <3>0
    <3> HIDE DEF Below
    <3>2. IsFiniteSet(Below(x))
      BY <3>1, FS_BoundedSetOfNaturals
    <3> QED BY <3>1, <3>2 DEF FiniteSubsetsOf
  <2> HIDE DEF Below
  <2> QED BY <2>1
<1>3. T # {}
  OBVIOUS
<1>4. PICK A \in T : \A B \in T : <<B, A>> \notin R
  <2> HIDE DEF R, T
  <2> QED BY <1>1, <1>2, <1>3, WFMin
<1>5. PICK x \in S : A = Below(x)
  BY <1>4
<1>6. \A y \in S : x <= y
  <2>1. SUFFICES ASSUME NEW y \in S, y < x PROVE FALSE
    OBVIOUS
  <2>2. y \in Below(x) /\ y \notin Below(y) /\ Below(y) \in T
    BY <2>1
  <2>3. Below(y) \subseteq Below(x)
    <3>1. SUFFICES ASSUME NEW z \in S, z < y PROVE z < x
      BY DEF Below
    <3> QED BY <3>1, <2>1, z \in Nat, y \in Nat, x \in Nat
  <2>4. <<Below(y), A>> \in R
    BY <2>2, <2>3, <1>5 DEF StrictSubsetOrdering
  <2> QED BY <2>2, <2>4, <1>4
<1> QED BY <1>6 DEF Min

-----------------------------------------------------------------------------
(* What a reader finds in a text                                            *)

\* A text is a sequence of messages.
IsText(text) == \E S : text \in Seq(S) /\ \A m \in S : IsMessage(m)

\* A number, or nothing.
Number == Int \cup {None}

\* The empty message, which stands for no message found, is a message.
LEMMA NothingIsAMessage == IsMessage(NoMessage)
BY DEF IsMessage, NoMessage

\* A text is a sequence of messages, whatever set it was typed over.
LEMMA TextMessages ==
    ASSUME NEW text, IsText(text)
    PROVE  /\ text \in Seq(UNION {{text[i]} : i \in DOMAIN text}) /\ Len(text) \in Nat
           /\ DOMAIN text = 1..Len(text) /\ \A i \in DOMAIN text : IsMessage(text[i])
<1>1. PICK S : text \in Seq(S) /\ \A m \in S : IsMessage(m)
  BY DEF IsText
<1>2. Len(text) \in Nat /\ DOMAIN text = 1..Len(text) /\ \A i \in 1..Len(text) : text[i] \in S
  BY <1>1
<1>3. text \in Seq(UNION {{text[i]} : i \in DOMAIN text})
  <2>1. text \in [1..Len(text) -> UNION {{text[i]} : i \in DOMAIN text}]
    BY <1>1, <1>2
  <2> HIDE <1>1
  <2> QED BY <2>1, <1>2
<1> QED BY <1>1, <1>2, <1>3

\* The first of some messages of a text is one of them, and a message in any case.
LEMMA FirstFound ==
    ASSUME NEW text, IsText(text), NEW at \in SUBSET DOMAIN text
    PROVE  /\ IsMessage(First(text, at))
           /\ at # {} => Min(at) \in at /\ First(text, at) = text[Min(at)]
           /\ 1 \in at => First(text, at) = text[1]
<1>1. at \subseteq Nat
  BY TextMessages
<1>2. at # {} => Min(at) \in at /\ \A i \in at : Min(at) <= i
  BY <1>1, MinOfNaturals
<1>3. ASSUME 1 \in at PROVE Min(at) = 1
  <2>1. Min(at) \in at /\ Min(at) <= 1
    BY <1>2, <1>3
  <2>2. Min(at) \in 1..Len(text) /\ Len(text) \in Nat
    BY <2>1, TextMessages
  <2> QED BY <2>1, <2>2
<1>4. at = {} => First(text, at) = NoMessage
  BY DEF First
<1>5. at # {} => First(text, at) = text[Min(at)]
  BY DEF First
<1> QED BY <1>2, <1>3, <1>4, <1>5, TextMessages, NothingIsAMessage

\* What a message states is a number, or nothing.
LEMMA NumbersOfMessages ==
    ASSUME NEW m, IsMessage(m)
    PROVE  m.quantity \in Number /\ m.unit \in Number /\ m.total \in Number /\ m.days \in Number
BY DEF IsMessage, Number

\* The amount the checkers read is a number, or nothing: a product only of two numbers.
LEMMA AmountIsNumber ==
    ASSUME NEW text, IsText(text), NEW takesSeparators
    PROVE  AmountRead(text, takesSeparators) \in Number
<1> DEFINE Legible(i, number) == takesSeparators \/ number \notin text[i].grouped
           priced == {i \in DOMAIN text : QuantityRead(text[i]) /\ UnitRead(text[i]) /\ Legible(i, "unit")}
           totalled == {i \in DOMAIN text : TotalRead(text[i]) /\ Legible(i, "total")}
<1>1. AmountRead(text, takesSeparators) =
        IF First(text, priced) # NoMessage
        THEN First(text, priced).quantity * First(text, priced).unit ELSE First(text, totalled).total
  BY DEF AmountRead
<1>2. First(text, totalled).total \in Number
  BY FirstFound, NumbersOfMessages
<1>3. ASSUME First(text, priced) # NoMessage
      PROVE  First(text, priced).quantity \in Int /\ First(text, priced).unit \in Int
  <2>1. priced # {}
    BY <1>3 DEF First
  <2>2. Min(priced) \in priced /\ First(text, priced) = text[Min(priced)]
    BY <2>1, FirstFound
  <2>3. QuantityRead(First(text, priced)) /\ UnitRead(First(text, priced))
    <3>1. \A i \in priced : QuantityRead(text[i]) /\ UnitRead(text[i])
      OBVIOUS
    <3> HIDE DEF priced
    <3> QED BY <2>2, <3>1
  <2>4. First(text, priced).quantity \in Number /\ First(text, priced).unit \in Number
    BY FirstFound, NumbersOfMessages
  <2> HIDE DEF priced
  <2> QED BY <2>3, <2>4 DEF QuantityRead, UnitRead, Number
<1> HIDE DEF priced, totalled
<1> QED BY <1>1, <1>2, <1>3 DEF Number

\* A detector answers nothing exactly when none of its conditions holds.
LEMMA KindIsFound ==
    ASSUME NEW kinds, NEW n \in Nat, DOMAIN kinds = 1..n
    PROVE  \/ FirstKind(kinds) = None /\ \A k \in 1..n : ~kinds[k][2]
           \/ \E k \in 1..n : kinds[k][2] /\ FirstKind(kinds) = kinds[k][1]
                               /\ \A j \in 1..n : kinds[j][2] => k <= j
<1> DEFINE holding == {k \in DOMAIN kinds : kinds[k][2]}
<1>1. FirstKind(kinds) = IF holding = {} THEN None ELSE kinds[Min(holding)][1]
  BY DEF FirstKind
<1>2. CASE holding = {}
  BY <1>1, <1>2
<1>3. CASE holding # {}
  <2>1. Min(holding) \in holding /\ \A y \in holding : Min(holding) <= y
    <3>1. holding \in SUBSET Nat
      OBVIOUS
    <3> HIDE DEF holding
    <3> QED BY <3>1, <1>3, MinOfNaturals
  <2> QED BY <1>1, <1>3, <2>1
<1> QED BY <1>2, <1>3

\* The numbers of a request are numbers, or nothing.
Resolves(r) == r.amount \in Number /\ r.leaveDays \in Number /\ r.travelDays \in Number

\* The numbers of a resolved request are numbers, or nothing.
LEMMA RequestIsResolved == ASSUME NEW text, IsText(text) PROVE Resolves(Resolved(text))
<1>1. DaysRead(text) \in Number
  BY FirstFound, NumbersOfMessages DEF DaysRead
<1>2. ApprovalAmount(text) \in Number
  BY AmountIsNumber DEF ApprovalAmount
<1> QED BY <1>1, <1>2 DEF Resolves, Resolved, Number

-----------------------------------------------------------------------------
(* Routes.  Every route lists its approvers in one and the same order.       *)

\* The order in which every route asks.
Turn == [directManager |-> 1, departmentHead |-> 2, it |-> 3, procurement |-> 4, finance |-> 5,
         humanResources |-> 6, vicePresident |-> 7, generalManager |-> 8, committee |-> 9]
People == {"directManager", "departmentHead", "it", "procurement", "finance", "humanResources",
           "vicePresident", "generalManager", "committee"}

\* A route through the ranks from low to high, none twice, with these approvers.
Route(steps, low, high, people) ==
    /\ \E S : steps \in Seq(S)
    /\ low \in 1..9 /\ high \in 1..9 /\ low <= high
    /\ \A i \in 1..Len(steps) : /\ steps[i].approver \in People
                                /\ low <= Turn[steps[i].approver] /\ Turn[steps[i].approver] <= high
    /\ \A i, j \in 1..Len(steps) : i < j => Turn[steps[i].approver] < Turn[steps[j].approver]
    /\ people = {steps[i].approver : i \in 1..Len(steps)}

\* No two approvers have the same rank.
LEMMA TurnsDiffer ==
    /\ \A a \in People : Turn[a] \in 1..9
    /\ \A a, b \in People : Turn[a] = Turn[b] => a = b
BY DEF Turn, People

\* One step is a route of one approver.
LEMMA OneStep ==
    ASSUME NEW person \in People, NEW action
    PROVE  Route(<<Step(person, action)>>, Turn[person], Turn[person], {person})
<1> DEFINE s == <<Step(person, action)>>
<1>1. s \in Seq({Step(person, action)}) /\ Len(s) = 1 /\ s[1].approver = person
  BY DEF Step
<1>2. {s[i].approver : i \in 1..Len(s)} = {person}
  <2> HIDE DEF s
  <2>1. 1..Len(s) = {1}
    BY <1>1
  <2> QED BY <2>1, <1>1
<1> HIDE DEF s
<1>3. Route(s, Turn[person], Turn[person], {person})
  <2>1. \E S : s \in Seq(S)
    BY <1>1
  <2>2. \A i \in 1..Len(s) : i = 1
    BY <1>1
  <2>3. Turn[person] \in 1..9
    BY TurnsDiffer
  <2>4. \A i \in 1..Len(s) : /\ s[i].approver \in People
                             /\ Turn[person] <= Turn[s[i].approver] /\ Turn[s[i].approver] <= Turn[person]
    BY <2>2, <2>3, <1>1
  <2>5. \A i, j \in 1..Len(s) : ~(i < j)
    BY <2>2
  <2> QED BY <2>1, <2>3, <2>4, <2>5, <1>2 DEF Route
<1> QED BY <1>3 DEF s

\* One approver, or none.
Kept(condition, person) == {a \in {person} : condition}

\* A step that depends on a condition is a route of one approver or of none.
LEMMA StepWhen ==
    ASSUME NEW person \in People, NEW action, NEW condition
    PROVE  Route(When(condition, person, action), Turn[person], Turn[person], Kept(condition, person))
<1>1. CASE condition
  <2>1. Kept(condition, person) = {person} /\ When(condition, person, action) = <<Step(person, action)>>
    BY <1>1 DEF When, Kept
  <2> QED BY <2>1, OneStep
<1>2. CASE ~condition
  <2>1. Kept(condition, person) = {} /\ When(condition, person, action) = <<>>
    BY <1>2 DEF When, Kept
  <2>2. <<>> \in Seq({}) /\ Len(<<>>) = 0
    OBVIOUS
  <2> QED BY <2>1, <2>2, TurnsDiffer DEF Route
<1> QED BY <1>1, <1>2

\* Two routes make one when the second starts above the first.
LEMMA RoutesJoin ==
    ASSUME NEW s, NEW t, NEW a, NEW b, NEW c, NEW d, NEW P, NEW Q,
           Route(s, a, b, P), Route(t, c, d, Q), b < c
    PROVE  Route(s \o t, a, d, P \cup Q)
<1>1. PICK S : s \in Seq(S)
  BY DEF Route
<1>2. PICK T : t \in Seq(T)
  BY DEF Route
<1>3. s \in Seq(S \cup T) /\ t \in Seq(S \cup T)
  BY <1>1, <1>2
<1>4. /\ s \o t \in Seq(S \cup T) /\ Len(s \o t) = Len(s) + Len(t)
      /\ Len(s) \in Nat /\ Len(t) \in Nat
      /\ \A i \in 1..Len(s) : (s \o t)[i] = s[i]
      /\ \A i \in 1..Len(t) : (s \o t)[Len(s) + i] = t[i]
  BY <1>3
<1> DEFINE u == s \o t
<1>5. ASSUME NEW i \in 1..Len(u)
      PROVE  \/ i \in 1..Len(s) /\ u[i] = s[i]
             \/ i - Len(s) \in 1..Len(t) /\ u[i] = t[i - Len(s)] /\ i > Len(s)
  <2>1. CASE i <= Len(s)
    BY <2>1, <1>4
  <2>2. CASE i > Len(s)
    <3>1. i - Len(s) \in 1..Len(t) /\ Len(s) + (i - Len(s)) = i
      BY <2>2, <1>4
    <3> QED BY <3>1, <1>4, <2>2
  <2> QED BY <2>1, <2>2, <1>4
<1> HIDE DEF u
<1>6. a \in 1..9 /\ b \in 1..9 /\ c \in 1..9 /\ d \in 1..9 /\ a <= b /\ c <= d
  BY DEF Route
<1>14. \A x, y \in 1..9 : (c <= x => a <= x) /\ (x <= b => x <= d) /\ (x <= b /\ c <= y => x < y)
  BY <1>6
<1>7. \A i \in 1..Len(s) : s[i].approver \in People /\ a <= Turn[s[i].approver] /\ Turn[s[i].approver] <= b
                            /\ Turn[s[i].approver] \in 1..9
  BY TurnsDiffer DEF Route
<1>8. \A i \in 1..Len(t) : t[i].approver \in People /\ c <= Turn[t[i].approver] /\ Turn[t[i].approver] <= d
                            /\ Turn[t[i].approver] \in 1..9
  BY TurnsDiffer DEF Route
<1>9. \A i \in 1..Len(u) : u[i].approver \in People /\ a <= Turn[u[i].approver] /\ Turn[u[i].approver] <= d
  <2> SUFFICES ASSUME NEW i \in 1..Len(u)
               PROVE  u[i].approver \in People /\ a <= Turn[u[i].approver] /\ Turn[u[i].approver] <= d
    OBVIOUS
  <2>1. CASE i \in 1..Len(s) /\ u[i] = s[i]
    <3>1. s[i].approver \in People /\ a <= Turn[s[i].approver] /\ Turn[s[i].approver] <= b /\ Turn[s[i].approver] \in 1..9
      BY <2>1, <1>7
    <3>2. Turn[s[i].approver] <= d
      BY <3>1, <1>6
    <3> QED BY <2>1, <3>1, <3>2
  <2>2. CASE i - Len(s) \in 1..Len(t) /\ u[i] = t[i - Len(s)]
    <3> DEFINE k == i - Len(s)
    <3>1. t[k].approver \in People /\ c <= Turn[t[k].approver] /\ Turn[t[k].approver] <= d /\ Turn[t[k].approver] \in 1..9
      BY <2>2, <1>8
    <3>2. a <= Turn[t[k].approver]
      BY <3>1, <1>14
    <3> QED BY <2>2, <3>1, <3>2
  <2> QED BY <2>1, <2>2, <1>5
<1>10. ASSUME NEW i \in 1..Len(u), NEW j \in 1..Len(u), i < j
       PROVE  Turn[u[i].approver] < Turn[u[j].approver]
  <2>1. \A x, y \in 1..Len(s) : x < y => Turn[s[x].approver] < Turn[s[y].approver]
    BY DEF Route
  <2>2. \A x, y \in 1..Len(t) : x < y => Turn[t[x].approver] < Turn[t[y].approver]
    BY DEF Route
  <2>3. CASE j \in 1..Len(s)
    <3>1. i \in 1..Len(s) /\ u[i] = s[i] /\ u[j] = s[j]
      BY <2>3, <1>4, <1>5, <1>10
    <3> QED BY <3>1, <2>1, <2>3, <1>10
  <2>4. CASE i - Len(s) \in 1..Len(t) /\ i > Len(s)
    <3>1. j - Len(s) \in 1..Len(t) /\ u[i] = t[i - Len(s)] /\ u[j] = t[j - Len(s)] /\ i - Len(s) < j - Len(s)
      BY <2>4, <1>4, <1>5, <1>10
    <3> QED BY <3>1, <2>2, <2>4
  <2>5. CASE i \in 1..Len(s) /\ j - Len(s) \in 1..Len(t) /\ j > Len(s)
    <3>1. u[i] = s[i] /\ u[j] = t[j - Len(s)]
      BY <2>5, <1>4, <1>5
    <3>2. Turn[s[i].approver] <= b /\ Turn[s[i].approver] \in 1..9
      BY <2>5, <1>7
    <3>3. c <= Turn[t[j - Len(s)].approver] /\ Turn[t[j - Len(s)].approver] \in 1..9
      BY <2>5, <1>8
    <3>4. Turn[s[i].approver] < Turn[t[j - Len(s)].approver]
      BY <3>2, <3>3, <1>14
    <3> QED BY <3>1, <3>4
  <2> QED BY <2>3, <2>4, <2>5, <1>5
<1>11. P \cup Q = {u[i].approver : i \in 1..Len(u)}
  <2>1. ASSUME NEW i \in 1..Len(u) PROVE u[i].approver \in P \cup Q
    BY <1>5 DEF Route
  <2>2. ASSUME NEW p \in P PROVE \E i \in 1..Len(u) : u[i].approver = p
    <3>1. PICK i \in 1..Len(s) : s[i].approver = p
      BY DEF Route
    <3>2. i \in 1..Len(u) /\ u[i] = s[i]
      BY <1>4 DEF u
    <3> QED BY <3>1, <3>2
  <2>3. ASSUME NEW p \in Q PROVE \E i \in 1..Len(u) : u[i].approver = p
    <3>1. PICK i \in 1..Len(t) : t[i].approver = p
      BY DEF Route
    <3>2. Len(s) + i \in 1..Len(u) /\ u[Len(s) + i] = t[i]
      BY <1>4 DEF u
    <3> QED BY <3>1, <3>2
  <2> QED BY <2>1, <2>2, <2>3
<1>12. (\E X : u \in Seq(X)) /\ a <= d
  BY <1>4, <1>6 DEF u
<1>13. Route(u, a, d, P \cup Q)
  BY <1>6, <1>9, <1>10, <1>11, <1>12 DEF Route
<1> QED BY <1>13 DEF u

\* A list of approvers in the order of the ranks.
Listing(listed, people) ==
    \E n \in Nat : /\ DOMAIN listed = 1..n
                   /\ \A i \in 1..n : listed[i] \in People
                   /\ \A i, j \in 1..n : i < j => Turn[listed[i]] < Turn[listed[j]]
                   /\ people = {listed[i] : i \in 1..n}

\* The lists of the policies are in the order of the ranks.
LEMMA Listings ==
    /\ Listing(<<>>, {})
    /\ Listing(<<"vicePresident">>, {"vicePresident"})
    /\ Listing(<<"directManager">>, {"directManager"})
    /\ Listing(<<"directManager", "finance">>, {"directManager", "finance"})
    /\ Listing(<<"directManager", "departmentHead">>, {"directManager", "departmentHead"})
    /\ Listing(<<"directManager", "departmentHead", "procurement">>,
               {"directManager", "departmentHead", "procurement"})
    /\ Listing(<<"directManager", "departmentHead", "finance">>,
               {"directManager", "departmentHead", "finance"})
    /\ Listing(<<"directManager", "departmentHead", "humanResources">>,
               {"directManager", "departmentHead", "humanResources"})
    /\ Listing(<<"directManager", "departmentHead", "vicePresident">>,
               {"directManager", "departmentHead", "vicePresident"})
    /\ Listing(<<"directManager", "departmentHead", "finance", "vicePresident">>,
               {"directManager", "departmentHead", "finance", "vicePresident"})
    /\ Listing(<<"directManager", "departmentHead", "humanResources", "vicePresident">>,
               {"directManager", "departmentHead", "humanResources", "vicePresident"})
    /\ Listing(<<"directManager", "departmentHead", "procurement", "finance", "vicePresident">>,
               {"directManager", "departmentHead", "procurement", "finance", "vicePresident"})
    /\ Listing(<<"directManager", "departmentHead", "procurement", "finance", "vicePresident",
                 "generalManager">>,
               {"directManager", "departmentHead", "procurement", "finance", "vicePresident",
                "generalManager"})
<1>0. Listing(<<>>, {})
  <2>1. DOMAIN <<>> = 1..0 /\ \A i \in 1..0 : FALSE
    OBVIOUS
  <2> QED BY <2>1 DEF Listing
<1>1. ASSUME NEW a \in People PROVE Listing(<<a>>, {a})
  <2> DEFINE l == <<a>>
  <2>1. DOMAIN l = 1..1 /\ l[1] = a /\ \A i \in 1..1 : i = 1
    OBVIOUS
  <2> HIDE DEF l
  <2>2. {l[i] : i \in 1..1} = {a}
    BY <2>1
  <2>3. Listing(l, {a})
    BY <2>1, <2>2, 1 \in Nat DEF Listing
  <2> QED BY <2>3 DEF l
<1>2. ASSUME NEW a \in People, NEW b \in People, Turn[a] < Turn[b] PROVE Listing(<<a, b>>, {a, b})
  <2> DEFINE l == <<a, b>>
  <2>1. DOMAIN l = 1..2 /\ l[1] = a /\ l[2] = b /\ \A i \in 1..2 : i = 1 \/ i = 2
    OBVIOUS
  <2> HIDE DEF l
  <2>2. {l[i] : i \in 1..2} = {a, b}
    BY <2>1
  <2>3. Listing(l, {a, b})
    BY <2>1, <2>2, <1>2, 2 \in Nat DEF Listing
  <2> QED BY <2>3 DEF l
<1>3. ASSUME NEW a \in People, NEW b \in People, NEW c \in People, Turn[a] < Turn[b], Turn[b] < Turn[c]
      PROVE  Listing(<<a, b, c>>, {a, b, c})
  <2> DEFINE l == <<a, b, c>>
  <2>1. DOMAIN l = 1..3 /\ l[1] = a /\ l[2] = b /\ l[3] = c /\ \A i \in 1..3 : i = 1 \/ i = 2 \/ i = 3
    OBVIOUS
  <2>4. Turn[a] < Turn[c]
    BY <1>3, TurnsDiffer
  <2> HIDE DEF l
  <2>2. {l[i] : i \in 1..3} = {a, b, c}
    BY <2>1
  <2>3. Listing(l, {a, b, c})
    BY <2>1, <2>2, <2>4, <1>3, 3 \in Nat DEF Listing
  <2> QED BY <2>3 DEF l
<1>4. ASSUME NEW a \in People, NEW b \in People, NEW c \in People, NEW d \in People,
             Turn[a] < Turn[b], Turn[b] < Turn[c], Turn[c] < Turn[d]
      PROVE  Listing(<<a, b, c, d>>, {a, b, c, d})
  <2> DEFINE l == <<a, b, c, d>>
  <2>1. DOMAIN l = 1..4 /\ l[1] = a /\ l[2] = b /\ l[3] = c /\ l[4] = d
        /\ \A i \in 1..4 : i = 1 \/ i = 2 \/ i = 3 \/ i = 4
    OBVIOUS
  <2>4. Turn[a] < Turn[c] /\ Turn[a] < Turn[d] /\ Turn[b] < Turn[d]
    BY <1>4, TurnsDiffer
  <2> HIDE DEF l
  <2>2. {l[i] : i \in 1..4} = {a, b, c, d}
    BY <2>1
  <2>3. Listing(l, {a, b, c, d})
    BY <2>1, <2>2, <2>4, <1>4, 4 \in Nat DEF Listing
  <2> QED BY <2>3 DEF l
<1>5. Listing(<<"directManager", "departmentHead", "procurement", "finance", "vicePresident">>,
              {"directManager", "departmentHead", "procurement", "finance", "vicePresident"})
  <2> DEFINE l == <<"directManager", "departmentHead", "procurement", "finance", "vicePresident">>
  <2>1. DOMAIN l = 1..5 /\ l[1] = "directManager" /\ l[2] = "departmentHead" /\ l[3] = "procurement"
        /\ l[4] = "finance" /\ l[5] = "vicePresident"
        /\ \A i \in 1..5 : i = 1 \/ i = 2 \/ i = 3 \/ i = 4 \/ i = 5
    OBVIOUS
  <2> HIDE DEF l
  <2>2. {l[i] : i \in 1..5} = {"directManager", "departmentHead", "procurement", "finance", "vicePresident"}
    BY <2>1
  <2>4. /\ Turn[l[1]] = 1 /\ Turn[l[2]] = 2 /\ Turn[l[3]] = 4 /\ Turn[l[4]] = 5 /\ Turn[l[5]] = 7
        /\ \A i \in 1..5 : l[i] \in People
    BY <2>1 DEF Turn, People
  <2>5. \A i, j \in 1..5 : i < j => Turn[l[i]] < Turn[l[j]]
    BY <2>1, <2>4
  <2>3. Listing(l, {"directManager", "departmentHead", "procurement", "finance", "vicePresident"})
    BY <2>1, <2>2, <2>4, <2>5, 5 \in Nat DEF Listing
  <2> QED BY <2>3 DEF l
<1>6. Listing(<<"directManager", "departmentHead", "procurement", "finance", "vicePresident", "generalManager">>,
              {"directManager", "departmentHead", "procurement", "finance", "vicePresident", "generalManager"})
  <2> DEFINE l == <<"directManager", "departmentHead", "procurement", "finance", "vicePresident", "generalManager">>
  <2>1. DOMAIN l = 1..6 /\ l[1] = "directManager" /\ l[2] = "departmentHead" /\ l[3] = "procurement"
        /\ l[4] = "finance" /\ l[5] = "vicePresident" /\ l[6] = "generalManager"
        /\ \A i \in 1..6 : i = 1 \/ i = 2 \/ i = 3 \/ i = 4 \/ i = 5 \/ i = 6
    OBVIOUS
  <2> HIDE DEF l
  <2>2. {l[i] : i \in 1..6} = {"directManager", "departmentHead", "procurement", "finance", "vicePresident",
                               "generalManager"}
    BY <2>1
  <2>4. /\ Turn[l[1]] = 1 /\ Turn[l[2]] = 2 /\ Turn[l[3]] = 4 /\ Turn[l[4]] = 5 /\ Turn[l[5]] = 7
        /\ Turn[l[6]] = 8 /\ \A i \in 1..6 : l[i] \in People
    BY <2>1 DEF Turn, People
  <2>5. \A i, j \in 1..6 : i < j => Turn[l[i]] < Turn[l[j]]
    BY <2>1, <2>4
  <2>3. Listing(l, {"directManager", "departmentHead", "procurement", "finance", "vicePresident",
                    "generalManager"})
    BY <2>1, <2>2, <2>4, <2>5, 6 \in Nat DEF Listing
  <2> QED BY <2>3 DEF l
<1>7. /\ {"directManager", "departmentHead", "procurement", "finance", "humanResources", "vicePresident"} \subseteq People
      /\ Turn["directManager"] = 1 /\ Turn["departmentHead"] = 2 /\ Turn["procurement"] = 4
      /\ Turn["finance"] = 5 /\ Turn["humanResources"] = 6 /\ Turn["vicePresident"] = 7
  BY DEF Turn, People
<1>8. /\ Listing(<<"vicePresident">>, {"vicePresident"})
      /\ Listing(<<"directManager">>, {"directManager"})
  BY <1>1, <1>7
<1>9. /\ Listing(<<"directManager", "finance">>, {"directManager", "finance"})
      /\ Listing(<<"directManager", "departmentHead">>, {"directManager", "departmentHead"})
  BY <1>2, <1>7
<1>10. Listing(<<"directManager", "departmentHead", "procurement">>,
               {"directManager", "departmentHead", "procurement"})
  BY <1>3, <1>7
<1>11. Listing(<<"directManager", "departmentHead", "finance">>,
               {"directManager", "departmentHead", "finance"})
  BY <1>3, <1>7
<1>12. Listing(<<"directManager", "departmentHead", "humanResources">>,
               {"directManager", "departmentHead", "humanResources"})
  BY <1>3, <1>7
<1>13. Listing(<<"directManager", "departmentHead", "vicePresident">>,
               {"directManager", "departmentHead", "vicePresident"})
  BY <1>3, <1>7
<1>14. Listing(<<"directManager", "departmentHead", "finance", "vicePresident">>,
               {"directManager", "departmentHead", "finance", "vicePresident"})
  BY <1>4, <1>7
<1>15. Listing(<<"directManager", "departmentHead", "humanResources", "vicePresident">>,
               {"directManager", "departmentHead", "humanResources", "vicePresident"})
  BY <1>4, <1>7
<1> QED BY <1>0, <1>5, <1>6, <1>8, <1>9, <1>10, <1>11, <1>12, <1>13, <1>14, <1>15

\* A route whose approvers are those the policy asks for, and whose listed approvers
\* are listed in the order of the ranks, follows the policy.
LEMMA RouteFollows ==
    ASSUME NEW r, NEW steps, NEW low, NEW high, NEW people, Route(steps, low, high, people),
           NEW asked, Listing(Policy!TierOf(r).listed, asked),
           people = asked \cup Policy!FurtherApprovers(r)
    PROVE  Policy!Follows(r, [i \in DOMAIN steps |-> steps[i].approver])
<1>0. PICK n \in Nat : /\ DOMAIN Policy!TierOf(r).listed = 1..n
                       /\ \A i \in 1..n : Policy!TierOf(r).listed[i] \in People
                       /\ \A i, j \in 1..n : i < j => Turn[Policy!TierOf(r).listed[i]] < Turn[Policy!TierOf(r).listed[j]]
                       /\ asked = {Policy!TierOf(r).listed[i] : i \in 1..n}
  BY DEF Listing
<1> DEFINE listed == Policy!TierOf(r).listed
           approvers == [i \in DOMAIN steps |-> steps[i].approver]
           Place(a) == CHOOSE i \in DOMAIN approvers : approvers[i] = a
<1>1. DOMAIN steps = 1..Len(steps) /\ Len(steps) \in Nat
  BY DEF Route
<1>2. \A i \in 1..Len(steps) : approvers[i] = steps[i].approver /\ approvers[i] \in People
                               /\ Turn[approvers[i]] \in 1..9
  BY <1>1, TurnsDiffer DEF Route
<1>3. \A i, j \in 1..Len(steps) : i < j => Turn[approvers[i]] < Turn[approvers[j]]
  BY <1>1 DEF Route
<1>4. DOMAIN approvers = 1..Len(steps)
  BY <1>1
<1>5. people = {approvers[i] : i \in 1..Len(steps)}
  BY <1>2 DEF Route
<1> HIDE DEF approvers
<1>6. ASSUME NEW i \in 1..Len(steps), NEW j \in 1..Len(steps), approvers[i] = approvers[j] PROVE i = j
  <2>1. ~(i < j) /\ ~(j < i)
    BY <1>2, <1>3, <1>6
  <2> QED BY <2>1, <1>1
<1>7. ASSUME NEW a \in people PROVE Place(a) \in 1..Len(steps) /\ approvers[Place(a)] = a
  BY <1>4, <1>5
<1>8. ASSUME NEW a \in people, NEW b \in people, Turn[a] < Turn[b] PROVE Place(a) < Place(b)
  <2>1. Place(a) \in 1..Len(steps) /\ Place(b) \in 1..Len(steps) /\ approvers[Place(a)] = a /\ approvers[Place(b)] = b
    BY <1>7
  <2> HIDE DEF Place
  <2>2. Place(a) # Place(b)
    BY <2>1, <1>8, <1>2
  <2>3. ~(Place(b) < Place(a))
    BY <2>1, <1>2, <1>3, <1>8
  <2> QED BY <2>1, <2>2, <2>3, <1>1
<1>9. Policy!IsInjective(approvers)
  BY <1>4, <1>6 DEF Policy!IsInjective
<1>10. Policy!ToSet(approvers) = Policy!ToSet(listed) \cup Policy!FurtherApprovers(r)
  <2>1. Policy!ToSet(approvers) = people
    BY <1>4, <1>5 DEF Policy!ToSet
  <2>2. Policy!ToSet(listed) = {listed[i] : i \in 1..n}
    BY <1>0 DEF Policy!ToSet
  <2> QED BY <2>1, <2>2, <1>0
<1>11. \A i, j \in DOMAIN listed : i < j => Place(listed[i]) < Place(listed[j])
  <2> SUFFICES ASSUME NEW i \in 1..n, NEW j \in 1..n, i < j PROVE Place(listed[i]) < Place(listed[j])
    BY <1>0
  <2>1. listed[i] \in people /\ listed[j] \in people /\ Turn[listed[i]] < Turn[listed[j]]
    BY <1>0
  <2> HIDE DEF Place, listed
  <2> QED BY <2>1, <1>8
<1>12. {"it", "procurement"} \subseteq Policy!ToSet(approvers) => Place("it") < Place("procurement")
  <2>1. Policy!ToSet(approvers) = people
    BY <1>4, <1>5 DEF Policy!ToSet
  <2>2. Turn["it"] < Turn["procurement"]
    BY DEF Turn
  <2> HIDE DEF Place
  <2> QED BY <2>1, <2>2, <1>8
<1>13. Policy!Follows(r, approvers)
  BY <1>9, <1>10, <1>11, <1>12 DEF Policy!Follows
<1> QED BY <1>13 DEF approvers

\* What the checker answers to a resolved request is what the policy says of it.
AsThePolicySays(r, decision) ==
    /\ Policy!Follows(r, [i \in DOMAIN decision.steps |-> decision.steps[i].approver])
    /\ Policy!TierOf(r).article \in decision.articles

\* The approvers a policy may ask for have ranks.
LEMMA PeopleRanked ==
    /\ "directManager" \in People /\ Turn["directManager"] = 1
    /\ "departmentHead" \in People /\ Turn["departmentHead"] = 2
    /\ "it" \in People /\ Turn["it"] = 3
    /\ "procurement" \in People /\ Turn["procurement"] = 4
    /\ "finance" \in People /\ Turn["finance"] = 5
    /\ "humanResources" \in People /\ Turn["humanResources"] = 6
    /\ "vicePresident" \in People /\ Turn["vicePresident"] = 7
    /\ "generalManager" \in People /\ Turn["generalManager"] = 8
    /\ "committee" \in People /\ Turn["committee"] = 9
BY DEF People, Turn

-----------------------------------------------------------------------------
(* The routes the checker builds, claim by claim.                           *)

\* A route is extended by a step that depends on a condition.
LEMMA Extended ==
    ASSUME NEW s, NEW low, NEW high, NEW P, Route(s, low, high, P),
           NEW person \in People, NEW action, NEW condition, high < Turn[person]
    PROVE  Route(s \o When(condition, person, action), low, Turn[person], P \cup Kept(condition, person))
BY StepWhen, RoutesJoin

\* Two steps in the order of their ranks are a route.
LEMMA TwoSteps ==
    ASSUME NEW person \in People, NEW action, NEW other \in People, NEW another, Turn[person] < Turn[other]
    PROVE  Route(<<Step(person, action), Step(other, another)>>, Turn[person], Turn[other], {person, other})
<1> DEFINE s == <<Step(person, action)>>
           t == <<Step(other, another)>>
<1>1. Route(s, Turn[person], Turn[person], {person}) /\ Route(t, Turn[other], Turn[other], {other})
  BY OneStep
<1>2. s \o t = <<Step(person, action), Step(other, another)>> /\ {person} \cup {other} = {person, other}
  <2>1. ASSUME NEW x, NEW y PROVE <<x>> \o <<y>> = <<x, y>>
    <3> DEFINE u == <<x>> \o <<y>>
               v == <<x, y>>
    <3>1. <<x>> \in Seq({x, y}) /\ <<y>> \in Seq({x, y}) /\ Len(<<x>>) = 1 /\ Len(<<y>>) = 1
      OBVIOUS
    <3>2. u \in Seq({x, y}) /\ Len(u) = 2 /\ u[1] = x /\ u[2] = y
      BY <3>1
    <3>3. v \in Seq({x, y}) /\ Len(v) = 2 /\ v[1] = x /\ v[2] = y
      OBVIOUS
    <3>4. \A i \in 1..2 : i = 1 \/ i = 2
      OBVIOUS
    <3> HIDE DEF u, v
    <3>5. u = v
      BY <3>2, <3>3, <3>4, SeqEqual
    <3> QED BY <3>5 DEF u, v
  <2> QED BY <2>1
<1> HIDE DEF s, t
<1>3. Route(s \o t, Turn[person], Turn[other], {person} \cup {other})
  BY <1>1, RoutesJoin
<1> QED BY <1>2, <1>3

\* The route of a purchase that is no emergency.
LEMMA PurchaseRoute ==
    ASSUME NEW r
    PROVE  Route(PurchaseSteps(r), 1, 9,
                 {"directManager"}
                 \cup Kept(r.amount > 5000, "departmentHead")
                 \cup Kept("it" \in r.conditions, "it")
                 \cup Kept(r.amount > 5000, "procurement")
                 \cup Kept(r.amount > 50000, "finance")
                 \cup Kept(r.amount > 50000, "vicePresident")
                 \cup Kept(r.amount > 200000, "generalManager")
                 \cup Kept(r.amount > 1000000 \/ "majorProject" \in r.conditions, "committee"))
<1> DEFINE
      s1 == <<Step("directManager", "approve")>>
      P1 == {"directManager"}
      s2 == s1 \o When(r.amount > 5000, "departmentHead", "approve")
      P2 == P1 \cup Kept(r.amount > 5000, "departmentHead")
      s3 == s2 \o When("it" \in r.conditions, "it", "technicalReview")
      P3 == P2 \cup Kept("it" \in r.conditions, "it")
      s4 == s3 \o When(r.amount > 5000, "procurement", "approve")
      P4 == P3 \cup Kept(r.amount > 5000, "procurement")
      s5 == s4 \o When(r.amount > 50000, "finance", "approve")
      P5 == P4 \cup Kept(r.amount > 50000, "finance")
      s6 == s5 \o When(r.amount > 50000, "vicePresident", "approve")
      P6 == P5 \cup Kept(r.amount > 50000, "vicePresident")
      s7 == s6 \o When(r.amount > 200000, "generalManager", "approve")
      P7 == P6 \cup Kept(r.amount > 200000, "generalManager")
      s8 == s7 \o When(r.amount > 1000000 \/ "majorProject" \in r.conditions, "committee", "deliberate")
      P8 == P7 \cup Kept(r.amount > 1000000 \/ "majorProject" \in r.conditions, "committee")
<1>1. Route(s1, 1, 1, P1)
  BY OneStep, PeopleRanked
<1>2. Route(s2, 1, 2, P2)
  <2> HIDE DEF s1, P1
  <2> QED BY <1>1, Extended, PeopleRanked, SMTT(30)
<1>3. Route(s3, 1, 3, P3)
  <2> HIDE DEF s2, P2
  <2> QED BY <1>2, Extended, PeopleRanked, SMTT(30)
<1>4. Route(s4, 1, 4, P4)
  <2> HIDE DEF s3, P3
  <2> QED BY <1>3, Extended, PeopleRanked, SMTT(30)
<1>5. Route(s5, 1, 5, P5)
  <2> HIDE DEF s4, P4
  <2> QED BY <1>4, Extended, PeopleRanked, SMTT(30)
<1>6. Route(s6, 1, 7, P6)
  <2> HIDE DEF s5, P5
  <2> QED BY <1>5, Extended, PeopleRanked, SMTT(30)
<1>7. Route(s7, 1, 8, P7)
  <2> HIDE DEF s6, P6
  <2> QED BY <1>6, Extended, PeopleRanked, SMTT(30)
<1>8. Route(s8, 1, 9, P8)
  <2> HIDE DEF s7, P7
  <2> QED BY <1>7, Extended, PeopleRanked, SMTT(30)
<1>9. s8 = PurchaseSteps(r)
  BY DEF PurchaseSteps, s1, s2, s3, s4, s5, s6, s7, s8
<1>10. Route(PurchaseSteps(r), 1, 9, P8)
  <2> HIDE DEF s8, P8
  <2> QED BY <1>8, <1>9
<1> HIDE DEF s8
<1> QED BY <1>10 DEF P1, P2, P3, P4, P5, P6, P7, P8

\* The route of an emergency purchase.
LEMMA EmergencyRoute ==
    ASSUME NEW r
    PROVE  Route(EmergencySteps(r), 2, 9,
                 {"departmentHead"}
                 \cup Kept("it" \in r.conditions, "it")
                 \cup {"procurement", "finance"}
                 \cup Kept(r.amount > 50000, "vicePresident")
                 \cup Kept(r.amount > 200000, "generalManager")
                 \cup Kept(r.amount > 1000000 \/ "majorProject" \in r.conditions, "committee"))
<1> DEFINE
      s1 == <<Step("departmentHead", "approve")>>
      P1 == {"departmentHead"}
      s2 == s1 \o When("it" \in r.conditions, "it", "technicalReview")
      P2 == P1 \cup Kept("it" \in r.conditions, "it")
      s3 == s2 \o <<Step("procurement", "confirm"), Step("finance", "confirm")>>
      P3 == P2 \cup {"procurement", "finance"}
      s4 == s3 \o When(r.amount > 50000, "vicePresident", "approve")
      P4 == P3 \cup Kept(r.amount > 50000, "vicePresident")
      s5 == s4 \o When(r.amount > 200000, "generalManager", "approve")
      P5 == P4 \cup Kept(r.amount > 200000, "generalManager")
      s6 == s5 \o When(r.amount > 1000000 \/ "majorProject" \in r.conditions, "committee", "deliberate")
      P6 == P5 \cup Kept(r.amount > 1000000 \/ "majorProject" \in r.conditions, "committee")
<1>1. Route(s1, 2, 2, P1)
  BY OneStep, PeopleRanked
<1>2. Route(s2, 2, 3, P2)
  <2> HIDE DEF s1, P1
  <2> QED BY <1>1, Extended, PeopleRanked, SMTT(30)
<1>3. Route(s3, 2, 5, P3)
  <2>1. Route(<<Step("procurement", "confirm"), Step("finance", "confirm")>>, 4, 5, {"procurement", "finance"})
    <3>1. Turn["procurement"] < Turn["finance"]
      BY PeopleRanked
    <3> QED BY <3>1, TwoSteps, PeopleRanked
  <2> HIDE DEF s2, P2
  <2> QED BY <1>2, <2>1, RoutesJoin
<1>4. Route(s4, 2, 7, P4)
  <2> HIDE DEF s3, P3
  <2> QED BY <1>3, Extended, PeopleRanked, SMTT(30)
<1>5. Route(s5, 2, 8, P5)
  <2> HIDE DEF s4, P4
  <2> QED BY <1>4, Extended, PeopleRanked, SMTT(30)
<1>6. Route(s6, 2, 9, P6)
  <2> HIDE DEF s5, P5
  <2> QED BY <1>5, Extended, PeopleRanked, SMTT(30)
<1>7. s6 = EmergencySteps(r)
  BY DEF EmergencySteps, s1, s2, s3, s4, s5, s6
<1>8. Route(EmergencySteps(r), 2, 9, P6)
  <2> HIDE DEF s6, P6
  <2> QED BY <1>6, <1>7
<1> HIDE DEF s6
<1> QED BY <1>8 DEF P1, P2, P3, P4, P5, P6

\* The route of a journey.
LEMMA TravelRoute ==
    ASSUME NEW r
    PROVE  Route(TravelSteps(r), 1, 7,
                 {"directManager"}
                 \cup Kept(r.amount > 5000, "departmentHead")
                 \cup Kept(TravelReviewed(r), "finance")
                 \cup Kept(r.amount > 20000, "vicePresident"))
<1> DEFINE
      s1 == <<Step("directManager", "approve")>>
      P1 == {"directManager"}
      s2 == s1 \o When(r.amount > 5000, "departmentHead", "approve")
      P2 == P1 \cup Kept(r.amount > 5000, "departmentHead")
      s3 == s2 \o When(TravelReviewed(r), "finance", "review")
      P3 == P2 \cup Kept(TravelReviewed(r), "finance")
      s4 == s3 \o When(r.amount > 20000, "vicePresident", "approve")
      P4 == P3 \cup Kept(r.amount > 20000, "vicePresident")
<1>1. Route(s1, 1, 1, P1)
  BY OneStep, PeopleRanked
<1>2. Route(s2, 1, 2, P2)
  <2> HIDE DEF s1, P1
  <2> QED BY <1>1, Extended, PeopleRanked, SMTT(30)
<1>3. Route(s3, 1, 5, P3)
  <2> HIDE DEF s2, P2
  <2> QED BY <1>2, Extended, PeopleRanked, SMTT(30)
<1>4. Route(s4, 1, 7, P4)
  <2> HIDE DEF s3, P3
  <2> QED BY <1>3, Extended, PeopleRanked, SMTT(30)
<1>5. s4 = TravelSteps(r)
  BY DEF TravelSteps, s1, s2, s3, s4
<1>6. Route(TravelSteps(r), 1, 7, P4)
  <2> HIDE DEF s4, P4
  <2> QED BY <1>4, <1>5
<1> HIDE DEF s4
<1> QED BY <1>6 DEF P1, P2, P3, P4

\* The route of an expense.
LEMMA ExpenseRoute ==
    ASSUME NEW r
    PROVE  Route(ExpenseSteps(r), 1, 8,
                 {"directManager"}
                 \cup Kept(r.amount > 1000, "departmentHead")
                 \cup {"finance"}
                 \cup Kept(r.amount > 20000, "vicePresident")
                 \cup Kept(r.amount > 100000, "generalManager"))
<1> DEFINE
      s1 == <<Step("directManager", "approve")>>
      P1 == {"directManager"}
      s2 == s1 \o When(r.amount > 1000, "departmentHead", "approve")
      P2 == P1 \cup Kept(r.amount > 1000, "departmentHead")
      s3 == s2 \o <<Step("finance", IF r.amount <= 5000 THEN "review" ELSE "approve")>>
      P3 == P2 \cup {"finance"}
      s4 == s3 \o When(r.amount > 20000, "vicePresident", "approve")
      P4 == P3 \cup Kept(r.amount > 20000, "vicePresident")
      s5 == s4 \o When(r.amount > 100000, "generalManager", "approve")
      P5 == P4 \cup Kept(r.amount > 100000, "generalManager")
<1>1. Route(s1, 1, 1, P1)
  BY OneStep, PeopleRanked
<1>2. Route(s2, 1, 2, P2)
  <2> HIDE DEF s1, P1
  <2> QED BY <1>1, Extended, PeopleRanked, SMTT(30)
<1>3. Route(s3, 1, 5, P3)
  <2>1. Route(<<Step("finance", IF r.amount <= 5000 THEN "review" ELSE "approve")>>, 5, 5, {"finance"})
    <3>1. \A action : Route(<<Step("finance", action)>>, 5, 5, {"finance"})
      BY OneStep, PeopleRanked
    <3> QED BY <3>1
  <2> HIDE DEF s2, P2
  <2> QED BY <1>2, <2>1, RoutesJoin
<1>4. Route(s4, 1, 7, P4)
  <2> HIDE DEF s3, P3
  <2> QED BY <1>3, Extended, PeopleRanked, SMTT(30)
<1>5. Route(s5, 1, 8, P5)
  <2> HIDE DEF s4, P4
  <2> QED BY <1>4, Extended, PeopleRanked, SMTT(30)
<1>6. s5 = ExpenseSteps(r)
  BY DEF ExpenseSteps, s1, s2, s3, s4, s5
<1>7. Route(ExpenseSteps(r), 1, 8, P5)
  <2> HIDE DEF s5, P5
  <2> QED BY <1>5, <1>6
<1> HIDE DEF s5
<1> QED BY <1>7 DEF P1, P2, P3, P4, P5

\* The route of the leave of a department head.
LEMMA HeadLeaveRoute ==
    ASSUME NEW r
    PROVE  Route(HeadLeaveSteps(r), 6, 8,
                 Kept(LeaveReviewed(r), "humanResources")
                 \cup {"vicePresident"}
                 \cup Kept(r.leaveDays > 30, "generalManager"))
<1> DEFINE
      s1 == When(LeaveReviewed(r), "humanResources", "review")
      P1 == Kept(LeaveReviewed(r), "humanResources")
      s2 == s1 \o <<Step("vicePresident", "approve")>>
      P2 == P1 \cup {"vicePresident"}
      s3 == s2 \o When(r.leaveDays > 30, "generalManager", "approve")
      P3 == P2 \cup Kept(r.leaveDays > 30, "generalManager")
<1>1. Route(s1, 6, 6, P1)
  BY StepWhen, PeopleRanked
<1>2. Route(s2, 6, 7, P2)
  <2>1. Route(<<Step("vicePresident", "approve")>>, 7, 7, {"vicePresident"})
    BY OneStep, PeopleRanked
  <2> HIDE DEF s1, P1
  <2> QED BY <1>1, <2>1, RoutesJoin
<1>3. Route(s3, 6, 8, P3)
  <2> HIDE DEF s2, P2
  <2> QED BY <1>2, Extended, PeopleRanked, SMTT(30)
<1>4. s3 = HeadLeaveSteps(r)
  BY DEF HeadLeaveSteps, s1, s2, s3
<1>5. Route(HeadLeaveSteps(r), 6, 8, P3)
  <2> HIDE DEF s3, P3
  <2> QED BY <1>3, <1>4
<1> HIDE DEF s3
<1> QED BY <1>5 DEF P1, P2, P3

\* The route of anyone else's leave.
LEMMA LeaveRoute ==
    ASSUME NEW r
    PROVE  Route(LeaveSteps(r), 1, 8,
                 {"directManager"}
                 \cup Kept(r.leaveDays > 2, "departmentHead")
                 \cup Kept(LeaveReviewed(r), "humanResources")
                 \cup Kept(r.leaveDays > 10, "vicePresident")
                 \cup Kept(r.leaveDays > 30, "generalManager"))
<1> DEFINE
      s1 == <<Step("directManager", "approve")>>
      P1 == {"directManager"}
      s2 == s1 \o When(r.leaveDays > 2, "departmentHead", "approve")
      P2 == P1 \cup Kept(r.leaveDays > 2, "departmentHead")
      s3 == s2 \o When(LeaveReviewed(r), "humanResources", "review")
      P3 == P2 \cup Kept(LeaveReviewed(r), "humanResources")
      s4 == s3 \o When(r.leaveDays > 10, "vicePresident", "approve")
      P4 == P3 \cup Kept(r.leaveDays > 10, "vicePresident")
      s5 == s4 \o When(r.leaveDays > 30, "generalManager", "approve")
      P5 == P4 \cup Kept(r.leaveDays > 30, "generalManager")
<1>1. Route(s1, 1, 1, P1)
  BY OneStep, PeopleRanked
<1>2. Route(s2, 1, 2, P2)
  <2> HIDE DEF s1, P1
  <2> QED BY <1>1, Extended, PeopleRanked, SMTT(30)
<1>3. Route(s3, 1, 6, P3)
  <2> HIDE DEF s2, P2
  <2> QED BY <1>2, Extended, PeopleRanked, SMTT(30)
<1>4. Route(s4, 1, 7, P4)
  <2> HIDE DEF s3, P3
  <2> QED BY <1>3, Extended, PeopleRanked, SMTT(30)
<1>5. Route(s5, 1, 8, P5)
  <2> HIDE DEF s4, P4
  <2> QED BY <1>4, Extended, PeopleRanked, SMTT(30)
<1>6. s5 = LeaveSteps(r)
  BY DEF LeaveSteps, s1, s2, s3, s4, s5
<1>7. Route(LeaveSteps(r), 1, 8, P5)
  <2> HIDE DEF s5, P5
  <2> QED BY <1>5, <1>6
<1> HIDE DEF s5
<1> QED BY <1>7 DEF P1, P2, P3, P4, P5

-----------------------------------------------------------------------------
(* Whom a policy asks for beside those it lists.                            *)

\* An ordinary purchase is also approved by procurement, IT and the committee when due.
LEMMA FurtherOfPurchase ==
    ASSUME NEW r, r.type = "purchase"
    PROVE  /\ "emergency" \notin r.conditions
                => Policy!FurtherApprovers(r)
                     = Kept("it" \in r.conditions, "it")
                       \cup Kept(r.amount > 1000000 \/ "majorProject" \in r.conditions, "committee")
           /\ "emergency" \in r.conditions
                => Policy!FurtherApprovers(r)
                     = {"departmentHead", "procurement", "finance"}
                       \cup Kept(r.amount > 50000, "vicePresident")
                       \cup Kept(r.amount > 200000, "generalManager")
                       \cup Kept("it" \in r.conditions, "it")
                       \cup Kept(r.amount > 1000000 \/ "majorProject" \in r.conditions, "committee")
BY DEF Policy!FurtherApprovers, Kept

\* A journey is also reviewed by finance when due, and so is every reimbursement.
LEMMA FurtherOfTravel ==
    ASSUME NEW r, r.type = "travel"
    PROVE  /\ "claim" \notin r.conditions
                => Policy!FurtherApprovers(r) = Kept(TravelReviewed(r), "finance")
           /\ "claim" \in r.conditions => Policy!FurtherApprovers(r) = {"finance"}
<1>1. {"overStandard", "overseas", "advance"} \cap r.conditions
        = r.conditions \cap {"overStandard", "overseas", "advance"}
  OBVIOUS
<1>2. Policy!FurtherApprovers(r) = Kept("claim" \in r.conditions \/ TravelReviewed(r), "finance")
  BY <1>1 DEF Policy!FurtherApprovers, Kept, TravelReviewed
<1> QED BY <1>2 DEF Kept

\* A large expense is also approved by the general manager.
LEMMA FurtherOfExpense ==
    ASSUME NEW r, r.type = "expense"
    PROVE  Policy!FurtherApprovers(r) = Kept(r.amount > 100000, "generalManager")
BY DEF Policy!FurtherApprovers, Kept

\* A leave is also reviewed by human resources when due, and approved by the manager if long.
LEMMA FurtherOfLeave ==
    ASSUME NEW r, r.type = "leave"
    PROVE  Policy!FurtherApprovers(r) = Kept(LeaveReviewed(r), "humanResources")
                                        \cup Kept(r.leaveDays > 30, "generalManager")
<1>1. {"balanceDisputed", "materialsConflict"} \cap r.conditions
        = r.conditions \cap {"balanceDisputed", "materialsConflict"}
  OBVIOUS
<1> QED BY <1>1 DEF Policy!FurtherApprovers, Kept, LeaveReviewed

-----------------------------------------------------------------------------
(* Every route follows the tier its claim is in.                            *)

\* Whom a route asks, in its order.
Approvers(steps) == [i \in DOMAIN steps |-> steps[i].approver]

\* A route of just the people a tier asks for follows the policy.
LEMMA RouteOfTier ==
    ASSUME NEW r, NEW steps, NEW low, NEW high, NEW people, Route(steps, low, high, people),
           NEW listed, Policy!TierOf(r).listed = listed, NEW asked, Listing(listed, asked),
           people = asked \cup Policy!FurtherApprovers(r)
    PROVE  Policy!Follows(r, Approvers(steps))
BY RouteFollows DEF Approvers

\* The steps of a travel reimbursement.
ClaimSteps == <<Step("directManager", "approve"), Step("departmentHead", "approve"), Step("finance", "review")>>

\* A pair and one more make three.
LEMMA JoinedThree == ASSUME NEW x, NEW y, NEW z PROVE <<x, y>> \o <<z>> = <<x, y, z>>
<1> DEFINE S == {x, y, z}
           u == <<x, y>> \o <<z>>
           v == <<x, y, z>>
<1>1. <<x, y>> \in Seq(S) /\ <<z>> \in Seq(S) /\ Len(<<x, y>>) = 2 /\ Len(<<z>>) = 1
  OBVIOUS
<1>2. u \in Seq(S) /\ Len(u) = 3 /\ u[1] = x /\ u[2] = y /\ u[3] = z
  BY <1>1
<1>3. v \in Seq(S) /\ Len(v) = 3 /\ v[1] = x /\ v[2] = y /\ v[3] = z
  OBVIOUS
<1>4. \A i \in 1..3 : i = 1 \/ i = 2 \/ i = 3
  OBVIOUS
<1> HIDE DEF S, u, v
<1>5. u = v
  BY <1>2, <1>3, <1>4, SeqEqual
<1> QED BY <1>5 DEF u, v

\* The route of a travel reimbursement.
LEMMA ClaimRoute == Route(ClaimSteps, 1, 5, {"directManager", "departmentHead", "finance"})
<1> DEFINE s == <<Step("directManager", "approve"), Step("departmentHead", "approve")>>
           t == <<Step("finance", "review")>>
<1>1. Route(s, 1, 2, {"directManager", "departmentHead"})
  <2>1. Turn["directManager"] < Turn["departmentHead"]
    BY PeopleRanked
  <2> QED BY <2>1, TwoSteps, PeopleRanked
<1>2. Route(t, 5, 5, {"finance"})
  BY OneStep, PeopleRanked
<1>3. Route(s \o t, 1, 5, {"directManager", "departmentHead"} \cup {"finance"})
  <2> HIDE DEF s, t
  <2> QED BY <1>1, <1>2, RoutesJoin
<1>4. s \o t = ClaimSteps
  BY JoinedThree DEF ClaimSteps
<1>5. {"directManager", "departmentHead"} \cup {"finance"} = {"directManager", "departmentHead", "finance"}
  OBVIOUS
<1> HIDE DEF s, t
<1> QED BY <1>3, <1>4, <1>5

\* The checker's levels of purchases are the tiers of the policy.
LEMMA PurchaseFollows ==
    ASSUME NEW r, r.type = "purchase", r.amount \in Int, "emergency" \notin r.conditions
    PROVE  /\ Policy!Follows(r, Approvers(PurchaseSteps(r)))
           /\ Policy!TierOf(r).article = PurchaseLevel(r.amount).article
<1> DEFINE
      review == Kept("it" \in r.conditions, "it")
      committee == Kept(r.amount > 1000000 \/ "majorProject" \in r.conditions, "committee")
      people == {"directManager"}
                \cup Kept(r.amount > 5000, "departmentHead")
                \cup review
                \cup Kept(r.amount > 5000, "procurement")
                \cup Kept(r.amount > 50000, "finance")
                \cup Kept(r.amount > 50000, "vicePresident")
                \cup Kept(r.amount > 200000, "generalManager")
                \cup committee
<1>1. Policy!FurtherApprovers(r) = review \cup committee
  BY FurtherOfPurchase
<1>2. Route(PurchaseSteps(r), 1, 9, people)
  BY PurchaseRoute
<1>3. Policy!TierOf(r) = Policy!PurchaseTier(r.amount)
  BY DEF Policy!TierOf
<1> HIDE DEF review, committee
<1>4. CASE r.amount <= 5000
  <2>1. ~(r.amount > 5000 /\ r.amount <= 50000) /\ ~(r.amount > 50000 /\ r.amount <= 200000) /\ ~(r.amount > 200000)
    BY <1>4
  <2>2. Policy!TierOf(r) = Policy!Tier("procurement.11", <<"directManager">>)
    BY SMT, <1>3, <1>4, <2>1 DEF Policy!PurchaseTier
  <2>3. PurchaseLevel(r.amount).article = "procurement.11"
    BY SMT, <1>4, <2>1 DEF PurchaseLevel
  <2>4. Policy!TierOf(r).listed = <<"directManager">> /\ Policy!TierOf(r).article = "procurement.11"
    BY <2>2 DEF Policy!Tier
  <2>5. /\ Kept(r.amount > 5000, "departmentHead") = {}
        /\ Kept(r.amount > 5000, "procurement") = {}
        /\ Kept(r.amount > 50000, "finance") = {}
        /\ Kept(r.amount > 50000, "vicePresident") = {}
        /\ Kept(r.amount > 200000, "generalManager") = {}
    BY SMT, <1>4 DEF Kept
  <2>6. people = {"directManager"} \cup Policy!FurtherApprovers(r)
    BY SMT, <1>1, <2>5
  <2> HIDE DEF people
  <2>7. Policy!Follows(r, Approvers(PurchaseSteps(r)))
    BY <1>2, <2>4, <2>6, Listings, RouteOfTier
  <2> QED BY <2>7, <2>4, <2>3
<1>5. CASE r.amount > 5000 /\ r.amount <= 50000
  <2>1. ~(r.amount <= 5000) /\ ~(r.amount > 50000 /\ r.amount <= 200000) /\ ~(r.amount > 200000)
    BY <1>5
  <2>2. Policy!TierOf(r) = Policy!Tier("procurement.12", <<"directManager", "departmentHead", "procurement">>)
    BY SMT, <1>3, <1>5, <2>1 DEF Policy!PurchaseTier
  <2>3. PurchaseLevel(r.amount).article = "procurement.12"
    BY SMT, <1>5, <2>1 DEF PurchaseLevel
  <2>4. Policy!TierOf(r).listed = <<"directManager", "departmentHead", "procurement">> /\ Policy!TierOf(r).article = "procurement.12"
    BY <2>2 DEF Policy!Tier
  <2>5. /\ Kept(r.amount > 5000, "departmentHead") = {"departmentHead"}
        /\ Kept(r.amount > 5000, "procurement") = {"procurement"}
        /\ Kept(r.amount > 50000, "finance") = {}
        /\ Kept(r.amount > 50000, "vicePresident") = {}
        /\ Kept(r.amount > 200000, "generalManager") = {}
    BY SMT, <1>5 DEF Kept
  <2>6. people = {"directManager", "departmentHead", "procurement"} \cup Policy!FurtherApprovers(r)
    BY SMT, <1>1, <2>5
  <2> HIDE DEF people
  <2>7. Policy!Follows(r, Approvers(PurchaseSteps(r)))
    BY <1>2, <2>4, <2>6, Listings, RouteOfTier
  <2> QED BY <2>7, <2>4, <2>3
<1>6. CASE r.amount > 50000 /\ r.amount <= 200000
  <2>1. ~(r.amount <= 5000) /\ ~(r.amount > 5000 /\ r.amount <= 50000) /\ ~(r.amount > 200000)
    BY <1>6
  <2>2. Policy!TierOf(r) = Policy!Tier("procurement.13", <<"directManager", "departmentHead", "procurement", "finance", "vicePresident">>)
    BY SMT, <1>3, <1>6, <2>1 DEF Policy!PurchaseTier
  <2>3. PurchaseLevel(r.amount).article = "procurement.13"
    BY SMT, <1>6, <2>1 DEF PurchaseLevel
  <2>4. Policy!TierOf(r).listed = <<"directManager", "departmentHead", "procurement", "finance", "vicePresident">> /\ Policy!TierOf(r).article = "procurement.13"
    BY <2>2 DEF Policy!Tier
  <2>5. /\ Kept(r.amount > 5000, "departmentHead") = {"departmentHead"}
        /\ Kept(r.amount > 5000, "procurement") = {"procurement"}
        /\ Kept(r.amount > 50000, "finance") = {"finance"}
        /\ Kept(r.amount > 50000, "vicePresident") = {"vicePresident"}
        /\ Kept(r.amount > 200000, "generalManager") = {}
    BY SMT, <1>6 DEF Kept
  <2>6. people = {"directManager", "departmentHead", "procurement", "finance", "vicePresident"} \cup Policy!FurtherApprovers(r)
    BY SMT, <1>1, <2>5
  <2> HIDE DEF people
  <2>7. Policy!Follows(r, Approvers(PurchaseSteps(r)))
    BY <1>2, <2>4, <2>6, Listings, RouteOfTier
  <2> QED BY <2>7, <2>4, <2>3
<1>7. CASE r.amount > 200000
  <2>1. ~(r.amount <= 5000) /\ ~(r.amount > 5000 /\ r.amount <= 50000) /\ ~(r.amount > 50000 /\ r.amount <= 200000)
    BY <1>7
  <2>2. Policy!TierOf(r) = Policy!Tier("procurement.14", <<"directManager", "departmentHead", "procurement", "finance", "vicePresident", "generalManager">>)
    BY SMT, <1>3, <1>7, <2>1 DEF Policy!PurchaseTier
  <2>3. PurchaseLevel(r.amount).article = "procurement.14"
    BY SMT, <1>7, <2>1 DEF PurchaseLevel
  <2>4. Policy!TierOf(r).listed = <<"directManager", "departmentHead", "procurement", "finance", "vicePresident", "generalManager">> /\ Policy!TierOf(r).article = "procurement.14"
    BY <2>2 DEF Policy!Tier
  <2>5. /\ Kept(r.amount > 5000, "departmentHead") = {"departmentHead"}
        /\ Kept(r.amount > 5000, "procurement") = {"procurement"}
        /\ Kept(r.amount > 50000, "finance") = {"finance"}
        /\ Kept(r.amount > 50000, "vicePresident") = {"vicePresident"}
        /\ Kept(r.amount > 200000, "generalManager") = {"generalManager"}
    BY SMT, <1>7 DEF Kept
  <2>6. people = {"directManager", "departmentHead", "procurement", "finance", "vicePresident", "generalManager"} \cup Policy!FurtherApprovers(r)
    BY SMT, <1>1, <2>5
  <2> HIDE DEF people
  <2>7. Policy!Follows(r, Approvers(PurchaseSteps(r)))
    BY <1>2, <2>4, <2>6, Listings, RouteOfTier
  <2> QED BY <2>7, <2>4, <2>3
<1> QED BY <1>4, <1>5, <1>6, <1>7

\* The checker's levels of journeys are the tiers of the policy.
LEMMA TravelFollows ==
    ASSUME NEW r, r.type = "travel", r.amount \in Int, "claim" \notin r.conditions
    PROVE  /\ Policy!Follows(r, Approvers(TravelSteps(r)))
           /\ Policy!TierOf(r).article = "travel.5"
<1> DEFINE
      review == Kept(TravelReviewed(r), "finance")
      people == {"directManager"}
                \cup Kept(r.amount > 5000, "departmentHead")
                \cup review
                \cup Kept(r.amount > 20000, "vicePresident")
<1>1. Policy!FurtherApprovers(r) = review
  BY FurtherOfTravel
<1>2. Route(TravelSteps(r), 1, 7, people)
  BY TravelRoute
<1>3. Policy!TierOf(r) = Policy!TravelTier(r.amount)
  BY DEF Policy!TierOf
<1> HIDE DEF review
<1>4. CASE r.amount <= 5000
  <2>1. ~(r.amount > 5000 /\ r.amount <= 20000) /\ ~(r.amount > 20000)
    BY <1>4
  <2>2. Policy!TierOf(r) = Policy!Tier("travel.5", <<"directManager">>)
    BY SMT, <1>3, <1>4, <2>1 DEF Policy!TravelTier
  <2>3. Policy!TierOf(r).listed = <<"directManager">> /\ Policy!TierOf(r).article = "travel.5"
    BY <2>2 DEF Policy!Tier
  <2>4. /\ Kept(r.amount > 5000, "departmentHead") = {}
        /\ Kept(r.amount > 20000, "vicePresident") = {}
    BY SMT, <1>4 DEF Kept
  <2>5. people = {"directManager"} \cup Policy!FurtherApprovers(r)
    BY SMT, <1>1, <2>4
  <2> HIDE DEF people
  <2>6. Policy!Follows(r, Approvers(TravelSteps(r)))
    BY <1>2, <2>3, <2>5, Listings, RouteOfTier
  <2> QED BY <2>6, <2>3
<1>5. CASE r.amount > 5000 /\ r.amount <= 20000
  <2>1. ~(r.amount <= 5000) /\ ~(r.amount > 20000)
    BY <1>5
  <2>2. Policy!TierOf(r) = Policy!Tier("travel.5", <<"directManager", "departmentHead">>)
    BY SMT, <1>3, <1>5, <2>1 DEF Policy!TravelTier
  <2>3. Policy!TierOf(r).listed = <<"directManager", "departmentHead">> /\ Policy!TierOf(r).article = "travel.5"
    BY <2>2 DEF Policy!Tier
  <2>4. /\ Kept(r.amount > 5000, "departmentHead") = {"departmentHead"}
        /\ Kept(r.amount > 20000, "vicePresident") = {}
    BY SMT, <1>5 DEF Kept
  <2>5. people = {"directManager", "departmentHead"} \cup Policy!FurtherApprovers(r)
    BY SMT, <1>1, <2>4
  <2> HIDE DEF people
  <2>6. Policy!Follows(r, Approvers(TravelSteps(r)))
    BY <1>2, <2>3, <2>5, Listings, RouteOfTier
  <2> QED BY <2>6, <2>3
<1>6. CASE r.amount > 20000
  <2>1. ~(r.amount <= 5000) /\ ~(r.amount > 5000 /\ r.amount <= 20000)
    BY <1>6
  <2>2. Policy!TierOf(r) = Policy!Tier("travel.5", <<"directManager", "departmentHead", "vicePresident">>)
    BY SMT, <1>3, <1>6, <2>1 DEF Policy!TravelTier
  <2>3. Policy!TierOf(r).listed = <<"directManager", "departmentHead", "vicePresident">> /\ Policy!TierOf(r).article = "travel.5"
    BY <2>2 DEF Policy!Tier
  <2>4. /\ Kept(r.amount > 5000, "departmentHead") = {"departmentHead"}
        /\ Kept(r.amount > 20000, "vicePresident") = {"vicePresident"}
    BY SMT, <1>6 DEF Kept
  <2>5. people = {"directManager", "departmentHead", "vicePresident"} \cup Policy!FurtherApprovers(r)
    BY SMT, <1>1, <2>4
  <2> HIDE DEF people
  <2>6. Policy!Follows(r, Approvers(TravelSteps(r)))
    BY <1>2, <2>3, <2>5, Listings, RouteOfTier
  <2> QED BY <2>6, <2>3
<1> QED BY <1>4, <1>5, <1>6

\* The checker's levels of expenses are the tiers of the policy.
LEMMA ExpenseFollows ==
    ASSUME NEW r, r.type = "expense", r.amount \in Int
    PROVE  /\ Policy!Follows(r, Approvers(ExpenseSteps(r)))
           /\ Policy!TierOf(r).article = ExpenseLevel(r.amount).article
<1> DEFINE
      largest == Kept(r.amount > 100000, "generalManager")
      people == {"directManager"}
                \cup Kept(r.amount > 1000, "departmentHead")
                \cup {"finance"}
                \cup Kept(r.amount > 20000, "vicePresident")
                \cup largest
<1>1. Policy!FurtherApprovers(r) = largest
  BY FurtherOfExpense
<1>2. Route(ExpenseSteps(r), 1, 8, people)
  BY ExpenseRoute
<1>3. Policy!TierOf(r) = Policy!ExpenseTier(r.amount)
  BY DEF Policy!TierOf
<1> HIDE DEF largest
<1>4. CASE r.amount <= 1000
  <2>1. ~(r.amount > 1000 /\ r.amount <= 5000) /\ ~(r.amount > 5000 /\ r.amount <= 20000) /\ ~(r.amount > 20000)
    BY <1>4
  <2>2. Policy!TierOf(r) = Policy!Tier("expense.21", <<"directManager", "finance">>)
    BY SMT, <1>3, <1>4, <2>1 DEF Policy!ExpenseTier
  <2>3. ExpenseLevel(r.amount).article = "expense.21"
    BY SMT, <1>4, <2>1 DEF ExpenseLevel
  <2>4. Policy!TierOf(r).listed = <<"directManager", "finance">> /\ Policy!TierOf(r).article = "expense.21"
    BY <2>2 DEF Policy!Tier
  <2>5. /\ Kept(r.amount > 1000, "departmentHead") = {}
        /\ Kept(r.amount > 20000, "vicePresident") = {}
    BY SMT, <1>4 DEF Kept
  <2>6. people = {"directManager", "finance"} \cup Policy!FurtherApprovers(r)
    BY SMT, <1>1, <2>5
  <2> HIDE DEF people
  <2>7. Policy!Follows(r, Approvers(ExpenseSteps(r)))
    BY <1>2, <2>4, <2>6, Listings, RouteOfTier
  <2> QED BY <2>7, <2>4, <2>3
<1>5. CASE r.amount > 1000 /\ r.amount <= 5000
  <2>1. ~(r.amount <= 1000) /\ ~(r.amount > 5000 /\ r.amount <= 20000) /\ ~(r.amount > 20000)
    BY <1>5
  <2>2. Policy!TierOf(r) = Policy!Tier("expense.22", <<"directManager", "departmentHead", "finance">>)
    BY SMT, <1>3, <1>5, <2>1 DEF Policy!ExpenseTier
  <2>3. ExpenseLevel(r.amount).article = "expense.22"
    BY SMT, <1>5, <2>1 DEF ExpenseLevel
  <2>4. Policy!TierOf(r).listed = <<"directManager", "departmentHead", "finance">> /\ Policy!TierOf(r).article = "expense.22"
    BY <2>2 DEF Policy!Tier
  <2>5. /\ Kept(r.amount > 1000, "departmentHead") = {"departmentHead"}
        /\ Kept(r.amount > 20000, "vicePresident") = {}
    BY SMT, <1>5 DEF Kept
  <2>6. people = {"directManager", "departmentHead", "finance"} \cup Policy!FurtherApprovers(r)
    BY SMT, <1>1, <2>5
  <2> HIDE DEF people
  <2>7. Policy!Follows(r, Approvers(ExpenseSteps(r)))
    BY <1>2, <2>4, <2>6, Listings, RouteOfTier
  <2> QED BY <2>7, <2>4, <2>3
<1>6. CASE r.amount > 5000 /\ r.amount <= 20000
  <2>1. ~(r.amount <= 1000) /\ ~(r.amount > 1000 /\ r.amount <= 5000) /\ ~(r.amount > 20000)
    BY <1>6
  <2>2. Policy!TierOf(r) = Policy!Tier("expense.23", <<"directManager", "departmentHead", "finance">>)
    BY SMT, <1>3, <1>6, <2>1 DEF Policy!ExpenseTier
  <2>3. ExpenseLevel(r.amount).article = "expense.23"
    BY SMT, <1>6, <2>1 DEF ExpenseLevel
  <2>4. Policy!TierOf(r).listed = <<"directManager", "departmentHead", "finance">> /\ Policy!TierOf(r).article = "expense.23"
    BY <2>2 DEF Policy!Tier
  <2>5. /\ Kept(r.amount > 1000, "departmentHead") = {"departmentHead"}
        /\ Kept(r.amount > 20000, "vicePresident") = {}
    BY SMT, <1>6 DEF Kept
  <2>6. people = {"directManager", "departmentHead", "finance"} \cup Policy!FurtherApprovers(r)
    BY SMT, <1>1, <2>5
  <2> HIDE DEF people
  <2>7. Policy!Follows(r, Approvers(ExpenseSteps(r)))
    BY <1>2, <2>4, <2>6, Listings, RouteOfTier
  <2> QED BY <2>7, <2>4, <2>3
<1>7. CASE r.amount > 20000
  <2>1. ~(r.amount <= 1000) /\ ~(r.amount > 1000 /\ r.amount <= 5000) /\ ~(r.amount > 5000 /\ r.amount <= 20000)
    BY <1>7
  <2>2. Policy!TierOf(r) = Policy!Tier("expense.24", <<"directManager", "departmentHead", "finance", "vicePresident">>)
    BY SMT, <1>3, <1>7, <2>1 DEF Policy!ExpenseTier
  <2>3. ExpenseLevel(r.amount).article = "expense.24"
    BY SMT, <1>7, <2>1 DEF ExpenseLevel
  <2>4. Policy!TierOf(r).listed = <<"directManager", "departmentHead", "finance", "vicePresident">> /\ Policy!TierOf(r).article = "expense.24"
    BY <2>2 DEF Policy!Tier
  <2>5. /\ Kept(r.amount > 1000, "departmentHead") = {"departmentHead"}
        /\ Kept(r.amount > 20000, "vicePresident") = {"vicePresident"}
    BY SMT, <1>7 DEF Kept
  <2>6. people = {"directManager", "departmentHead", "finance", "vicePresident"} \cup Policy!FurtherApprovers(r)
    BY SMT, <1>1, <2>5
  <2> HIDE DEF people
  <2>7. Policy!Follows(r, Approvers(ExpenseSteps(r)))
    BY <1>2, <2>4, <2>6, Listings, RouteOfTier
  <2> QED BY <2>7, <2>4, <2>3
<1> QED BY <1>4, <1>5, <1>6, <1>7

\* The checker's levels of leave are the tiers of the policy.
LEMMA LeaveFollows ==
    ASSUME NEW r, r.type = "leave", r.leaveDays \in Int, "departmentHead" \notin r.conditions
    PROVE  /\ Policy!Follows(r, Approvers(LeaveSteps(r)))
           /\ Policy!TierOf(r).article = IF LeaveLevel(r.leaveDays) = "longTerm" THEN "leave.21" ELSE "leave.20"
<1> DEFINE
      review == Kept(LeaveReviewed(r), "humanResources")
      longest == Kept(r.leaveDays > 30, "generalManager")
      people == {"directManager"}
                \cup Kept(r.leaveDays > 2, "departmentHead")
                \cup review
                \cup Kept(r.leaveDays > 10, "vicePresident")
                \cup longest
<1>1. Policy!FurtherApprovers(r) = review \cup longest
  BY FurtherOfLeave
<1>2. Route(LeaveSteps(r), 1, 8, people)
  BY LeaveRoute
<1>3. Policy!TierOf(r) = Policy!LeaveTier(r.leaveDays)
  BY DEF Policy!TierOf
<1>0. r.leaveDays > 6 => review = {"humanResources"}
  BY SMT DEF Kept, LeaveReviewed
<1> HIDE DEF review, longest
<1>4. CASE r.leaveDays <= 2
  <2>1. ~(r.leaveDays > 2 /\ r.leaveDays <= 6) /\ ~(r.leaveDays > 6 /\ r.leaveDays <= 10) /\ ~(r.leaveDays > 10)
    BY <1>4
  <2>2. Policy!TierOf(r) = Policy!Tier("leave.20", <<"directManager">>)
    BY SMT, <1>3, <1>4, <2>1 DEF Policy!LeaveTier
  <2>3. (IF LeaveLevel(r.leaveDays) = "longTerm" THEN "leave.21" ELSE "leave.20") = "leave.20"
    BY SMT, <1>4, <2>1 DEF LeaveLevel
  <2>4. Policy!TierOf(r).listed = <<"directManager">> /\ Policy!TierOf(r).article = "leave.20"
    BY <2>2 DEF Policy!Tier
  <2>5. /\ Kept(r.leaveDays > 2, "departmentHead") = {}
        /\ Kept(r.leaveDays > 10, "vicePresident") = {}
    BY SMT, <1>4, <1>0 DEF Kept
  <2>6. people = {"directManager"} \cup Policy!FurtherApprovers(r)
    BY SMT, <1>1, <2>5
  <2> HIDE DEF people
  <2>7. Policy!Follows(r, Approvers(LeaveSteps(r)))
    BY <1>2, <2>4, <2>6, Listings, RouteOfTier
  <2> QED BY <2>7, <2>4, <2>3
<1>5. CASE r.leaveDays > 2 /\ r.leaveDays <= 6
  <2>1. ~(r.leaveDays <= 2) /\ ~(r.leaveDays > 6 /\ r.leaveDays <= 10) /\ ~(r.leaveDays > 10)
    BY <1>5
  <2>2. Policy!TierOf(r) = Policy!Tier("leave.20", <<"directManager", "departmentHead">>)
    BY SMT, <1>3, <1>5, <2>1 DEF Policy!LeaveTier
  <2>3. (IF LeaveLevel(r.leaveDays) = "longTerm" THEN "leave.21" ELSE "leave.20") = "leave.20"
    BY SMT, <1>5, <2>1 DEF LeaveLevel
  <2>4. Policy!TierOf(r).listed = <<"directManager", "departmentHead">> /\ Policy!TierOf(r).article = "leave.20"
    BY <2>2 DEF Policy!Tier
  <2>5. /\ Kept(r.leaveDays > 2, "departmentHead") = {"departmentHead"}
        /\ Kept(r.leaveDays > 10, "vicePresident") = {}
    BY SMT, <1>5, <1>0 DEF Kept
  <2>6. people = {"directManager", "departmentHead"} \cup Policy!FurtherApprovers(r)
    BY SMT, <1>1, <2>5
  <2> HIDE DEF people
  <2>7. Policy!Follows(r, Approvers(LeaveSteps(r)))
    BY <1>2, <2>4, <2>6, Listings, RouteOfTier
  <2> QED BY <2>7, <2>4, <2>3
<1>6. CASE r.leaveDays > 6 /\ r.leaveDays <= 10
  <2>1. ~(r.leaveDays <= 2) /\ ~(r.leaveDays > 2 /\ r.leaveDays <= 6) /\ ~(r.leaveDays > 10)
    BY <1>6
  <2>2. Policy!TierOf(r) = Policy!Tier("leave.20", <<"directManager", "departmentHead", "humanResources">>)
    BY SMT, <1>3, <1>6, <2>1 DEF Policy!LeaveTier
  <2>3. (IF LeaveLevel(r.leaveDays) = "longTerm" THEN "leave.21" ELSE "leave.20") = "leave.20"
    BY SMT, <1>6, <2>1 DEF LeaveLevel
  <2>4. Policy!TierOf(r).listed = <<"directManager", "departmentHead", "humanResources">> /\ Policy!TierOf(r).article = "leave.20"
    BY <2>2 DEF Policy!Tier
  <2>5. /\ Kept(r.leaveDays > 2, "departmentHead") = {"departmentHead"}
        /\ Kept(r.leaveDays > 10, "vicePresident") = {}
        /\ review = {"humanResources"}
    BY SMT, <1>6, <1>0 DEF Kept
  <2>6. people = {"directManager", "departmentHead", "humanResources"} \cup Policy!FurtherApprovers(r)
    BY SMT, <1>1, <2>5
  <2> HIDE DEF people
  <2>7. Policy!Follows(r, Approvers(LeaveSteps(r)))
    BY <1>2, <2>4, <2>6, Listings, RouteOfTier
  <2> QED BY <2>7, <2>4, <2>3
<1>7. CASE r.leaveDays > 10
  <2>1. ~(r.leaveDays <= 2) /\ ~(r.leaveDays > 2 /\ r.leaveDays <= 6) /\ ~(r.leaveDays > 6 /\ r.leaveDays <= 10)
    BY <1>7
  <2>2. Policy!TierOf(r) = Policy!Tier("leave.21", <<"directManager", "departmentHead", "humanResources", "vicePresident">>)
    BY SMT, <1>3, <1>7, <2>1 DEF Policy!LeaveTier
  <2>3. (IF LeaveLevel(r.leaveDays) = "longTerm" THEN "leave.21" ELSE "leave.20") = "leave.21"
    BY SMT, <1>7, <2>1 DEF LeaveLevel
  <2>4. Policy!TierOf(r).listed = <<"directManager", "departmentHead", "humanResources", "vicePresident">> /\ Policy!TierOf(r).article = "leave.21"
    BY <2>2 DEF Policy!Tier
  <2>5. /\ Kept(r.leaveDays > 2, "departmentHead") = {"departmentHead"}
        /\ Kept(r.leaveDays > 10, "vicePresident") = {"vicePresident"}
        /\ review = {"humanResources"}
    BY SMT, <1>7, <1>0 DEF Kept
  <2>6. people = {"directManager", "departmentHead", "humanResources", "vicePresident"} \cup Policy!FurtherApprovers(r)
    BY SMT, <1>1, <2>5
  <2> HIDE DEF people
  <2>7. Policy!Follows(r, Approvers(LeaveSteps(r)))
    BY <1>2, <2>4, <2>6, Listings, RouteOfTier
  <2> QED BY <2>7, <2>4, <2>3
<1> QED BY <1>4, <1>5, <1>6, <1>7

\* The emergency route is the one the policy gives it, whatever the amount.
LEMMA EmergencyFollows ==
    ASSUME NEW r, r.type = "purchase", "emergency" \in r.conditions
    PROVE  /\ Policy!Follows(r, Approvers(EmergencySteps(r)))
           /\ Policy!TierOf(r).article = "procurement.31"
<1> DEFINE people == {"departmentHead"} \cup Kept("it" \in r.conditions, "it") \cup {"procurement", "finance"}
                      \cup Kept(r.amount > 50000, "vicePresident") \cup Kept(r.amount > 200000, "generalManager")
                      \cup Kept(r.amount > 1000000 \/ "majorProject" \in r.conditions, "committee")
<1>1. PICK low, high : Route(EmergencySteps(r), low, high, people)
  BY EmergencyRoute
<1>2. Policy!TierOf(r) = Policy!Tier("procurement.31", <<>>)
  BY SMT DEF Policy!TierOf
<1>3. Policy!TierOf(r).listed = <<>> /\ Policy!TierOf(r).article = "procurement.31"
  BY SMT, <1>2 DEF Policy!Tier
<1>4. people = {} \cup Policy!FurtherApprovers(r)
  BY SMT, FurtherOfPurchase
<1> HIDE DEF people
<1>5. Policy!Follows(r, Approvers(EmergencySteps(r)))
  BY <1>1, <1>3, <1>4, Listings, RouteOfTier
<1> QED BY <1>3, <1>5

\* The route of a department head's leave is the one the policy gives it.
LEMMA HeadLeaveFollows ==
    ASSUME NEW r, r.type = "leave", "departmentHead" \in r.conditions
    PROVE  /\ Policy!Follows(r, Approvers(HeadLeaveSteps(r)))
           /\ Policy!TierOf(r).article = "leave.22"
<1> DEFINE people == Kept(LeaveReviewed(r), "humanResources") \cup {"vicePresident"}
                      \cup Kept(r.leaveDays > 30, "generalManager")
<1>1. PICK low, high : Route(HeadLeaveSteps(r), low, high, people)
  BY HeadLeaveRoute
<1>2. Policy!TierOf(r) = Policy!Tier("leave.22", <<"vicePresident">>)
  BY SMT DEF Policy!TierOf
<1>3. Policy!TierOf(r).listed = <<"vicePresident">> /\ Policy!TierOf(r).article = "leave.22"
  BY SMT, <1>2 DEF Policy!Tier
<1>4. people = {"vicePresident"} \cup Policy!FurtherApprovers(r)
  BY SMT, FurtherOfLeave
<1> HIDE DEF people
<1>5. Policy!Follows(r, Approvers(HeadLeaveSteps(r)))
  BY <1>1, <1>3, <1>4, Listings, RouteOfTier
<1> QED BY <1>3, <1>5

\* The route of a travel reimbursement is the one the policy gives it.
LEMMA ClaimFollows ==
    ASSUME NEW r, r.type = "travel", "claim" \in r.conditions
    PROVE  /\ Policy!Follows(r, Approvers(ClaimSteps))
           /\ Policy!TierOf(r).article = "travel.20"
<1> DEFINE people == {"directManager", "departmentHead", "finance"}
<1>1. PICK low, high : Route(ClaimSteps, low, high, people)
  BY ClaimRoute
<1>2. Policy!TierOf(r) = Policy!Tier("travel.20", <<"directManager", "departmentHead", "finance">>)
  BY SMT DEF Policy!TierOf
<1>3. Policy!TierOf(r).listed = <<"directManager", "departmentHead", "finance">> /\ Policy!TierOf(r).article = "travel.20"
  BY SMT, <1>2 DEF Policy!Tier
<1>4. people = {"directManager", "departmentHead", "finance"} \cup Policy!FurtherApprovers(r)
  BY SMT, FurtherOfTravel
<1> HIDE DEF people
<1>5. Policy!Follows(r, Approvers(ClaimSteps))
  BY <1>1, <1>3, <1>4, Listings, RouteOfTier
<1> QED BY <1>3, <1>5

-----------------------------------------------------------------------------
(* The decision of the checker against the policy.                          *)

\* Every decision without a question follows the policy and cites its article.
LEMMA DecisionFollows ==
    ASSUME NEW r, Resolves(r), DecisionFor(r).question = None
    PROVE  AsThePolicySays(r, DecisionFor(r))
<1>0. r.amount \in Int \cup {None} /\ r.leaveDays \in Int \cup {None}
  BY DEF Resolves, Number
<1>1. /\ \A t, a : NoAnswer(t, "amount", a).question # None /\ NoAnswer(t, "days", a).question # None
                   /\ NoAnswer(t, "type", a).question # None
      /\ \A t, l, s, a : Answer(t, l, s, a).steps = s /\ Answer(t, l, s, a).articles = a
  BY TextAssumption DEF NoAnswer, Answer
<1>2. ASSUME NEW steps, DecisionFor(r).steps = steps, Policy!Follows(r, Approvers(steps)),
             Policy!TierOf(r).article \in DecisionFor(r).articles
      PROVE  AsThePolicySays(r, DecisionFor(r))
  BY <1>2 DEF AsThePolicySays, Approvers
<1>3. CASE r.type = "purchase"
  <2>1. DecisionFor(r) = PurchaseDecision(r)
    BY <1>3, Zenon DEF DecisionFor
  <2>2. r.amount # None
    <3>1. SUFFICES ASSUME r.amount = None PROVE FALSE
      OBVIOUS
    <3>2. PICK a : PurchaseDecision(r) = NoAnswer("purchase", "amount", a)
      BY <3>1, SMT DEF PurchaseDecision
    <3> QED BY <2>1, <3>2, <1>1
  <2>3. CASE "emergency" \in r.conditions
    <3> DEFINE it == {a \in {"procurement.7"} : "it" \in r.conditions}
               committee == {a \in {"procurement.14"} : r.amount > 1000000 \/ "majorProject" \in r.conditions}
    <3>1. PurchaseDecision(r) = Answer("purchase", "emergency", EmergencySteps(r),
                                       {"procurement.31"} \cup it \cup committee)
      BY <2>2, <2>3, SMT DEF PurchaseDecision
    <3> HIDE DEF it, committee
    <3>2. Policy!Follows(r, Approvers(EmergencySteps(r))) /\ Policy!TierOf(r).article = "procurement.31"
      BY <1>3, <2>3, EmergencyFollows
    <3> QED BY <3>1, <3>2, <2>1, <1>1, <1>2
  <2>4. CASE "emergency" \notin r.conditions
    <3> DEFINE it == {a \in {"procurement.7"} : "it" \in r.conditions}
    <3>1. PurchaseDecision(r) = Answer("purchase", PurchaseLevel(r.amount).level, PurchaseSteps(r),
                                       {PurchaseLevel(r.amount).article} \cup it)
      BY <2>2, <2>4, SMT DEF PurchaseDecision
    <3> HIDE DEF it
    <3>2. Policy!Follows(r, Approvers(PurchaseSteps(r)))
          /\ Policy!TierOf(r).article = PurchaseLevel(r.amount).article
      BY <1>3, <2>4, <2>2, <1>0, PurchaseFollows
    <3>8. DecisionFor(r).steps = PurchaseSteps(r) /\ Policy!TierOf(r).article \in DecisionFor(r).articles
      BY <3>1, <3>2, <2>1, <1>1
    <3> QED BY <3>8, <3>2, <1>2
  <2> QED BY <2>3, <2>4
<1>4. CASE r.type = "travel"
  <2>1. DecisionFor(r) = TravelDecision(r)
    BY <1>4, Zenon DEF DecisionFor
  <2>2. CASE "claim" \in r.conditions
    <3>1. TravelDecision(r) = Answer("travel", "reimbursement", ClaimSteps, {"travel.20"})
      BY <2>2, SMT DEF TravelDecision, ClaimSteps
    <3>2. Policy!Follows(r, Approvers(ClaimSteps)) /\ Policy!TierOf(r).article = "travel.20"
      BY <1>4, <2>2, ClaimFollows
    <3> QED BY <3>1, <3>2, <2>1, <1>1, <1>2
  <2>3. CASE "claim" \notin r.conditions
    <3>1. r.amount # None
      <4>1. SUFFICES ASSUME r.amount = None PROVE FALSE
        OBVIOUS
      <4>2. PICK a : TravelDecision(r) = NoAnswer("travel", "amount", a)
        BY <4>1, <2>3, SMT DEF TravelDecision
      <4> QED BY <2>1, <4>2, <1>1
    <3> DEFINE level == IF r.amount <= 5000 THEN "small" ELSE IF r.amount <= 20000 THEN "general" ELSE "large"
               review == {a \in {"travel.6"} : TravelReviewed(r)}
    <3>2. TravelDecision(r) = Answer("travel", level, TravelSteps(r), {"travel.5"} \cup review)
      BY <2>3, <3>1, SMT DEF TravelDecision
    <3> HIDE DEF level, review
    <3>3. Policy!Follows(r, Approvers(TravelSteps(r))) /\ Policy!TierOf(r).article = "travel.5"
      BY <1>4, <2>3, <3>1, <1>0, TravelFollows
    <3>8. DecisionFor(r).steps = TravelSteps(r) /\ Policy!TierOf(r).article \in DecisionFor(r).articles
      BY <3>2, <3>3, <2>1, <1>1
    <3> QED BY <3>8, <3>3, <1>2
  <2> QED BY <2>2, <2>3
<1>5. CASE r.type = "expense"
  <2>1. DecisionFor(r) = ExpenseDecision(r)
    BY <1>5, Zenon DEF DecisionFor
  <2>2. r.amount # None
    <3>1. SUFFICES ASSUME r.amount = None PROVE FALSE
      OBVIOUS
    <3>2. PICK a : ExpenseDecision(r) = NoAnswer("expense", "amount", a)
      BY <3>1, SMT DEF ExpenseDecision
    <3> QED BY <2>1, <3>2, <1>1
  <2> DEFINE special == {a \in {"expense.25"} : r.conditions \cap SpecialExpenses # {}}
             preapproved == {a \in {"expense.11"} : r.conditions \cap PreapprovedExpenses # {}}
  <2>3. ExpenseDecision(r) = Answer("expense", ExpenseLevel(r.amount).level, ExpenseSteps(r),
                                    {ExpenseLevel(r.amount).article} \cup special \cup preapproved)
    BY <2>2, SMT DEF ExpenseDecision
  <2> HIDE DEF special, preapproved
  <2>4. Policy!Follows(r, Approvers(ExpenseSteps(r))) /\ Policy!TierOf(r).article = ExpenseLevel(r.amount).article
    BY <1>5, <2>2, <1>0, ExpenseFollows
  <2>8. DecisionFor(r).steps = ExpenseSteps(r) /\ Policy!TierOf(r).article \in DecisionFor(r).articles
    BY <2>3, <2>4, <2>1, <1>1
  <2> QED BY <2>8, <2>4, <1>2
<1>6. CASE r.type = "leave"
  <2>1. DecisionFor(r) = LeaveDecision(r)
    BY <1>6, Zenon DEF DecisionFor
  <2>2. r.leaveDays # None
    <3>1. SUFFICES ASSUME r.leaveDays = None PROVE FALSE
      OBVIOUS
    <3>2. PICK a : LeaveDecision(r) = NoAnswer("leave", "days", a)
      BY <3>1, SMT DEF LeaveDecision
    <3> QED BY <2>1, <3>2, <1>1
  <2> DEFINE reviewed == {a \in {"leave.23"} : LeaveReviewed(r)}
  <2>3. CASE "departmentHead" \in r.conditions
    <3>1. LeaveDecision(r) = Answer("leave", "departmentHead", HeadLeaveSteps(r), {"leave.22"} \cup reviewed)
      BY <2>2, <2>3, SMT DEF LeaveDecision
    <3> HIDE DEF reviewed
    <3>2. Policy!Follows(r, Approvers(HeadLeaveSteps(r))) /\ Policy!TierOf(r).article = "leave.22"
      BY <1>6, <2>3, HeadLeaveFollows
    <3>8. DecisionFor(r).steps = HeadLeaveSteps(r) /\ Policy!TierOf(r).article \in DecisionFor(r).articles
      BY <3>1, <3>2, <2>1, <1>1
    <3> QED BY <3>8, <3>2, <1>2
  <2>4. CASE "departmentHead" \notin r.conditions
    <3> DEFINE article == IF LeaveLevel(r.leaveDays) = "longTerm" THEN "leave.21" ELSE "leave.20"
    <3>1. LeaveDecision(r) = Answer("leave", LeaveLevel(r.leaveDays), LeaveSteps(r), {article} \cup reviewed)
      BY <2>2, <2>4, SMT DEF LeaveDecision
    <3> HIDE DEF reviewed
    <3>2. Policy!Follows(r, Approvers(LeaveSteps(r))) /\ Policy!TierOf(r).article = article
      BY <1>6, <2>4, <2>2, <1>0, LeaveFollows
    <3> HIDE DEF article
    <3> QED BY <3>1, <3>2, <2>1, <1>1, <1>2
  <2> QED BY <2>3, <2>4
<1>7. CASE r.type \notin {"purchase", "travel", "expense", "leave"}
  <2>1. r.type # "purchase" /\ r.type # "travel" /\ r.type # "expense" /\ r.type # "leave"
    BY <1>7
  <2>2. DecisionFor(r) = NoAnswer(None, "type", {})
    BY <2>1, Zenon DEF DecisionFor
  <2>3. NoAnswer(None, "type", {}).question = "type" /\ "type" # None
    BY TextAssumption DEF NoAnswer
  <2> QED BY <2>2, <2>3
<1> QED BY <1>3, <1>4, <1>5, <1>6, <1>7

-----------------------------------------------------------------------------
(* Types of claims and the fields read for them.                            *)

\* The types of drafts.
Types == {"travel", "expense", "purchase", "leave"}

\* A detector of four kinds answers the first that holds.
LEMMA FourKinds ==
    ASSUME NEW a, NEW b, NEW c, NEW d, NEW p, NEW q, NEW s, NEW t
    PROVE  LET found == FirstKind(<< <<p, a>>, <<q, b>>, <<s, c>>, <<t, d>> >>)
           IN  /\ \/ found = None /\ ~a /\ ~b /\ ~c /\ ~d
                  \/ found \in {p, q, s, t} /\ (a \/ b \/ c \/ d)
               /\ a => found = p
               /\ ~a /\ b => found = q
               /\ ~a /\ ~b /\ c => found = s
               /\ ~a /\ ~b /\ ~c /\ d => found = t
<1> DEFINE kinds == << <<p, a>>, <<q, b>>, <<s, c>>, <<t, d>> >>
<1>1. /\ DOMAIN kinds = 1..4
      /\ kinds[1][1] = p /\ kinds[2][1] = q /\ kinds[3][1] = s /\ kinds[4][1] = t
      /\ kinds[1][2] <=> a
      /\ kinds[2][2] <=> b
      /\ kinds[3][2] <=> c
      /\ kinds[4][2] <=> d
  OBVIOUS
<1>2. 1..4 = {1, 2, 3, 4}
  OBVIOUS
<1> HIDE DEF kinds
<1>3. \/ FirstKind(kinds) = None /\ \A k \in 1..4 : ~kinds[k][2]
      \/ \E k \in 1..4 : kinds[k][2] /\ FirstKind(kinds) = kinds[k][1]
                          /\ \A j \in 1..4 : kinds[j][2] => k <= j
  BY <1>1, KindIsFound, 4 \in Nat
<1> DEFINE found == FirstKind(kinds)
<1>4. /\ \/ found = None /\ ~a /\ ~b /\ ~c /\ ~d
         \/ found \in {p, q, s, t} /\ (a \/ b \/ c \/ d)
      /\ a => found = p
      /\ ~a /\ b => found = q
      /\ ~a /\ ~b /\ c => found = s
      /\ ~a /\ ~b /\ ~c /\ d => found = t
  <2> HIDE DEF found
  <2>1. CASE FirstKind(kinds) = None /\ \A k \in 1..4 : ~kinds[k][2]
    <3>1. ~kinds[1][2] /\ ~kinds[2][2] /\ ~kinds[3][2] /\ ~kinds[4][2]
      BY <2>1
    <3>2. ~a /\ ~b /\ ~c /\ ~d
      BY <3>1, <1>1
    <3>3. found = None
      BY <2>1 DEF found
    <3> QED BY <3>2, <3>3
  <2>2. ASSUME NEW k \in 1..4, kinds[k][2], found = kinds[k][1], \A j \in 1..4 : kinds[j][2] => k <= j
        PROVE  /\ found \in {p, q, s, t} /\ (a \/ b \/ c \/ d)
               /\ a => found = p
               /\ ~a /\ b => found = q
               /\ ~a /\ ~b /\ c => found = s
               /\ ~a /\ ~b /\ ~c /\ d => found = t
    <3>0. (a => k = 1) /\ (~a /\ b => k = 2) /\ (~a /\ ~b /\ c => k = 3) /\ (~a /\ ~b /\ ~c => k = 4 /\ d)
      BY <2>2, <1>1, <1>2
    <3>1. CASE a
      BY <2>2, <3>0, <3>1, <1>1
    <3>2. CASE ~a /\ b
      BY <2>2, <3>0, <3>2, <1>1
    <3>3. CASE ~a /\ ~b /\ c
      BY <2>2, <3>0, <3>3, <1>1
    <3>4. CASE ~a /\ ~b /\ ~c
      BY <2>2, <3>0, <3>4, <1>1
    <3> QED BY <3>1, <3>2, <3>3, <3>4
  <2> QED BY <1>3, <2>1, <2>2 DEF found
<1> QED BY <1>4 DEF kinds

\* The type of a draft is the first of the four the text names.
LEMMA DraftTypes ==
    ASSUME NEW text
    PROVE  /\ DraftType(text) \in Types \cup {None} /\ None \notin Types
           /\ Says(text, "tripClaim") \/ Says(text, "expenseClaim") \/ SaysAny(text, {"buy", "acquire"})
                \/ Says(text, "leave") => DraftType(text) # None
           /\ DraftType(text) = "purchase" <=> /\ ~Says(text, "tripClaim") /\ ~Says(text, "expenseClaim")
                                               /\ SaysAny(text, {"buy", "acquire"})
<1>1. None \notin Types
  BY TextAssumption DEF Types
<1>2. /\ \/ /\ DraftType(text) = None /\ ~Says(text, "tripClaim") /\ ~Says(text, "expenseClaim")
            /\ ~SaysAny(text, {"buy", "acquire"}) /\ ~Says(text, "leave")
         \/ /\ DraftType(text) \in Types
            /\ \/ Says(text, "tripClaim") \/ Says(text, "expenseClaim")
               \/ SaysAny(text, {"buy", "acquire"}) \/ Says(text, "leave")
      /\ Says(text, "tripClaim") => DraftType(text) = "travel"
      /\ ~Says(text, "tripClaim") /\ Says(text, "expenseClaim") => DraftType(text) = "expense"
      /\ ~Says(text, "tripClaim") /\ ~Says(text, "expenseClaim") /\ SaysAny(text, {"buy", "acquire"})
           => DraftType(text) = "purchase"
      /\ ~Says(text, "tripClaim") /\ ~Says(text, "expenseClaim") /\ ~SaysAny(text, {"buy", "acquire"})
           /\ Says(text, "leave") => DraftType(text) = "leave"
  BY FourKinds DEF DraftType, Types
<1>3. Says(text, "tripClaim") \/ Says(text, "expenseClaim") \/ SaysAny(text, {"buy", "acquire"})
        \/ Says(text, "leave") => DraftType(text) # None
  BY <1>1, <1>2 DEF Types
<1>4. DraftType(text) = "purchase" => /\ ~Says(text, "tripClaim") /\ ~Says(text, "expenseClaim")
                                      /\ SaysAny(text, {"buy", "acquire"})
  <2>1. "purchase" # "travel" /\ "purchase" # "expense" /\ "purchase" # "leave" /\ "purchase" # None
    BY TextAssumption
  <2> SUFFICES ASSUME DraftType(text) = "purchase"
               PROVE  /\ ~Says(text, "tripClaim") /\ ~Says(text, "expenseClaim")
                      /\ SaysAny(text, {"buy", "acquire"})
    OBVIOUS
  <2>2. ~Says(text, "tripClaim")
    BY <1>2, <2>1
  <2>3. ~Says(text, "expenseClaim")
    BY <1>2, <2>1, <2>2
  <2>4. SaysAny(text, {"buy", "acquire"})
    <3>1. SUFFICES ASSUME ~SaysAny(text, {"buy", "acquire"}) PROVE FALSE
      OBVIOUS
    <3>2. ~Says(text, "leave")
      BY <1>2, <2>1, <2>2, <2>3, <3>1
    <3> QED BY <1>2, <2>1, <2>2, <2>3, <3>1, <3>2
  <2> QED BY <2>2, <2>3, <2>4
<1>5. DraftType(text) \in Types \cup {None}
  BY <1>2
<1> QED BY <1>1, <1>2, <1>3, <1>4, <1>5

\* Fields with numbers, or nothing, where numbers belong.
TypedFields(f) == f.quantity \in Number /\ f.unit \in Number /\ f.total \in Number /\ f.days \in Number

\* The fields read for a draft hold numbers, or nothing.
LEMMA ExtractedAreTyped ==
    ASSUME NEW text, IsText(text), NEW type \in Types, NEW asked, Resolves(asked)
    PROVE  TypedFields(ExtractedFields(type, text, asked))
<1>0. /\ \A at \in SUBSET DOMAIN text : /\ First(text, at).quantity \in Number
                                        /\ First(text, at).unit \in Number
                                        /\ First(text, at).total \in Number
      /\ None \in Number
  BY FirstFound, NumbersOfMessages DEF Number
<1>1. StatedTotal(text) \in Number
  BY <1>0 DEF StatedTotal
<1>2. Claimed(text, asked) \in Number /\ asked.leaveDays \in Number
  BY <1>1 DEF Claimed, Resolves
<1>3. TypedFields(PurchaseFields(text))
  <2> DEFINE q == First(text, {i \in DOMAIN text : QuantityRead(text[i])}).quantity
             u == First(text, {i \in DOMAIN text : UnitRead(text[i])}).unit
  <2>1. q \in Number /\ u \in Number
    BY <1>0
  <2>2. /\ PurchaseFields(text).quantity = q /\ PurchaseFields(text).unit = u
        /\ PurchaseFields(text).total = StatedTotal(text) /\ PurchaseFields(text).days = None
    BY DEF PurchaseFields, Filled, NoFields
  <2> HIDE DEF q, u
  <2> QED BY <2>1, <2>2, <1>0, <1>1 DEF TypedFields
<1>4. TypedFields(TravelFields(text, asked)) /\ TypedFields(ExpenseFields(text, asked))
  BY <1>0, <1>2 DEF TypedFields, TravelFields, ExpenseFields, Filled, NoFields
<1>5. TypedFields(LeaveFields(text, asked))
  BY <1>0, <1>2 DEF TypedFields, LeaveFields, Filled, NoFields
<1>6. /\ type = "purchase" => ExtractedFields(type, text, asked) = PurchaseFields(text)
      /\ type = "travel" => ExtractedFields(type, text, asked) = TravelFields(text, asked)
      /\ type = "leave" => ExtractedFields(type, text, asked) = LeaveFields(text, asked)
      /\ type = "expense" => ExtractedFields(type, text, asked) = ExpenseFields(text, asked)
  BY DEF ExtractedFields
<1> QED BY <1>3, <1>4, <1>5, <1>6 DEF Types

\* The fields of a draft, written out, are a message that names its type.
LEMMA RenderedIsMessage ==
    ASSUME NEW type, NEW f, TypedFields(f)
    PROVE  /\ IsMessage(Rendered(type, f))
           /\ Rendered(type, f).quantity = f.quantity /\ Rendered(type, f).unit = f.unit
           /\ Rendered(type, f).total = f.total /\ Rendered(type, f).changes = FALSE
           /\ Words(Cue[type]) \subseteq Rendered(type, f).says
<1>1. /\ Rendered(type, f).quantity = f.quantity /\ Rendered(type, f).unit = f.unit
      /\ Rendered(type, f).total = f.total /\ Rendered(type, f).changes = FALSE
      /\ Rendered(type, f).days = IF f.leave # None THEN f.days ELSE None
      /\ Rendered(type, f).quotes = 0
      /\ Rendered(type, f).says = Words(Cue[type] \cup RenderedWords(type, f)) \cup {w \in {Details[type]} : f.filled}
  BY DEF Rendered, NoMessage
<1> DEFINE W == Words(Cue[type] \cup RenderedWords(type, f)) \cup {w \in {Details[type]} : f.filled}
           G == {n \in {"unit", "total"} : f[n] # None /\ f[n] >= 1000}
           D == IF f.leave # None THEN f.days ELSE None
<1>5. Rendered(type, f) = [NoMessage EXCEPT
            !.says = W, !.quantity = f.quantity, !.unit = f.unit, !.total = f.total, !.grouped = G,
            !.leave = {f.leave} \ {None}, !.days = D, !.dates = f.dates]
  BY DEF Rendered
<1>2. Rendered(type, f) = [says |-> W, quantity |-> f.quantity, unit |-> f.unit, total |-> f.total,
            grouped |-> G, changes |-> FALSE, days |-> D, dayWord |-> "tian", dates |-> f.dates,
            leave |-> {f.leave} \ {None}, has |-> {}, lacks |-> {}, quotes |-> 0]
  <2> HIDE DEF W, G, D
  <2> QED BY <1>5 DEF NoMessage
<1>3. IsMessage(Rendered(type, f))
  <2> DEFINE m == Rendered(type, f)
  <2>1. m = [says |-> m.says, quantity |-> m.quantity, unit |-> m.unit, total |-> m.total,
            grouped |-> m.grouped, changes |-> m.changes, days |-> m.days,
            dayWord |-> m.dayWord, dates |-> m.dates, leave |-> m.leave, has |-> m.has,
            lacks |-> m.lacks, quotes |-> m.quotes]
    <3> HIDE DEF W, G, D
    <3> QED BY <1>2
  <2>2. {m.quantity, m.unit, m.total, m.days} \subseteq Int \cup {None} /\ m.quotes \in Nat
    BY <1>1 DEF TypedFields, Number
  <2> HIDE DEF m
  <2>3. IsMessage(m)
    BY <2>1, <2>2 DEF IsMessage
  <2> QED BY <2>3 DEF m
<1>4. Words(Cue[type]) \subseteq Words(Cue[type] \cup RenderedWords(type, f))
  BY DEF Words
<1> QED BY <1>1, <1>3, <1>4

-----------------------------------------------------------------------------
(* A draft is what some text says; an amendment is read with its draft.     *)

\* A draft that was generated from some text.
IsDraft(d) == \E text, revision : /\ IsText(text) /\ DraftType(text) \in Types
                                  /\ d = Drafted(text, revision)

\* A draft has the type, the fields and the approval its text gives.
LEMMA DraftOfText ==
    ASSUME NEW text, IsText(text), NEW revision, DraftType(text) \in Types
    PROVE  /\ Drafted(text, revision)
                = Assembled(DraftType(text), ExtractedFields(DraftType(text), text, CheckApproval(text).request),
                            CheckApproval(text), CheckMaterials(text), revision)
           /\ Drafted(text, revision).type = DraftType(text)
           /\ Drafted(text, revision).fields
                = ExtractedFields(DraftType(text), text, CheckApproval(text).request)
           /\ TypedFields(Drafted(text, revision).fields)
           /\ Drafted(text, revision).approval = CheckApproval(text)
<1>1. DraftType(text) # None
  BY DraftTypes
<1>2. Drafted(text, revision)
        = Assembled(DraftType(text), ExtractedFields(DraftType(text), text, CheckApproval(text).request),
                    CheckApproval(text), CheckMaterials(text), revision)
  BY <1>1 DEF Drafted, DraftedAs
<1>3. \A t, f, a, m, r : /\ Assembled(t, f, a, m, r).type = t /\ Assembled(t, f, a, m, r).fields = f
                         /\ Assembled(t, f, a, m, r).approval = a
  BY DEF Assembled
<1>4. CheckApproval(text).request = Resolved(text)
  BY DEF CheckApproval
<1>5. TypedFields(ExtractedFields(DraftType(text), text, CheckApproval(text).request))
  BY <1>4, RequestIsResolved, ExtractedAreTyped
<1> QED BY <1>2, <1>3, <1>5

\* One message is a text.
LEMMA OneMessage == ASSUME NEW m, IsMessage(m)
                    PROVE  IsText(<<m>>) /\ Len(<<m>>) = 1 /\ DOMAIN <<m>> = {1} /\ <<m>>[1] = m
<1> DEFINE s == <<m>>
<1>1. s \in Seq({m}) /\ Len(s) = 1 /\ s[1] = m
  OBVIOUS
<1> HIDE DEF s
<1>2. DOMAIN s = {1}
  <2>1. DOMAIN s = 1..1 /\ 1..1 = {1}
    BY <1>1
  <2> QED BY <2>1
<1>3. IsText(s)
  <2>1. \A x \in {m} : IsMessage(x)
    OBVIOUS
  <2> QED BY <1>1, <2>1 DEF IsText
<1> QED BY <1>1, <1>2, <1>3 DEF s

\* An amendment read as a claim of its draft's type is a message.
LEMMA ProbeIsMessage ==
    ASSUME NEW d, NEW m, IsMessage(m), d.fields.quantity \in Number
    PROVE  /\ IsMessage(Probe(d, m))
           /\ Probe(d, m).says = m.says \cup Words(Cue[d.type])
           /\ Probe(d, m).changes = FALSE /\ Probe(d, m).unit = m.unit /\ Probe(d, m).total = m.total
<1> DEFINE shown == IF Override(d, m) # None THEN Override(d, m) ELSE d.fields.quantity
           own == IF m.changes THEN None ELSE m.quantity
           Q == IF d.type = "purchase" /\ shown # None THEN shown ELSE own
           W == m.says \cup Words(Cue[d.type])
<1>1. Q \in Number
  BY NumbersOfMessages DEF Number, Override
<1> HIDE DEF Q, W
<1>2. Probe(d, m) = [m EXCEPT !.says = W, !.changes = FALSE, !.quantity = Q]
  BY DEF Probe, Q, W
<1>3. m = [says |-> m.says, quantity |-> m.quantity, unit |-> m.unit, total |-> m.total,
            grouped |-> m.grouped, changes |-> m.changes, days |-> m.days,
            dayWord |-> m.dayWord, dates |-> m.dates, leave |-> m.leave, has |-> m.has,
            lacks |-> m.lacks, quotes |-> m.quotes]
  BY DEF IsMessage
<1>4. Probe(d, m) = [says |-> W, quantity |-> Q, unit |-> m.unit, total |-> m.total,
            grouped |-> m.grouped, changes |-> FALSE, days |-> m.days,
            dayWord |-> m.dayWord, dates |-> m.dates, leave |-> m.leave, has |-> m.has,
            lacks |-> m.lacks, quotes |-> m.quotes]
  BY <1>2, <1>3
<1>5. Probe(d, m).says = W /\ Probe(d, m).changes = FALSE /\ Probe(d, m).unit = m.unit
      /\ Probe(d, m).total = m.total
  BY <1>4
<1>6. IsMessage(Probe(d, m))
  <2> DEFINE p == Probe(d, m)
  <2>1. p = [says |-> p.says, quantity |-> p.quantity, unit |-> p.unit, total |-> p.total,
            grouped |-> p.grouped, changes |-> p.changes, days |-> p.days,
            dayWord |-> p.dayWord, dates |-> p.dates, leave |-> p.leave, has |-> p.has,
            lacks |-> p.lacks, quotes |-> p.quotes]
    <3> HIDE DEF p
    <3> SUFFICES p = [says |-> W, quantity |-> Q, unit |-> m.unit, total |-> m.total,
            grouped |-> m.grouped, changes |-> FALSE, days |-> m.days,
            dayWord |-> m.dayWord, dates |-> m.dates, leave |-> m.leave, has |-> m.has,
            lacks |-> m.lacks, quotes |-> m.quotes]
      OBVIOUS
    <3> QED BY <1>4 DEF p
  <2>2. {p.quantity, p.unit, p.total, p.days} \subseteq Int \cup {None} /\ p.quotes \in Nat
    <3>1. p.quantity = Q /\ p.unit = m.unit /\ p.total = m.total /\ p.days = m.days /\ p.quotes = m.quotes
      BY <1>4
    <3> HIDE DEF p
    <3> QED BY <3>1, <1>1, NumbersOfMessages DEF Number, IsMessage
  <2> HIDE DEF p
  <2>3. IsMessage(p)
    BY <2>1, <2>2 DEF IsMessage
  <2> QED BY <2>3 DEF p
<1> QED BY <1>5, <1>6 DEF W

\* The fields an amendment states hold numbers, or nothing.
LEMMA FieldsOfAmendment ==
    ASSUME NEW d, d.type \in Types, NEW m, IsMessage(m), TypedFields(d.fields)
    PROVE  TypedFields(FieldsRead(d, <<Probe(d, m)>>))
<1>1. IsText(<<Probe(d, m)>>)
  BY ProbeIsMessage, OneMessage DEF TypedFields
<1>2. PICK p : p = <<Probe(d, m)>>
  OBVIOUS
<1>3. TypedFields(Drafted(p, 0).fields)
  <2>1. Words(Cue[d.type]) \subseteq Probe(d, m).says
    BY ProbeIsMessage DEF TypedFields
  <2>2. IsText(p) /\ DOMAIN p = {1} /\ p[1] = Probe(d, m)
    BY <1>1, <1>2, ProbeIsMessage, OneMessage DEF TypedFields
  <2>3. \/ Says(p, "tripClaim") \/ Says(p, "expenseClaim") \/ SaysAny(p, {"buy", "acquire"}) \/ Says(p, "leave")
    <3>1. \E w \in {"buy", "tripClaim", "leave", "expenseClaim"} : w \in Cue[d.type]
      BY DEF Cue, Types
    <3>2. \A w \in Cue[d.type] : w \in Probe(d, m).says
      BY <2>1 DEF Words
    <3>3. \A w \in Cue[d.type] : Says(p, w)
      BY <2>2, <3>2 DEF Says
    <3> QED BY <3>1, <3>3 DEF SaysAny
  <2>4. DraftType(p) \in Types
    BY <2>3, DraftTypes
  <2> QED BY <1>1, <1>2, <2>4, DraftOfText
<1>4. PICK f, shared : /\ f = Drafted(p, 0).fields
                       /\ shared = NamedFields(Drafted(p, 0).type) \cap NamedFields(d.type)
  OBVIOUS
<1>5. CASE Drafted(p, 0).type = d.type
  BY <1>2, <1>3, <1>5 DEF FieldsRead
<1>6. CASE Drafted(p, 0).type # d.type
  <2>1. PICK g : g = [name \in DOMAIN NoFields |-> IF name \in shared THEN f[name] ELSE NoFields[name]]
    OBVIOUS
  <2>2. FieldsRead(d, p) = g
    BY <1>4, <1>6, <2>1 DEF FieldsRead
  <2>3. /\ {"quantity", "unit", "total", "days"} \subseteq DOMAIN NoFields
        /\ \A name \in {"quantity", "unit", "total", "days"} : NoFields[name] = None
    BY DEF NoFields
  <2>4. \A name \in {"quantity", "unit", "total", "days"} : g[name] \in {f[name], None}
    BY <2>1, <2>3
  <2>5. /\ g.quantity \in {f.quantity, None} /\ g.unit \in {f.unit, None}
        /\ g.total \in {f.total, None} /\ g.days \in {f.days, None}
    BY <2>4
  <2>6. TypedFields(g)
    BY <1>3, <1>4, <2>5 DEF TypedFields, Number
  <2> QED BY <1>2, <2>2, <2>6
<1> QED BY <1>5, <1>6

\* Merged fields hold numbers or nothing, and what the amendment states comes first.
LEMMA MergedAreTyped ==
    ASSUME NEW d, d.type \in Types, NEW m, IsMessage(m), TypedFields(d.fields)
    PROVE  /\ TypedFields(MergedFields(d, m))
           /\ Override(d, m) # None => MergedFields(d, m).quantity = Override(d, m)
           /\ FieldsRead(d, <<Probe(d, m)>>).unit # None
                => MergedFields(d, m).unit = FieldsRead(d, <<Probe(d, m)>>).unit
           /\ FieldsRead(d, <<Probe(d, m)>>).total # None
                => MergedFields(d, m).total = FieldsRead(d, <<Probe(d, m)>>).total
<1> DEFINE read == FieldsRead(d, <<Probe(d, m)>>)
           override == Override(d, m)
           Shown(name) == IF read[name] # None THEN read[name] ELSE d.fields[name]
<1>1. TypedFields(read)
  BY FieldsOfAmendment
<1>2. override \in Number
  BY NumbersOfMessages DEF Override, Number
<1> HIDE DEF read, override
<1>3. MergedFields(d, m) = Merged(d, override, read)
  BY DEF MergedFields, read, override
<1>4. /\ Merged(d, override, read).quantity = IF override # None THEN override ELSE Shown("quantity")
      /\ Merged(d, override, read).unit = Shown("unit")
      /\ Merged(d, override, read).days = Shown("days")
      /\ Merged(d, override, read).total
           = IF read.total = None /\ Calculated(read) # None THEN None ELSE Shown("total")
  BY DEF Merged, NoFields
<1>5. Shown("quantity") \in Number /\ Shown("unit") \in Number /\ Shown("days") \in Number /\ Shown("total") \in Number
  BY <1>1 DEF TypedFields
<1>6. None \in Number
  BY DEF Number
<1>7. TypedFields(Merged(d, override, read))
  BY <1>2, <1>4, <1>5, <1>6 DEF TypedFields
<1>8. (read.unit # None => Shown("unit") = read.unit) /\ (read.total # None => Shown("total") = read.total)
  OBVIOUS
<1> HIDE DEF Shown
<1>9. /\ override # None => MergedFields(d, m).quantity = override
      /\ read.unit # None => MergedFields(d, m).unit = read.unit
      /\ read.total # None => MergedFields(d, m).total = read.total
  BY <1>3, <1>4, <1>8
<1> QED BY <1>3, <1>7, <1>9 DEF read, override

\* The text a revision reads starts with the draft's fields and has the amendment.
LEMMA RevisedText ==
    ASSUME NEW d, d.type \in Types, TypedFields(d.fields), NEW m, IsMessage(m), IsText(messages)
    PROVE  /\ IsText(RevisionText(d, m)) /\ IsText(Append(messages, m))
           /\ 1 \in DOMAIN RevisionText(d, m)
           /\ RevisionText(d, m)[1] = Rendered(d.type, MergedFields(d, m))
           /\ \E i \in DOMAIN RevisionText(d, m) : RevisionText(d, m)[i] = m
           /\ DraftType(RevisionText(d, m)) \in Types
<1> DEFINE first == Rendered(d.type, MergedFields(d, m))
           n == Len(messages)
<1>1. IsMessage(first) /\ Words(Cue[d.type]) \subseteq first.says
  BY MergedAreTyped, RenderedIsMessage
<1> HIDE DEF first
<1>2. PICK S : messages \in Seq(S) /\ \A x \in S : IsMessage(x)
  BY DEF IsText
<1> DEFINE U == S \cup {m, first}
<1>3. messages \in Seq(U) /\ Append(messages, m) \in Seq(U) /\ <<first>> \in Seq(U)
  BY <1>2
<1> DEFINE more == Append(messages, m)
           text == <<first>> \o more
<1>4. /\ text \in Seq(U) /\ Len(<<first>>) = 1 /\ <<first>>[1] = first
      /\ Len(more) = n + 1 /\ n \in Nat /\ more[n + 1] = m
  BY <1>3
<1>5. /\ Len(text) = 1 + Len(more) /\ text[1] = first /\ text[1 + (n + 1)] = more[n + 1]
      /\ DOMAIN text = 1..Len(text)
  <2> HIDE DEF more, U
  <2> QED BY <1>3, <1>4 DEF more
<1>6. \A x \in U : IsMessage(x)
  BY <1>1, <1>2
<1>7. IsText(text) /\ IsText(more)
  <2> HIDE DEF U, more
  <2>1. more \in Seq(U)
    BY <1>3 DEF more
  <2> HIDE DEF text
  <2> QED BY <1>4, <1>6, <2>1 DEF IsText
<1>8. 1 \in DOMAIN text /\ (n + 2) \in DOMAIN text /\ text[n + 2] = m
  <2> HIDE DEF text, more
  <2>1. 1 + (n + 1) = n + 2 /\ 1 + (n + 1) \in 1..(1 + (n + 1)) /\ 1 \in 1..(1 + (n + 1))
    BY <1>4
  <2> QED BY <2>1, <1>4, <1>5
<1>9. RevisionText(d, m) = text
  BY DEF RevisionText, first
<1> HIDE DEF text, more, U
<1>10. \A w \in Words(Cue[d.type]) : Says(text, w)
  BY <1>1, <1>5, <1>8 DEF Says
<1>11. DraftType(text) \in Types
  <2>1. /\ d.type = "travel" => Words(Cue[d.type]) = Words({"tripClaim"})
        /\ d.type = "expense" => Words(Cue[d.type]) = Words({"expenseClaim"})
        /\ d.type = "purchase" => Words(Cue[d.type]) = Words({"buy"})
        /\ d.type = "leave" => Words(Cue[d.type]) = Words({"leave"})
    BY DEF Cue
  <2>2. \A w : w \in Words({w})
    BY DEF Words
  <2>3. Says(text, "tripClaim") \/ Says(text, "expenseClaim") \/ Says(text, "buy") \/ Says(text, "leave")
    BY <1>10, <2>1, <2>2 DEF Types
  <2>4. Says(text, "buy") => SaysAny(text, {"buy", "acquire"})
    BY DEF SaysAny
  <2> QED BY <2>3, <2>4, DraftTypes
<1> QED BY <1>7, <1>8, <1>9, <1>11, <1>5 DEF more, first

-----------------------------------------------------------------------------
(* Materials.                                                               *)

\* A material that is needed is needed at least once.
LEMMA NeedsArePositive ==
    ASSUME NEW text, IsText(text)
    PROVE  \A m \in DOMAIN RequirementsFor(text).requirements :
              RequirementsFor(text).requirements[m] \in Nat \ {0}
<1> DEFINE Positive(needs) == \A m \in DOMAIN needs.requirements : needs.requirements[m] \in Nat \ {0}
<1>1. \A S, q : Positive(Needs(OneOfEach(S), q))
  <2> SUFFICES ASSUME NEW S, NEW q PROVE Positive(Needs(OneOfEach(S), q))
    OBVIOUS
  <2>1. Needs(OneOfEach(S), q).requirements = [m \in S |-> 1]
    BY DEF Needs, OneOfEach
  <2> QED BY <2>1
<1>2. \A q : Positive(Needs(<<>>, q))
  <2>1. \A q : Needs(<<>>, q).requirements = <<>>
    BY DEF Needs
  <2>2. DOMAIN <<>> = {}
    OBVIOUS
  <2> QED BY <2>1, <2>2
<1> HIDE DEF Positive
<1>3. Positive(PurchaseNeeds(text))
  <2> DEFINE amount == MaterialAmount(text)
             attached == PurchaseAttachments(text)
             Quotes(more, n) == [m \in attached \cup more \cup {"quotation"} |-> IF m = "quotation" THEN n ELSE 1]
  <2>1. amount \in Int \cup {None}
    BY AmountIsNumber DEF MaterialAmount, Number
  <2>2. amount = None => PurchaseNeeds(text) = Needs(OneOfEach(attached), "amount")
    BY SMT DEF PurchaseNeeds
  <2> DEFINE many == Needs(Quotes({"comparisonRecord"}, 3), None)
             some == Needs(Quotes({}, 2), None)
             tendered == Needs(OneOfEach(attached \cup {"tender"}), None)
  <2>3. ASSUME amount \in Int, amount # None
        PROVE  /\ amount > 200000 => PurchaseNeeds(text) = tendered
               /\ amount > 50000 /\ amount <= 200000 => PurchaseNeeds(text) = many
               /\ amount > 5000 /\ amount <= 50000 => PurchaseNeeds(text) = some
               /\ amount <= 5000 => PurchaseNeeds(text) = Needs(OneOfEach(attached), None)
    <3>1. ASSUME amount > 200000 PROVE PurchaseNeeds(text) = tendered
      BY SMT, <2>3, <3>1 DEF PurchaseNeeds
    <3>2. ASSUME amount > 50000, amount <= 200000 PROVE PurchaseNeeds(text) = many
      <4>1. ~(amount > 200000) /\ ~(amount > 5000 /\ amount <= 50000) /\ ~(amount <= 5000)
        BY SMT, <2>3, <3>2
      <4> QED BY SMT, <2>3, <3>2, <4>1 DEF PurchaseNeeds
    <3>3. ASSUME amount > 5000, amount <= 50000 PROVE PurchaseNeeds(text) = some
      <4>1. ~(amount > 200000) /\ ~(amount > 50000 /\ amount <= 200000) /\ ~(amount <= 5000)
        BY SMT, <2>3, <3>3
      <4> QED BY SMT, <2>3, <3>3, <4>1 DEF PurchaseNeeds
    <3>4. ASSUME amount <= 5000 PROVE PurchaseNeeds(text) = Needs(OneOfEach(attached), None)
      BY SMT, <2>3, <3>4 DEF PurchaseNeeds
    <3> HIDE DEF amount, many, some, tendered
    <3> QED BY SMT, <3>1, <3>2, <3>3, <3>4
  <2>4. \A q : Positive(Needs(OneOfEach(attached), q))
    BY <1>1
  <2>5. Positive(tendered)
    BY <1>1
  <2>6. Positive(many)
    <3>1. many.requirements = Quotes({"comparisonRecord"}, 3)
      BY DEF Needs
    <3>2. \A m \in DOMAIN Quotes({"comparisonRecord"}, 3) : Quotes({"comparisonRecord"}, 3)[m] \in Nat \ {0}
      BY SMT
    <3> QED BY <3>1, <3>2 DEF Positive
  <2>7. Positive(some)
    <3>1. some.requirements = Quotes({}, 2)
      BY DEF Needs
    <3>2. \A m \in DOMAIN Quotes({}, 2) : Quotes({}, 2)[m] \in Nat \ {0}
      BY SMT
    <3> QED BY <3>1, <3>2 DEF Positive
  <2> HIDE DEF amount, attached, Quotes, many, some, tendered
  <2>8. CASE amount = None
    BY <2>2, <2>4, <2>8
  <2>9. CASE amount \in Int /\ amount # None
    <3>1. PurchaseNeeds(text) \in {tendered, many, some, Needs(OneOfEach(attached), None)}
      BY SMT, <2>3, <2>9
    <3> QED BY SMT, <3>1, <2>4, <2>5, <2>6, <2>7
  <2> QED BY <2>1, <2>8, <2>9
<1>5. Positive(LeaveNeeds(text))
  <2> DEFINE type == LeaveTypeRead(text)
  <2>1. type \in {None, "sick", "marriage", "work_injury", "bereavement", "parental", "annual", "compensatory",
                  "personal"}
    <3> DEFINE named == {k \in DOMAIN LeaveTypes : \E i \in DOMAIN text : LeaveTypes[k] \in text[i].leave}
    <3>1. DOMAIN LeaveTypes = 1..8 /\ \A k \in 1..8 :
              LeaveTypes[k] \in {"sick", "marriage", "bereavement", "parental", "work_injury",
                                 "annual", "compensatory", "personal"}
      BY DEF LeaveTypes
    <3>2. named # {} => Min(named) \in named
      <4>1. named \subseteq Nat
        BY <3>1
      <4> HIDE DEF named
      <4> QED BY <4>1, MinOfNaturals
    <3>3. named \subseteq 1..8
      BY <3>1
    <3>4. LeaveTypeRead(text) = IF named = {} THEN None ELSE LeaveTypes[Min(named)]
      BY DEF LeaveTypeRead
    <3> HIDE DEF named
    <3> QED BY <3>1, <3>2, <3>3, <3>4
  <2> DEFINE days == LeaveDaysRead(text)
             proof == {m \in {"medicalProof"} : days > 2}
  <2>2. LeaveNeeds(text) =
          CASE type = None -> Needs(<<>>, "leaveType")
            [] type = "sick" /\ days = None -> Needs(<<>>, "days")
            [] type = "sick" /\ days # None -> Needs(OneOfEach(proof), None)
            [] type = "marriage" -> Needs(OneOfEach({"marriageCertificate"}), None)
            [] type = "work_injury" -> Needs(OneOfEach({"medicalProof"}), None)
            [] type \in {"bereavement", "parental", "annual", "compensatory", "personal"} -> Needs(<<>>, None)
    BY DEF LeaveNeeds
  <2>3. \A q : /\ Positive(Needs(<<>>, q)) /\ Positive(Needs(OneOfEach(proof), q))
               /\ Positive(Needs(OneOfEach({"marriageCertificate"}), q))
               /\ Positive(Needs(OneOfEach({"medicalProof"}), q))
    BY <1>1, <1>2
  <2> HIDE DEF type, days, proof
  <2> QED BY SMT, <2>1, <2>2, <2>3
<1>6. Positive(RequirementsFor(text))
  <2> DEFINE type == MaterialType(text)
             all == ExpenseMaterials \cup IF ExpenseCategory(text) = None THEN {}
                                          ELSE CategoryMaterials[ExpenseCategory(text)]
  <2>1. /\ type = "travel" => RequirementsFor(text) = Needs(OneOfEach(TravelMaterials), None)
        /\ type = "purchase" => RequirementsFor(text) = PurchaseNeeds(text)
        /\ type = "expense" => RequirementsFor(text) = Needs(OneOfEach(all), None)
        /\ type = "leave" => RequirementsFor(text) = LeaveNeeds(text)
        /\ type \notin {"travel", "purchase", "expense", "leave"} => RequirementsFor(text) = Needs(<<>>, "type")
    BY Zenon DEF RequirementsFor
  <2> HIDE DEF type, all
  <2> QED BY <2>1, <1>1, <1>2, <1>3, <1>5
<1> QED BY <1>6 DEF Positive

\* The materials counted in a text are those it provides.
LEMMA ProvidedAreCounted ==
    ASSUME NEW text, IsText(text)
    PROVE  \A m \in DOMAIN ProvidedCounts(text) : ProvidedCounts(text)[m] \in Nat
<1>1. Quoted(text) \in Nat
  <2>1. First(text, {i \in DOMAIN text : text[i].quotes > 0}).quotes \in Nat
    BY FirstFound DEF IsMessage
  <2> QED BY <2>1 DEF Quoted
<1> QED BY <1>1 DEF ProvidedCounts

\* What the comparison of a text says when it is complete, and what it lacks.
LEMMA ComparisonIsSound ==
    ASSUME NEW text, IsText(text)
    PROVE  LET m == CheckMaterials(text)
           IN  /\ DOMAIN m.missing \subseteq DOMAIN m.required
               /\ m.complete = TRUE => /\ DOMAIN m.missing = {}
                                       /\ \A x \in DOMAIN m.required : /\ x \in DOMAIN m.provided
                                                                       /\ m.provided[x] >= m.required[x]
<1> DEFINE needs == RequirementsFor(text)
           required == needs.requirements
           provided == IF Says(text, "compares") THEN ProvidedCounts(text) ELSE <<>>
           m == CheckMaterials(text)
           compared == Says(text, "compares") /\ MaterialType(text) # None /\ needs.question = None
           unlisted == provided = <<>> /\ ~Says(text, "noMaterials") /\ Mentioned(text) = {}
           missing == MissingMaterials(required, provided)
           given(x) == IF x \in DOMAIN provided THEN provided[x] ELSE 0
<1>1. /\ m.required = required /\ m.provided = provided
      /\ m.missing = IF compared /\ ~unlisted THEN missing ELSE <<>>
      /\ m.complete = IF compared /\ ~unlisted THEN DOMAIN missing = {} ELSE None
  BY DEF CheckMaterials, Compared
<1>2. \A x \in DOMAIN provided : provided[x] \in Nat
  <2>1. DOMAIN <<>> = {}
    OBVIOUS
  <2> QED BY <2>1, ProvidedAreCounted
<1>3. \A x \in DOMAIN required : required[x] \in Nat \ {0}
  BY NeedsArePositive
<1> HIDE DEF required, provided, compared, unlisted, m
<1>4. DOMAIN missing = {x \in DOMAIN required : required[x] > given(x)}
  BY DEF MissingMaterials
<1> HIDE DEF missing
<1>5. ASSUME DOMAIN missing = {}, NEW x \in DOMAIN required
      PROVE  x \in DOMAIN provided /\ provided[x] >= required[x]
  <2>1. ~(required[x] > given(x))
    BY <1>4, <1>5
  <2>2. required[x] \in Nat /\ required[x] > 0
    BY <1>3
  <2>3. x \in DOMAIN provided
    BY <2>1, <2>2
  <2> QED BY <2>1, <2>2, <2>3, <1>2
<1>6. None # TRUE
  BY TextAssumption
<1>7. DOMAIN m.missing \subseteq DOMAIN m.required
  <2>1. DOMAIN <<>> = {}
    OBVIOUS
  <2> HIDE DEF given
  <2> QED BY <2>1, <1>1, <1>4
<1>8. ASSUME m.complete = TRUE
      PROVE  /\ DOMAIN m.missing = {}
             /\ \A x \in DOMAIN m.required : x \in DOMAIN m.provided /\ m.provided[x] >= m.required[x]
  <2>1. compared /\ ~unlisted /\ DOMAIN missing = {}
    BY <1>1, <1>6, <1>8
  <2> HIDE DEF given
  <2> QED BY <2>1, <1>1, <1>5
<1> QED BY <1>7, <1>8 DEF m

\* A detector of six kinds answers nothing only when none holds.
LEMMA SixKinds ==
    ASSUME NEW a, NEW b, NEW c, NEW d, NEW e, NEW f, NEW p, NEW q, NEW s, NEW t, NEW u, NEW v,
           None \notin {p, q, s, t, u, v}
    PROVE  FirstKind(<< <<p, a>>, <<q, b>>, <<s, c>>, <<t, d>>, <<u, e>>, <<v, f>> >>) = None
             <=> ~a /\ ~b /\ ~c /\ ~d /\ ~e /\ ~f
<1> DEFINE kinds == << <<p, a>>, <<q, b>>, <<s, c>>, <<t, d>>, <<u, e>>, <<v, f>> >>
<1>1. /\ DOMAIN kinds = 1..6
      /\ kinds[1][1] = p /\ kinds[2][1] = q /\ kinds[3][1] = s /\ kinds[4][1] = t
      /\ kinds[5][1] = u /\ kinds[6][1] = v
      /\ kinds[1][2] <=> a
      /\ kinds[2][2] <=> b
      /\ kinds[3][2] <=> c
      /\ kinds[4][2] <=> d
      /\ kinds[5][2] <=> e
      /\ kinds[6][2] <=> f
  OBVIOUS
<1>2. 1..6 = {1, 2, 3, 4, 5, 6}
  OBVIOUS
<1> HIDE DEF kinds
<1>3. \/ FirstKind(kinds) = None /\ \A k \in 1..6 : ~kinds[k][2]
      \/ \E k \in 1..6 : kinds[k][2] /\ FirstKind(kinds) = kinds[k][1]
                          /\ \A j \in 1..6 : kinds[j][2] => k <= j
  BY <1>1, KindIsFound, 6 \in Nat
<1>4. (\A k \in 1..6 : ~kinds[k][2]) <=> ~a /\ ~b /\ ~c /\ ~d /\ ~e /\ ~f
  <2>1. (\A k \in 1..6 : ~kinds[k][2]) <=> /\ ~kinds[1][2] /\ ~kinds[2][2] /\ ~kinds[3][2]
                                           /\ ~kinds[4][2] /\ ~kinds[5][2] /\ ~kinds[6][2]
    BY <1>2
  <2> QED BY <2>1, <1>1
<1>5. \A k \in 1..6 : kinds[k][1] # None
  BY <1>1, <1>2
<1>6. FirstKind(kinds) = None <=> \A k \in 1..6 : ~kinds[k][2]
  BY <1>3, <1>5
<1>7. FirstKind(kinds) = None <=> ~a /\ ~b /\ ~c /\ ~d /\ ~e /\ ~f
  BY <1>4, <1>6
<1> QED BY <1>7 DEF kinds

-----------------------------------------------------------------------------
(* A draft that is ready.                                                   *)

\* A draft without an open question is complete: no field, material or answer is missing.
LEMMA ReadyDraft ==
    ASSUME NEW d, IsDraft(d)
    PROVE  /\ d.ready <=> d.status = "waitingForConfirmation"
           /\ d.ready <=> d.question = None
           /\ d.ready => \A m \in DOMAIN d.materials.required :
                            /\ m \in DOMAIN d.materials.provided
                            /\ d.materials.provided[m] >= d.materials.required[m]
           /\ d.ready /\ d.type = "purchase" /\ d.approval.request.type = "purchase"
                => d.approval.request.amount = TotalOf(d.fields)
<1>1. PICK text, revision : IsText(text) /\ DraftType(text) \in Types /\ d = Drafted(text, revision)
  BY DEF IsDraft
<1> DEFINE type == DraftType(text)
           resolved == Resolved(text)
           fields == ExtractedFields(type, text, resolved)
           route == DecisionFor(resolved)
           materialsFound == CheckMaterials(text)
           missing == MissingFields(type, fields)
           issues == Issues(type, fields, resolved)
<1>2. CheckApproval(text).request = resolved /\ CheckApproval(text).decision = route
  BY DEF CheckApproval
<1>3. d = Assembled(type, fields, CheckApproval(text), materialsFound, revision)
  BY <1>1, <1>2, DraftOfText
<1>4. /\ d.type = type /\ d.fields = fields /\ d.approval = CheckApproval(text) /\ d.materials = materialsFound
      /\ d.ready <=> /\ missing = {} /\ issues = {} /\ route.question = None
                     /\ MaterialsReady(materialsFound)
      /\ d.status = StatusOf(missing, issues, route, materialsFound)
      /\ d.question = QuestionOf(missing, issues, route, materialsFound)
  <2> HIDE DEF type, fields, resolved, route, materialsFound
  <2> QED BY <1>2, <1>3 DEF Assembled
<1>5. /\ DOMAIN materialsFound.missing \subseteq DOMAIN materialsFound.required
      /\ materialsFound.complete = TRUE =>
           /\ DOMAIN materialsFound.missing = {}
           /\ \A x \in DOMAIN materialsFound.required :
                 /\ x \in DOMAIN materialsFound.provided
                 /\ materialsFound.provided[x] >= materialsFound.required[x]
  BY <1>1, ComparisonIsSound
<1> HIDE DEF materialsFound, missing, issues, route
<1>6. d.ready <=> d.status = "waitingForConfirmation"
  <2>1. CASE missing # {} \/ issues # {} \/ route.question # None
    <3>1. d.status = "waitingForInformation"
      BY <2>1, <1>4 DEF StatusOf
    <3> QED BY <3>1, <2>1, <1>4
  <2>2. CASE missing = {} /\ issues = {} /\ route.question = None /\ ~MaterialsReady(materialsFound)
    <3>1. d.status = "waitingForMaterials"
      BY <2>2, <1>4 DEF StatusOf
    <3> QED BY <3>1, <2>2, <1>4
  <2>3. CASE missing = {} /\ issues = {} /\ route.question = None /\ MaterialsReady(materialsFound)
    <3>1. d.status = "waitingForConfirmation"
      BY <2>3, <1>4 DEF StatusOf
    <3> QED BY <3>1, <2>3, <1>4
  <2> QED BY <2>1, <2>2, <2>3
<1>7. d.question = None <=>
        /\ ~(issues # {}) /\ ~(missing # {}) /\ ~(route.question # None) /\ ~(materialsFound.question # None)
        /\ ~(DOMAIN materialsFound.missing # {})
        /\ ~(DOMAIN materialsFound.required # {} /\ materialsFound.complete # TRUE)
  <2>1. None \notin {"issues", "fields", "approval", "material", "missing", "list"}
    BY TextAssumption
  <2> DEFINE a == issues # {}
             b == missing # {}
             c == route.question # None
             e == materialsFound.question # None
             f == DOMAIN materialsFound.missing # {}
             g == DOMAIN materialsFound.required # {} /\ materialsFound.complete # TRUE
  <2>2. d.question = FirstKind(<< <<"issues", a>>, <<"fields", b>>, <<"approval", c>>, <<"material", e>>,
                                  <<"missing", f>>, <<"list", g>> >>)
    BY <1>4 DEF QuestionOf
  <2> HIDE DEF a, b, c, e, f, g
  <2>3. d.question = None <=> ~a /\ ~b /\ ~c /\ ~e /\ ~f /\ ~g
    BY <2>1, <2>2, SixKinds
  <2> QED BY <2>3 DEF a, b, c, e, f, g
<1>8. d.ready <=> d.question = None
  <2>1. ASSUME MaterialsReady(materialsFound) PROVE DOMAIN materialsFound.missing = {}
    BY <2>1, <1>5 DEF MaterialsReady
  <2> DEFINE none == DOMAIN materialsFound.required = {}
             full == materialsFound.complete = TRUE
             short == DOMAIN materialsFound.missing = {}
             asked == materialsFound.question = None
             ok == missing = {} /\ issues = {} /\ route.question = None
  <2>2. MaterialsReady(materialsFound) <=> asked /\ (none \/ full)
    BY DEF MaterialsReady
  <2>3. d.ready <=> ok /\ asked /\ (none \/ full)
    BY <1>4, <2>2
  <2>4. d.question = None <=> ok /\ asked /\ short /\ (none \/ full)
    BY <1>7
  <2>5. asked /\ (none \/ full) => short
    BY <2>1, <2>2
  <2> HIDE DEF none, full, short, asked, ok
  <2> QED BY <2>3, <2>4, <2>5
<1>9. d.ready => \A m \in DOMAIN d.materials.required :
                    /\ m \in DOMAIN d.materials.provided
                    /\ d.materials.provided[m] >= d.materials.required[m]
  BY <1>4, <1>5 DEF MaterialsReady
<1>10. ASSUME d.ready, d.type = "purchase", d.approval.request.type = "purchase"
       PROVE  d.approval.request.amount = TotalOf(d.fields)
  <2>1. missing = {} /\ issues = {} /\ route.question = None /\ type = "purchase" /\ resolved.type = "purchase"
    BY <1>10, <1>4, <1>2
  <2>2. TotalOf(fields) # None
    BY <2>1 DEF missing, MissingFields
  <2>3. resolved.amount # None
    <3>1. SUFFICES ASSUME resolved.amount = None PROVE FALSE
      OBVIOUS
    <3>2. route = PurchaseDecision(resolved)
      BY <2>1, Zenon DEF route, DecisionFor
    <3>3. PICK a : PurchaseDecision(resolved) = NoAnswer("purchase", "amount", a)
      BY <3>1, SMT DEF PurchaseDecision
    <3>4. NoAnswer("purchase", "amount", a).question = "amount" /\ "amount" # None
      BY TextAssumption DEF NoAnswer
    <3> QED BY <2>1, <3>2, <3>3, <3>4
  <2>4. ~(/\ type = "purchase" /\ resolved.amount # None /\ TotalOf(fields) # None
          /\ resolved.amount # TotalOf(fields))
    BY <2>1 DEF issues, Issues
  <2>5. resolved.amount = TotalOf(fields)
    BY <2>1, <2>2, <2>3, <2>4
  <2> QED BY <2>5, <1>2, <1>4
<1> QED BY <1>6, <1>8, <1>9, <1>10

-----------------------------------------------------------------------------
(* The inductive invariant of the requests.                                 *)

\* What was asked so far: the answers are those of texts of messages.
DraftInv ==
    /\ files \in {Absent} \cup {d.files : d \in Deployments}
    /\ message # None => IsMessage(message.text)
    /\ intent # None => message # None
    /\ IsText(messages)
    /\ approval # None => \E text : IsText(text) /\ approval = CheckApproval(text)
    /\ draft # None => IsDraft(draft) /\ approval = draft.approval

\* No request was made yet.
LEMMA DraftInit == RequestInit => DraftInv
<1>1. IsText(<<>>)
  <2> DEFINE s == <<>>
  <2>1. s \in Seq({}) /\ \A m \in {} : IsMessage(m)
    OBVIOUS
  <2> HIDE DEF s
  <2>2. IsText(s)
    BY <2>1 DEF IsText
  <2> QED BY <2>2 DEF s
<1> SUFFICES ASSUME RequestInit PROVE DraftInv
  OBVIOUS
<1>2. files = Absent /\ message = None /\ intent = None /\ messages = <<>> /\ approval = None /\ draft = None
  BY DEF RequestInit, Init, AnswerInit
<1> QED BY <1>1, <1>2 DEF DraftInv

\* A question about an approval is answered from its own message.
LEMMA AskedApproval ==
    ASSUME NEW m, IsMessage(m), Ask(m), DraftInv
    PROVE  /\ \E text : IsText(text) /\ approval' = CheckApproval(text)
           /\ UNCHANGED <<draft, messages>> /\ draft = None
BY OneMessage DEF Ask

\* A generated draft is that of its message.
LEMMA Generated ==
    ASSUME NEW m, IsMessage(m), Generate(m), DraftInv
    PROVE  /\ IsText(messages') /\ draft = None
           /\ approval' # None => \E text : IsText(text) /\ approval' = CheckApproval(text)
           /\ draft' # None => IsDraft(draft') /\ approval' = draft'.approval
<1>1. IsText(<<m>>)
  BY OneMessage
<1>2. draft = None /\ approval = None /\ draft' = Drafted(<<m>>, 1)
  BY DEF Generate
<1>3. CASE draft' = None
  BY <1>2, <1>3 DEF Generate, DraftInv
<1>4. CASE draft' # None
  <2>1. approval' = draft'.approval /\ messages' = <<m>>
    BY <1>4 DEF Generate
  <2>2. DraftType(<<m>>) \in Types
    BY <1>2, <1>4, DraftTypes DEF Drafted, DraftedAs
  <2>3. IsDraft(draft')
    BY <1>1, <1>2, <2>2 DEF IsDraft
  <2>4. approval' = CheckApproval(<<m>>)
    BY <1>1, <1>2, <2>1, <2>2, DraftOfText
  <2> QED BY <1>1, <1>2, <2>1, <2>3, <2>4
<1> QED BY <1>3, <1>4

\* A revised draft is that of the text its revision reads.
LEMMA Revised ==
    ASSUME NEW m, IsMessage(m), Revise(m), DraftInv
    PROVE  /\ IsText(messages')
           /\ \E text : IsText(text) /\ approval' = CheckApproval(text)
           /\ IsDraft(draft') /\ approval' = draft'.approval
<1>1. draft # None /\ IsDraft(draft) /\ IsText(messages)
  BY DEF Revise, DraftInv
<1>2. draft.type \in Types /\ TypedFields(draft.fields)
  BY <1>1, DraftOfText DEF IsDraft
<1> DEFINE text == RevisionText(draft, m)
<1>3. /\ IsText(text) /\ IsText(Append(messages, m)) /\ DraftType(text) \in Types
  BY <1>1, <1>2, RevisedText
<1>4. /\ draft' = Drafted(text, draft.revision + 1)
      /\ approval' = draft'.approval /\ messages' = Append(messages, m)
  BY DEF Revise
<1> HIDE DEF text
<1>5. IsDraft(draft')
  BY <1>3, <1>4 DEF IsDraft
<1>6. approval' = CheckApproval(text)
  BY <1>3, <1>4, DraftOfText
<1> QED BY <1>3, <1>4, <1>5, <1>6

\* The files are those of some deployment, and stay.
LEMMA FilesStart == ASSUME AnswerNext PROVE files' = files \/ \E d \in Deployments : files' = d.files
<1>1. ASSUME NEW d \in Deployments, Start(d.files, d.ocr) PROVE files' = d.files
  BY <1>1 DEF Start
<1>2. ASSUME OtherProcessWrites \/ NextDay \/ Search \/ SearchRefused \/ AttemptFails \/ AnswerWithoutWeb
      PROVE  files' = files
  BY <1>2 DEF OtherProcessWrites, NextDay, Search, SearchPolicy, SearchRefused, AttemptFails, AnswerWithoutWeb
<1>3. ASSUME NEW markers, Reply(markers) PROVE files' = files
  BY <1>3 DEF Reply
<1>4. ASSUME NEW payload, SearchWeb(payload) PROVE files' = files
  BY <1>4 DEF SearchWeb
<1> QED BY <1>1, <1>2, <1>3, <1>4 DEF AnswerNext

\* Every step of the requests keeps the invariant.
LEMMA DraftStep == DraftInv /\ [RequestNext]_requestVars => DraftInv'
<1> SUFFICES ASSUME DraftInv, [RequestNext]_requestVars PROVE DraftInv'
  OBVIOUS
<1> USE DEF DraftInv
<1>1. ASSUME Answering PROVE DraftInv'
  BY <1>1, FilesStart DEF Answering, vars
<1>2. ASSUME NEW m \in Messages(files), Receive(m) PROVE DraftInv'
  <2>1. IsMessage(m.text)
    BY RequestAssumption
  <2> QED BY <1>2, <2>1 DEF Receive, Free, answerVars, vars
<1>3. ASSUME NEW reply, Classify(reply) PROVE DraftInv'
  BY <1>3 DEF Classify, answerVars, vars
<1>4. ASSUME ClassifierFails PROVE DraftInv'
  BY <1>4 DEF ClassifierFails, answerVars, vars
<1>5. ASSUME AskApproval PROVE DraftInv'
  <2>1. intent # None /\ Ask(message.text)
    BY <1>5, TextAssumption DEF AskApproval
  <2>2. IsMessage(message.text)
    BY <2>1
  <2> QED BY <2>1, <2>2, <1>5, AskedApproval DEF AskApproval, answerVars
<1>6. ASSUME AskMaterials PROVE DraftInv'
  BY <1>6 DEF AskMaterials, answerVars, vars
<1>7. ASSUME GenerateDraft PROVE DraftInv'
  <2>1. intent # None /\ Generate(message.text)
    BY <1>7, TextAssumption DEF GenerateDraft
  <2>2. IsMessage(message.text)
    BY <2>1
  <2> QED BY <2>1, <2>2, <1>7, Generated DEF GenerateDraft, answerVars
<1>8. ASSUME UpdateDraft PROVE DraftInv'
  <2>1. PICK m \in Amendments : Revise(m)
    BY <1>8 DEF UpdateDraft
  <2>2. IsMessage(m)
    BY RulesAssumption
  <2> QED BY <2>1, <2>2, <1>8, Revised DEF UpdateDraft, answerVars
<1>9. ASSUME PolicyAnswered PROVE DraftInv'
  BY <1>9 DEF PolicyAnswered, vars
<1>10. ASSUME NEW who \in Askers, AnswerPolicy(who) PROVE DraftInv'
  BY <1>10 DEF AnswerPolicy, AskPolicy, vars
<1>11. ASSUME NEW who, NEW query, Research(who, query) PROVE DraftInv'
  BY <1>11 DEF Research, AskPolicy, vars
<1>12. ASSUME UNCHANGED requestVars PROVE DraftInv'
  BY <1>12 DEF requestVars, answerVars, vars
<1> QED BY <1>1, <1>2, <1>3, <1>4, <1>5, <1>6, <1>7, <1>8, <1>9, <1>10, <1>11, <1>12 DEF RequestNext

-----------------------------------------------------------------------------
(* The theorems.                                                            *)

\* The invariant holds in every behaviour.
LEMMA DraftInvariant == RequestSpec => []DraftInv
BY DraftInit, DraftStep, PTL DEF RequestSpec

\* An approval that asks no question names the approvers of the tier its policy puts the
\* request in, in the order of the policy, and cites its article: the levels, the extra
\* steps and the boundaries of approval_workflow.py, for every amount and every message.
THEOREM RoutesFollowThePolicy == RequestSpec => []RouteFollowsPolicy
<1>1. DraftInv => RouteFollowsPolicy
  <2> SUFFICES ASSUME DraftInv, approval # None, approval.decision.question = None
               PROVE  RouteFollowsPolicy
    BY DEF RouteFollowsPolicy
  <2>1. PICK text : IsText(text) /\ approval = CheckApproval(text)
    BY DEF DraftInv
  <2>2. approval.request = Resolved(text) /\ approval.decision = DecisionFor(approval.request)
    BY <2>1 DEF CheckApproval
  <2>3. AsThePolicySays(approval.request, approval.decision)
    BY <2>1, <2>2, RequestIsResolved, DecisionFollows
  <2> QED BY <2>3 DEF AsThePolicySays, RouteFollowsPolicy
<1> QED BY <1>1, DraftInvariant, PTL

\* A draft that is presented as ready to submit has every field its type needs, every
\* material in the number its policy asks for, and an approval without an open question.
THEOREM ReadyDraftsAreComplete == RequestSpec => []ReadyIsComplete
<1>1. DraftInv => ReadyIsComplete
  BY ReadyDraft DEF DraftInv, ReadyIsComplete
<1> QED BY <1>1, DraftInvariant, PTL

\* Where a number of a purchase can be read in a text.
QuantityAt(text) == {i \in DOMAIN text : QuantityRead(text[i])}
UnitAt(text) == {i \in DOMAIN text : UnitRead(text[i])}
TotalAt(text) == {i \in DOMAIN text : TotalRead(text[i])}

\* Where the numbers of a purchase come from.
LEMMA PurchaseNumbers ==
    ASSUME NEW text
    PROVE  /\ PurchaseFields(text).quantity = First(text, QuantityAt(text)).quantity
           /\ PurchaseFields(text).unit = First(text, UnitAt(text)).unit
           /\ PurchaseFields(text).total = First(text, TotalAt(text)).total
<1> DEFINE quantity == First(text, QuantityAt(text)).quantity
           unit == First(text, UnitAt(text)).unit
<1>1. PurchaseFields(text) = [Filled("purchase", text) EXCEPT
        !.quantity = quantity, !.unit = unit, !.total = StatedTotal(text), !.category = CategoryRead(text),
        !.it = ITFlag(text), !.emergency = EmergencyFlag(text)]
  BY DEF PurchaseFields, QuantityAt, UnitAt
<1> HIDE DEF quantity, unit
<1>2. PurchaseFields(text).quantity = quantity /\ PurchaseFields(text).unit = unit
      /\ PurchaseFields(text).total = StatedTotal(text)
  BY <1>1 DEF Filled, NoFields
<1> QED BY <1>2 DEF quantity, unit, StatedTotal, TotalAt

\* A revision keeps every number its amendment changes.
LEMMA ChangeWins ==
    ASSUME DraftInv, NEW m, IsMessage(m), Revise(m), draft.type = "purchase", draft'.type = "purchase", m.changes
    PROVE  /\ m.quantity # None /\ draft.fields.quantity # None => draft'.fields.quantity = m.quantity
           /\ m.unit # None => draft'.fields.unit = m.unit
           /\ m.total # None => draft'.fields.total = m.total
<1>1. draft # None /\ IsDraft(draft) /\ IsText(messages)
  BY DEF Revise, DraftInv
<1>2. "purchase" \in Types /\ TypedFields(draft.fields)
  BY <1>1, DraftOfText DEF IsDraft, Types
<1> DEFINE text == RevisionText(draft, m)
           merged == MergedFields(draft, m)
           first == Rendered("purchase", merged)
           probe == Probe(draft, m)
           read == FieldsRead(draft, <<probe>>)
<1>3. IsText(text) /\ DraftType(text) \in Types /\ 1 \in DOMAIN text /\ text[1] = first
      /\ \E i \in DOMAIN text : text[i] = m
  BY <1>1, <1>2, RevisedText
<1>4. draft' = Drafted(text, draft.revision + 1)
  BY DEF Revise
<1>5. DraftType(text) = "purchase"
      /\ draft'.fields = ExtractedFields(DraftType(text), text, CheckApproval(text).request)
  BY <1>3, <1>4, DraftOfText
<1>6. draft'.fields = PurchaseFields(text)
  BY <1>5 DEF ExtractedFields
<1> HIDE DEF text, merged, first, probe, read
<1>7. /\ draft'.fields.quantity = First(text, QuantityAt(text)).quantity
      /\ draft'.fields.unit = First(text, UnitAt(text)).unit
      /\ draft'.fields.total = First(text, TotalAt(text)).total
  BY <1>6, PurchaseNumbers
<1>8. first.quantity = merged.quantity /\ first.unit = merged.unit /\ first.total = merged.total
      /\ first.changes = FALSE
  <2>0. draft.type \in Types
    BY <1>2
  <2>1. TypedFields(merged)
    BY <2>0, <1>2, MergedAreTyped DEF merged
  <2> QED BY <2>1, RenderedIsMessage DEF first
\* The rendered fields come first, so that what they state is what is read.
<1>9. /\ merged.quantity # None => draft'.fields.quantity = merged.quantity
      /\ merged.unit # None => draft'.fields.unit = merged.unit
      /\ merged.total # None => draft'.fields.total = merged.total
  <2>1. ASSUME merged.quantity # None PROVE draft'.fields.quantity = merged.quantity
    <3> DEFINE at == QuantityAt(text)
    <3>1. 1 \in at /\ at \subseteq DOMAIN text
      BY <2>1, <1>3, <1>8 DEF QuantityRead, QuantityAt
    <3> HIDE DEF at
    <3>2. First(text, at) = first
      BY <3>1, <1>3, FirstFound
    <3> QED BY <3>2, <1>7, <1>8 DEF at
  <2>2. ASSUME merged.unit # None PROVE draft'.fields.unit = merged.unit
    <3> DEFINE at == UnitAt(text)
    <3>1. 1 \in at /\ at \subseteq DOMAIN text
      BY <2>2, <1>3, <1>8 DEF UnitRead, UnitAt
    <3> HIDE DEF at
    <3>2. First(text, at) = first
      BY <3>1, <1>3, FirstFound
    <3> QED BY <3>2, <1>7, <1>8 DEF at
  <2>3. ASSUME merged.total # None PROVE draft'.fields.total = merged.total
    <3> DEFINE at == TotalAt(text)
    <3>1. 1 \in at /\ at \subseteq DOMAIN text
      BY <2>3, <1>3, <1>8 DEF TotalRead, TotalAt
    <3> HIDE DEF at
    <3>2. First(text, at) = first
      BY <3>1, <1>3, FirstFound
    <3> QED BY <3>2, <1>7, <1>8 DEF at
  <2> QED BY <2>1, <2>2, <2>3
\* The amendment alone is a purchase too: it adds no other claim.
<1>10. IsMessage(probe) /\ probe.says = m.says \cup Words(Cue["purchase"]) /\ probe.changes = FALSE
       /\ probe.unit = m.unit /\ probe.total = m.total
  BY <1>2, ProbeIsMessage DEF probe, TypedFields
<1>11. Words(Cue["purchase"]) = {"buy"}
  <2>1. Cue["purchase"] = {"buy"}
    BY DEF Cue
  <2>2. {"buy"} \cap DOMAIN Containing = {}
    BY DEF Containing
  <2> QED BY <2>1, <2>2 DEF Words
<1>12. IsText(<<probe>>) /\ DOMAIN <<probe>> = {1} /\ <<probe>>[1] = probe
  BY <1>10, OneMessage
<1> DEFINE alone == <<probe>>
<1> HIDE DEF alone
<1>13. IsText(alone) /\ DOMAIN alone = {1} /\ alone[1] = probe
  BY <1>12 DEF alone
<1>14. DraftType(alone) = "purchase"
  <2>1. ~Says(text, "tripClaim") /\ ~Says(text, "expenseClaim")
    BY <1>5, DraftTypes
  <2>2. "tripClaim" \notin m.says /\ "expenseClaim" \notin m.says
    BY <2>1, <1>3 DEF Says
  <2>3. ~Says(alone, "tripClaim") /\ ~Says(alone, "expenseClaim") /\ Says(alone, "buy")
    BY <2>2, <1>10, <1>11, <1>13 DEF Says
  <2>4. SaysAny(alone, {"buy", "acquire"})
    BY <2>3 DEF SaysAny
  <2> QED BY <2>3, <2>4, DraftTypes
<1>15. read.unit = First(alone, UnitAt(alone)).unit
       /\ read.total = First(alone, TotalAt(alone)).total
  <2>1. read = Drafted(alone, 0).fields
    <3>1. Drafted(alone, 0).type = "purchase"
      BY <1>2, <1>13, <1>14, DraftOfText
    <3> QED BY <3>1 DEF read, FieldsRead, alone
  <2>2. Drafted(alone, 0).fields = PurchaseFields(alone)
    BY <1>2, <1>13, <1>14, DraftOfText DEF ExtractedFields
  <2> QED BY <2>1, <2>2, PurchaseNumbers
<1>16. m.unit # None => read.unit = m.unit
  <2> SUFFICES ASSUME m.unit # None PROVE read.unit = m.unit
    OBVIOUS
  <2> DEFINE at == UnitAt(alone)
  <2>1. 1 \in at /\ at \subseteq DOMAIN alone
    BY <1>10, <1>13 DEF UnitRead, UnitAt
  <2> HIDE DEF at
  <2>2. First(alone, at) = probe
    BY <2>1, <1>13, FirstFound
  <2> QED BY <2>2, <1>10, <1>15 DEF at
<1>17. m.total # None => read.total = m.total
  <2> SUFFICES ASSUME m.total # None PROVE read.total = m.total
    OBVIOUS
  <2> DEFINE at == TotalAt(alone)
  <2>1. 1 \in at /\ at \subseteq DOMAIN alone
    BY <1>10, <1>13 DEF TotalRead, TotalAt
  <2> HIDE DEF at
  <2>2. First(alone, at) = probe
    BY <2>1, <1>13, FirstFound
  <2> QED BY <2>2, <1>10, <1>15 DEF at
<1>18. /\ read.unit # None => merged.unit = read.unit
       /\ read.total # None => merged.total = read.total
  BY <1>2, MergedAreTyped DEF read, merged, probe
<1>19. m.quantity # None /\ draft.fields.quantity # None => merged.quantity = m.quantity
  <2> SUFFICES ASSUME m.quantity # None, draft.fields.quantity # None PROVE merged.quantity = m.quantity
    OBVIOUS
  <2>1. Override(draft, m) = m.quantity
    BY DEF Override
  <2> QED BY <2>1, <1>2, MergedAreTyped DEF merged
<1> QED BY <1>9, <1>16, <1>17, <1>18, <1>19

\* A revision of a purchase ends with the number the last amendment changes it to: it is not
\* lost between the fields rendered first, the earlier messages and the amendment itself.
THEOREM LastChangesWin == RequestSpec => LastChangeWins
<1> DEFINE A == LET m == Last(messages')
                IN  draft # None /\ draft.type = "purchase" /\ draft'.type = "purchase"
                      /\ messages' # messages /\ m.changes
                    => /\ m.quantity # None /\ draft.fields.quantity # None
                            => draft'.fields.quantity = m.quantity
                       /\ m.unit # None => draft'.fields.unit = m.unit
                       /\ m.total # None => draft'.fields.total = m.total
<1>1. DraftInv /\ [RequestNext]_requestVars => [A]_vars
  <2> SUFFICES ASSUME DraftInv, [RequestNext]_requestVars, messages' # messages, draft # None PROVE A
    BY DEF vars
  <2>1. UpdateDraft
    BY DEF RequestNext, requestVars, vars, Answering, Receive, Classify, ClassifierFails, AskApproval, Ask,
           AskMaterials, GenerateDraft, Generate, PolicyAnswered, AnswerPolicy, Research
  <2>2. PICK m \in Amendments : Revise(m)
    BY <2>1 DEF UpdateDraft
  <2>3. IsMessage(m)
    BY RulesAssumption
  <2>4. messages' = Append(messages, m) /\ Last(messages') = m
    <3>1. PICK S : messages \in Seq(S)
      BY DEF DraftInv, IsText
    <3>2. messages \in Seq(S \cup {m}) /\ Len(messages) \in Nat
      BY <3>1
    <3>3. Len(Append(messages, m)) = Len(messages) + 1 /\ Append(messages, m)[Len(messages) + 1] = m
      BY <3>2
    <3>4. messages' = Append(messages, m)
      BY <2>2 DEF Revise
    <3> QED BY <3>3, <3>4 DEF Last
  <2> QED BY <2>2, <2>3, <2>4, ChangeWins
<1>2. RequestSpec => [][A]_vars
  <2> HIDE DEF A
  <2> QED BY <1>1, DraftInvariant, PTL DEF RequestSpec
<1> QED BY <1>2 DEF LastChangeWins

-----------------------------------------------------------------------------
(* Places in an order, and totals of numbers.                               *)

\* A strict total order of a set.
InTotalOrder(S, before) ==
    /\ \A a \in S : <<a, a>> \notin before
    /\ \A a, b, c \in S : <<a, b>> \in before /\ <<b, c>> \in before => <<a, c>> \in before
    /\ \A a, b \in S : a = b \/ <<a, b>> \in before \/ <<b, a>> \in before

\* The elements before b.
Preceding(S, before, b) == {a \in S : <<a, b>> \in before}

\* A finite set that is put in order: every element has one place, and every place one
\* element, those before in the places before.
LEMMA InOrderPlaces ==
    ASSUME NEW S, IsFiniteSet(S), NEW before, InTotalOrder(S, before)
    PROVE  /\ Cardinality(S) \in Nat
           /\ InOrder(S, before) \in [1..Cardinality(S) -> S]
           /\ \A x \in S : \E i \in 1..Cardinality(S) : InOrder(S, before)[i] = x
           /\ \A i, j \in 1..Cardinality(S) :
                 <<InOrder(S, before)[i], InOrder(S, before)[j]>> \in before <=> i < j
           /\ \A i, j \in 1..Cardinality(S) : InOrder(S, before)[i] = InOrder(S, before)[j] => i = j
<1> DEFINE N == Cardinality(S)
           P(b) == Preceding(S, before, b)
           place == [b \in S |-> Cardinality(P(b)) + 1]
           r == InOrder(S, before)
<1>1. N \in Nat
  BY FS_CardinalityType
<1>2. ASSUME NEW b \in S PROVE IsFiniteSet(P(b)) /\ Cardinality(P(b)) \in 0..(N - 1)
  <2>1. P(b) \in SUBSET (S \ {b})
    BY DEF InTotalOrder, Preceding
  <2>2. IsFiniteSet(S \ {b}) /\ Cardinality(S \ {b}) = N - 1
    BY FS_RemoveElement
  <2> HIDE DEF P
  <2>3. IsFiniteSet(P(b)) /\ Cardinality(P(b)) <= N - 1
    BY <2>1, <2>2, FS_Subset
  <2>4. Cardinality(P(b)) \in Nat
    BY <2>3, FS_CardinalityType
  <2> QED BY <1>1, <2>3, <2>4
<1>3. ASSUME NEW a \in S, NEW b \in S, <<a, b>> \in before PROVE place[a] < place[b]
  <2>1. P(a) \in SUBSET P(b) /\ a \in P(b) /\ a \notin P(a)
    BY <1>3 DEF InTotalOrder, Preceding
  <2> HIDE DEF P
  <2>2. Cardinality(P(a)) <= Cardinality(P(b)) /\ Cardinality(P(a)) # Cardinality(P(b))
    BY <1>2, <2>1, FS_Subset
  <2>3. Cardinality(P(a)) \in Int /\ Cardinality(P(b)) \in Int
    BY <1>1, <1>2
  <2> QED BY <2>2, <2>3
<1>4. place \in [S -> 1..N]
  <2> HIDE DEF P
  <2> QED BY <1>1, <1>2
<1>5. \A a, b \in S : place[a] < place[b] <=> <<a, b>> \in before
  <2> SUFFICES ASSUME NEW a \in S, NEW b \in S, place[a] < place[b] PROVE <<a, b>> \in before
    BY <1>3
  <2>1. place[a] \in Int /\ place[b] \in Int
    BY <1>1, <1>4
  <2> HIDE DEF place
  <2>2. a # b
    BY <2>1
  <2>3. ~(<<b, a>> \in before)
    BY <1>3, <2>1
  <2> QED BY <2>2, <2>3 DEF InTotalOrder
<1>6. \A a, b \in S : place[a] = place[b] => a = b
  <2> SUFFICES ASSUME NEW a \in S, NEW b \in S, place[a] = place[b], a # b PROVE FALSE
    OBVIOUS
  <2>1. place[a] \in Int /\ place[b] \in Int
    BY <1>1, <1>4
  <2>2. <<a, b>> \in before \/ <<b, a>> \in before
    BY DEF InTotalOrder
  <2> HIDE DEF place
  <2>3. place[a] < place[b] \/ place[b] < place[a]
    BY <1>3, <2>2
  <2> QED BY <2>1, <2>3
<1>7. \A i \in 1..N : \E x \in S : place[x] = i
  <2>1. place \in Injection(S, 1..N)
    <3> HIDE DEF place
    <3> QED BY <1>4, <1>6 DEF Injection, IsInjective
  <2>2. IsFiniteSet(1..N) /\ Cardinality(1..N) = N
    BY <1>1, FS_Interval
  <2> HIDE DEF place
  <2>3. place \in Surjection(S, 1..N)
    BY <2>1, <2>2, FS_Injection
  <2> QED BY <2>3 DEF Surjection
<1>8. r = [i \in 1..N |-> CHOOSE x \in S : place[x] = i]
  BY DEF InOrder, Preceding
<1> HIDE DEF place, r
<1>9. \A i \in 1..N : r[i] \in S /\ place[r[i]] = i
  BY <1>7, <1>8
<1>10. r \in [1..N -> S]
  BY <1>8, <1>9
<1>11. \A x \in S : \E i \in 1..N : r[i] = x
  <2> SUFFICES ASSUME NEW x \in S PROVE r[place[x]] = x /\ place[x] \in 1..N
    OBVIOUS
  <2> QED BY <1>4, <1>6, <1>9
<1>12. \A i, j \in 1..N : <<r[i], r[j]>> \in before <=> i < j
  BY <1>5, <1>9
<1>13. \A i, j \in 1..N : r[i] = r[j] => i = j
  BY <1>9
<1> QED BY <1>1, <1>10, <1>11, <1>12, <1>13 DEF r

\* A family of subsets of a finite set has one that is minimal.
LEMMA MinimalSubset ==
    ASSUME NEW D, IsFiniteSet(D), NEW F \in SUBSET (SUBSET D), F # {}
    PROVE  \E T \in F : \A S \in F : S \subseteq T => S = T
<1> DEFINE R == StrictSubsetOrdering(D)
<1>1. IsWellFoundedOn(R, FiniteSubsetsOf(D))
  BY FS_StrictSubsetOrderingWellFounded
<1>2. F \subseteq FiniteSubsetsOf(D)
  BY FS_Subset DEF FiniteSubsetsOf
<1>3. PICK T \in F : \A S \in F : <<S, T>> \notin R
  <2> HIDE DEF R
  <2> QED BY <1>1, <1>2, WFMin
<1> QED BY <1>3 DEF StrictSubsetOrdering

\* A function that adds the numbers of every subset of D, element by element.
Chosen(S) == CHOOSE x \in S : TRUE
\* f adds the numbers of every subset of D, one chosen element after the other.
Sums(f, numbers, D) ==
    f = [S \in SUBSET D |-> IF S = {} THEN 0 ELSE numbers[Chosen(S)] + f[S \ {Chosen(S)}]]

\* Such a function at one subset: zero, or the chosen number and the rest.
LEMMA SumsStep ==
    ASSUME NEW f, NEW numbers, NEW D, Sums(f, numbers, D), NEW S \in SUBSET D
    PROVE  f[S] = IF S = {} THEN 0 ELSE numbers[Chosen(S)] + f[S \ {Chosen(S)}]
BY DEF Sums

\* Two of them agree where both are defined.
LEMMA SumsAgree ==
    ASSUME NEW numbers, NEW D, NEW E, IsFiniteSet(D), NEW f, NEW g, Sums(f, numbers, D), Sums(g, numbers, E),
           NEW S \in SUBSET (D \cap E)
    PROVE  f[S] = g[S]
<1> DEFINE F == {T \in SUBSET S : f[T] # g[T]}
<1>1. SUFFICES ASSUME F # {} PROVE FALSE
  OBVIOUS
<1>2. F \in SUBSET (SUBSET D)
  OBVIOUS
<1>3. PICK T \in F : \A U \in F : U \subseteq T => U = T
  <2> HIDE DEF F
  <2> QED BY <1>1, <1>2, MinimalSubset
<1>4. T \in SUBSET D /\ T \in SUBSET E /\ T \in SUBSET S
  OBVIOUS
<1> DEFINE x == Chosen(T)
           U == T \ {x}
<1>5. f[T] = IF T = {} THEN 0 ELSE numbers[x] + f[U]
  BY <1>4, SumsStep
<1>6. g[T] = IF T = {} THEN 0 ELSE numbers[x] + g[U]
  BY <1>4, SumsStep
<1>7. CASE T = {}
  BY <1>3, <1>5, <1>6, <1>7
<1>8. CASE T # {}
  <2>1. x \in T
    BY <1>8 DEF Chosen
  <2>2. U \notin F
    BY <1>3, <2>1
  <2>3. f[U] = g[U]
    BY <1>4, <2>2
  <2> QED BY <1>3, <1>5, <1>6, <2>3
<1> QED BY <1>7, <1>8

\* There is one.
LEMMA SumsExist ==
    ASSUME NEW numbers, NEW D, IsFiniteSet(D)
    PROVE  \E f : Sums(f, numbers, D)
<1> DEFINE F == {T \in SUBSET D : ~ \E f : Sums(f, numbers, T)}
<1>1. SUFFICES ASSUME F # {} PROVE FALSE
  OBVIOUS
<1>2. F \in SUBSET (SUBSET D)
  OBVIOUS
<1>3. PICK T \in F : \A U \in F : U \subseteq T => U = T
  <2> HIDE DEF F
  <2> QED BY <1>1, <1>2, MinimalSubset
<1> DEFINE Of(S) == CHOOSE f : Sums(f, numbers, S)
           x == Chosen(T)
           low == [S \in SUBSET T |-> IF S = {} THEN 0 ELSE Of(S)[S]]
           top == numbers[x] + low[T \ {x}]
           f == [S \in SUBSET T |-> IF S = {} THEN 0 ELSE IF S = T THEN top ELSE Of(S)[S]]
<1>4. ASSUME NEW S \in SUBSET T, S # T PROVE Sums(Of(S), numbers, S)
  <2>1. \E h : Sums(h, numbers, S)
    BY <1>3, <1>4
  <2> QED BY <2>1
<1>5. ASSUME NEW S \in SUBSET T, S # {} PROVE f[S] = numbers[Chosen(S)] + f[S \ {Chosen(S)}]
  <2> DEFINE y == Chosen(S)
             U == S \ {y}
  <2>1. y \in S /\ U \in SUBSET T /\ U # T /\ U \in SUBSET S
    BY <1>5 DEF Chosen
  <2>2. f[U] = IF U = {} THEN 0 ELSE Of(U)[U]
    <3> HIDE DEF U, Of, top
    <3> QED BY <2>1
  <2>3. CASE S = T
    <3>1. f[S] = top
      <4> HIDE DEF top, Of
      <4> QED BY <1>5, <2>3
    <3>2. low[U] = f[U]
      <4> HIDE DEF U, Of, top, f
      <4> QED BY <2>1, <2>2
    <3> HIDE DEF f, low
    <3> QED BY <2>3, <3>1, <3>2
  <2>4. CASE S # T
    <3>1. f[S] = Of(S)[S]
      <4> HIDE DEF top, Of
      <4> QED BY <1>5, <2>4
    <3>2. Sums(Of(S), numbers, S)
      <4> HIDE DEF Of
      <4> QED BY <1>4, <2>4
    <3> DEFINE g == Of(S)
    <3>3. g[S] = numbers[y] + g[U]
      <4>1. g[S] = IF S = {} THEN 0 ELSE numbers[Chosen(S)] + g[S \ {Chosen(S)}]
        <5>1. Sums(g, numbers, S) /\ S \in SUBSET S
          BY <3>2
        <5> HIDE DEF g
        <5> QED BY <5>1, SumsStep
      <4> HIDE DEF g
      <4> QED BY <1>5, <4>1
    <3>4. g[U] = f[U]
      <4>1. CASE U = {}
        <5>1. g[U] = 0
          <6>1. Sums(g, numbers, S) /\ U \in SUBSET S
            BY <2>1, <3>2
          <6> HIDE DEF g, U
          <6>2. g[U] = IF U = {} THEN 0 ELSE numbers[Chosen(U)] + g[U \ {Chosen(U)}]
            BY <6>1, SumsStep
          <6> QED BY <4>1, <6>2
        <5> HIDE DEF g, U, f, Of
        <5> QED BY <2>2, <4>1, <5>1
      <4>2. CASE U # {}
        <5> DEFINE h == Of(U)
        <5>1. Sums(h, numbers, U)
          <6> HIDE DEF Of, U
          <6> QED BY <1>4, <2>1
        <5>2. IsFiniteSet(S)
          BY FS_Subset
        <5>3. g[U] = h[U]
          <6>1. Sums(g, numbers, S) /\ U \in SUBSET (S \cap U)
            BY <2>1, <3>2
          <6> HIDE DEF g, h, U
          <6> QED BY <5>1, <5>2, <6>1, SumsAgree
        <5> HIDE DEF f, g, U
        <5> QED BY <2>2, <4>2, <5>3
      <4> QED BY <4>1, <4>2
    <3> HIDE DEF f, g
    <3> QED BY <3>1, <3>3, <3>4 DEF g
  <2> QED BY <2>3, <2>4
<1>6. f[{}] = 0 /\ {} \in SUBSET T
  <2> HIDE DEF Of, top
  <2> QED OBVIOUS
<1>7. f = [S \in SUBSET T |-> f[S]]
  <2> HIDE DEF Of, top
  <2> QED OBVIOUS
<1> HIDE DEF f
<1>8. Sums(f, numbers, T)
  BY <1>5, <1>6, <1>7 DEF Sums
<1> QED BY <1>3, <1>8

\* The total of finitely many numbers, and of one and of none.
LEMMA TotalOfNumbers ==
    ASSUME NEW numbers, IsFiniteSet(DOMAIN numbers), \A x \in DOMAIN numbers : numbers[x] \in Int
    PROVE  /\ Total(numbers) \in Int
           /\ (\A x \in DOMAIN numbers : numbers[x] >= 0) => Total(numbers) >= 0
           /\ DOMAIN numbers = {} => Total(numbers) = 0
           /\ \A x : DOMAIN numbers = {x} => Total(numbers) = numbers[x]
<1> DEFINE D == DOMAIN numbers
           f == CHOOSE f : Sums(f, numbers, D)
<1>1. Sums(f, numbers, D)
  BY SumsExist
<1>2. Total(numbers) = f[D]
  BY DEF Total, Sums, Chosen
<1> HIDE DEF f
<1>3. ASSUME NEW S \in SUBSET D
      PROVE  f[S] \in Int /\ ((\A x \in D : numbers[x] >= 0) => f[S] >= 0)
  <2> DEFINE F == {T \in SUBSET D : ~(f[T] \in Int /\ ((\A x \in D : numbers[x] >= 0) => f[T] >= 0))}
  <2>1. SUFFICES ASSUME F # {} PROVE FALSE
    OBVIOUS
  <2>2. PICK T \in F : \A U \in F : U \subseteq T => U = T
    <3>1. F \in SUBSET (SUBSET D)
      OBVIOUS
    <3> HIDE DEF F
    <3> QED BY <2>1, <3>1, MinimalSubset
  <2> DEFINE x == Chosen(T)
             U == T \ {x}
  <2>3. f[T] = IF T = {} THEN 0 ELSE numbers[x] + f[U]
    BY <1>1, SumsStep
  <2>4. CASE T = {}
    BY <2>2, <2>3, <2>4
  <2>5. CASE T # {}
    <3>1. x \in T
      BY <2>5 DEF Chosen
    <3>2. U \notin F
      BY <2>2, <3>1
    <3>3. U \in SUBSET D /\ x \in D
      BY <3>1
    <3>4. f[U] \in Int /\ ((\A y \in D : numbers[y] >= 0) => f[U] >= 0) /\ numbers[x] \in Int
      BY <3>2, <3>3
    <3>5. f[T] = numbers[x] + f[U]
      BY <2>3, <2>5
    <3> HIDE DEF U, x
    <3>6. f[T] \in Int /\ ((\A y \in D : numbers[y] >= 0) => f[T] >= 0)
      BY <3>3, <3>4, <3>5
    <3> QED BY <2>2, <3>6
  <2> QED BY <2>4, <2>5
<1>4. D = {} => f[D] = 0
  BY <1>1, SumsStep
<1>5. ASSUME NEW x, D = {x} PROVE f[D] = numbers[x]
  <2>1. Chosen(D) = x /\ D \ {x} = {}
    BY <1>5 DEF Chosen
  <2> HIDE DEF D
  <2>2. f[D] = IF D = {} THEN 0 ELSE numbers[Chosen(D)] + f[D \ {Chosen(D)}]
    BY <1>1, SumsStep
  <2>3. {} \in SUBSET D
    OBVIOUS
  <2>4. f[{}] = IF {} = {} THEN 0 ELSE numbers[Chosen({})] + f[{} \ {Chosen({})}]
    BY <1>1, <2>3, SumsStep
  <2>5. D # {}
    BY <1>5
  <2>6. f[D] = numbers[x] + f[{}]
    BY <2>1, <2>2, <2>5
  <2>7. numbers[x] \in Int
    BY <1>5 DEF D
  <2> QED BY <2>4, <2>6, <2>7
<1> QED BY <1>2, <1>3, <1>4, <1>5

-----------------------------------------------------------------------------
(* Keyword scores and rankings.                                             *)

\* What a search relies on of the chunks.
WellCut(chunks) ==
    /\ Len(chunks) \in Nat
    /\ DOMAIN chunks = 1..Len(chunks)
    /\ 1..(2 * Len(chunks) + 2) \subseteq DOMAIN Ln
    /\ \A c \in DOMAIN chunks :
          /\ chunks[c].id \in Int \X Int
          /\ IsFiniteSet(DOMAIN chunks[c].lines)
          /\ \A relevance \in Relevances \ {Absent} : relevance[chunks[c].id] \in Int
    /\ \A c, d \in DOMAIN chunks : chunks[c].id = chunks[d].id => c = d

\* What a directory is cut into is fit to be searched.
LEMMA DirectoryIsWellCut ==
    ASSUME NEW d \in Deployments, ChunkDirectory(d.files, d.ocr) # Absent
    PROVE  WellCut(ChunkDirectory(d.files, d.ocr))
<1> DEFINE chunks == ChunkDirectory(d.files, d.ocr)
<1>1. \A c, e \in DOMAIN chunks : chunks[c].id = chunks[e].id => c = e
  <2> DEFINE cut == [f \in DOMAIN d.files |-> ChunksOf(d.files[f], Load(d.files[f], d.ocr))]
             flat == FlattenSeq(cut)
             ids == [c \in DOMAIN flat |-> flat[c].id]
  <2>1. chunks = IF (\E f \in DOMAIN d.files : cut[f] = Absent) \/ ~IsInjective(ids) THEN Absent ELSE flat
    BY DEF ChunkDirectory
  <2> HIDE DEF cut, flat, chunks
  <2>2. chunks = flat /\ IsInjective(ids)
    <3> HIDE DEF ids
    <3> QED BY <2>1 DEF chunks
  <2> QED BY <2>2 DEF IsInjective
<1> HIDE DEF chunks
<1>2. /\ Len(chunks) \in Nat
      /\ DOMAIN chunks = 1..Len(chunks)
      /\ 1..(2 * Len(chunks) + 2) \subseteq DOMAIN Ln
      /\ \A c \in DOMAIN chunks :
            /\ chunks[c].id \in Int \X Int
            /\ Len(chunks[c].lines) \in Nat
            /\ DOMAIN chunks[c].lines = 1..Len(chunks[c].lines)
            /\ \A relevance \in Relevances \ {Absent} : relevance[chunks[c].id] \in Int
  BY AnswerAssumption DEF chunks
<1>3. \A n \in Nat : IsFiniteSet(1..n)
  BY FS_Interval
<1>4. WellCut(chunks)
  BY <1>1, <1>2, <1>3 DEF WellCut
<1> QED BY <1>4 DEF chunks

\* A text holds a term as often as its words allow.
LEMMA WordsCount ==
    ASSUME NEW lines, IsFiniteSet(DOMAIN lines), NEW term
    PROVE  Frequency(lines, term) \in Nat /\ WordCount(lines) \in Nat /\ Frequency(lines, term) <= WordCount(lines)
<1> DEFINE W == WordsOf(lines)
           F == {i \in W : lines[i].what = term}
<1>1. W \in SUBSET DOMAIN lines /\ F \in SUBSET W
  BY DEF WordsOf
<1> HIDE DEF W, F
<1>2. IsFiniteSet(W)
  BY <1>1, FS_Subset
<1>3. IsFiniteSet(F) /\ Cardinality(F) <= Cardinality(W)
  BY <1>1, <1>2, FS_Subset
<1>4. Cardinality(F) \in Nat /\ Cardinality(W) \in Nat
  BY <1>2, <1>3, FS_CardinalityType
<1> QED BY <1>3, <1>4 DEF Frequency, WordCount, W, F

\* A quotient of integers is an integer.
LEMMA Quotients ==
    ASSUME NEW a \in Int, NEW b \in Nat, b > 0
    PROVE  a \div b \in Int
OBVIOUS

\* So is a product.
LEMMA Products ==
    \A a, b \in Nat : a * b \in Nat /\ (a > 0 /\ b > 0 => a * b > 0)
OBVIOUS

\* The score of one term is a number.
LEMMA TermScores ==
    ASSUME NEW f \in Nat, NEW d \in Nat, NEW n \in Nat, NEW length \in Nat, NEW total \in Nat,
           f <= length, d <= n, n > 0, 1..(2 * n + 2) \subseteq DOMAIN Ln
    PROVE  TermScore(f, d, n, length, total) \in Int
<1> DEFINE up == Ln[2 * n + 2]
           down == Ln[2 * d + 1]
           above == (up - down) * 22 * f * total
           below == 10 * f * total + 3 * total + 9 * length * n
<1>1. up \in Int /\ down \in Int
  <2>1. 2 * n + 2 \in DOMAIN Ln /\ 2 * d + 1 \in DOMAIN Ln
    OBVIOUS
  <2> QED BY <2>1, AnswerAssumption
<1>2. above \in Int
  <2> HIDE DEF up, down
  <2> QED BY <1>1
<1>3. CASE f = 0
  BY <1>3 DEF TermScore
<1>4. CASE f # 0
  <2>1. below \in Nat /\ below > 0
    <3>1. length > 0
      BY <1>4
    <3>2. f * total \in Nat /\ length * n \in Nat /\ length * n > 0
      BY <3>1, Products
    <3>3. below = 10 * (f * total) + 3 * total + 9 * (length * n)
      OBVIOUS
    <3> DEFINE x == f * total
               y == length * n
    <3> HIDE DEF x, y, below
    <3>4. x \in Nat /\ y \in Nat /\ y > 0 /\ below = 10 * x + 3 * total + 9 * y
      BY <3>2, <3>3 DEF x, y
    <3> QED BY <3>4
  <2>2. TermScore(f, d, n, length, total) = above \div below
    BY <1>4 DEF TermScore
  <2> HIDE DEF above, below
  <2> QED BY <1>2, <2>1, <2>2, Quotients
<1> QED BY <1>3, <1>4

\* So is the score of a text for a question.
LEMMA KeywordScoreIsNumber ==
    ASSUME NEW lines, NEW terms, NEW texts, IsFiniteSet(DOMAIN lines), IsFiniteSet(terms),
           IsFiniteSet(DOMAIN texts), DOMAIN texts # {}, \A r \in DOMAIN texts : IsFiniteSet(DOMAIN texts[r]),
           1..(2 * Cardinality(DOMAIN texts) + 2) \subseteq DOMAIN Ln
    PROVE  KeywordScore(lines, terms, texts) \in Int
<1> DEFINE n == Cardinality(DOMAIN texts)
           lengths == [r \in DOMAIN texts |-> WordCount(texts[r])]
           total == Total(lengths)
           Holders(t) == {r \in DOMAIN texts : Frequency(texts[r], t) > 0}
           score == [t \in terms |-> TermScore(Frequency(lines, t), Cardinality(Holders(t)), n, WordCount(lines), total)]
<1>1. n \in Nat /\ n > 0
  <2>1. n \in Nat
    BY FS_CardinalityType
  <2>2. n # 0
    BY FS_EmptySet
  <2> QED BY <2>1, <2>2
<1>2. total \in Nat
  <2>1. DOMAIN lengths = DOMAIN texts /\ \A r \in DOMAIN lengths : lengths[r] \in Nat
    BY WordsCount
  <2> HIDE DEF lengths
  <2>2. \A r \in DOMAIN lengths : lengths[r] \in Int /\ lengths[r] >= 0
    BY <2>1
  <2>3. total \in Int /\ total >= 0
    BY <2>1, <2>2, TotalOfNumbers
  <2> QED BY <2>3
<1>3. ASSUME NEW t \in terms PROVE Cardinality(Holders(t)) \in Nat /\ Cardinality(Holders(t)) <= n
  <2>1. Holders(t) \in SUBSET DOMAIN texts
    OBVIOUS
  <2> HIDE DEF Holders
  <2>2. IsFiniteSet(Holders(t)) /\ Cardinality(Holders(t)) <= n
    BY <2>1, FS_Subset
  <2> QED BY <2>2, FS_CardinalityType
<1> HIDE DEF n, total, Holders
<1>4. ASSUME NEW t \in terms PROVE score[t] \in Int
  <2>1. Frequency(lines, t) \in Nat /\ WordCount(lines) \in Nat /\ Frequency(lines, t) <= WordCount(lines)
    BY WordsCount
  <2>2. 1..(2 * n + 2) \subseteq DOMAIN Ln
    BY DEF n
  <2> QED BY <1>1, <1>2, <1>3, <2>1, <2>2, TermScores
<1>5. DOMAIN score = terms
  OBVIOUS
<1>6. KeywordScore(lines, terms, texts) = Total(score)
  BY DEF KeywordScore, n, total, Holders
<1> HIDE DEF score
<1> QED BY <1>4, <1>5, <1>6, TotalOfNumbers

\* The texts a ranking is over are those of the chunks in its scope.
LEMMA TextsAreOfChunks ==
    ASSUME NEW chunks, WellCut(chunks), NEW scope
    PROVE  /\ DOMAIN TextsOf(chunks, scope) = Ids(chunks) \cap scope
           /\ IsFiniteSet(Ids(chunks) \cap scope)
           /\ Cardinality(Ids(chunks) \cap scope) \in 0..Len(chunks)
           /\ \A c \in DOMAIN chunks :
                 chunks[c].id \in scope => TextsOf(chunks, scope)[chunks[c].id] = chunks[c].lines
<1> DEFINE T == Ids(chunks) \cap scope
<1>1. DOMAIN TextsOf(chunks, scope) = T
  BY DEF TextsOf, Ids
<1>2. IsFiniteSet(T) /\ Cardinality(T) \in 0..Len(chunks)
  <2> DEFINE C == {c \in DOMAIN chunks : chunks[c].id \in scope}
             f == [c \in C |-> chunks[c].id]
  <2>1. f \in Surjection(C, T)
    BY DEF Ids, Surjection
  <2>2. C \in SUBSET (1..Len(chunks)) /\ Len(chunks) \in Nat
    BY DEF WellCut
  <2>3. IsFiniteSet(1..Len(chunks)) /\ Cardinality(1..Len(chunks)) = Len(chunks)
    <3>1. \A n \in Nat : IsFiniteSet(1..n) /\ Cardinality(1..n) = n
      BY FS_Interval
    <3> QED BY <2>2, <3>1
  <2> HIDE DEF C, f, T
  <2>4. IsFiniteSet(C) /\ Cardinality(C) <= Len(chunks)
    BY <2>2, <2>3, FS_Subset
  <2>5. IsFiniteSet(T) /\ Cardinality(T) <= Cardinality(C)
    BY <2>1, <2>4, FS_Surjection
  <2>6. Cardinality(T) \in Nat /\ Cardinality(C) \in Nat
    BY <2>4, <2>5, FS_CardinalityType
  <2> QED BY <2>2, <2>4, <2>5, <2>6
<1>3. ASSUME NEW c \in DOMAIN chunks, chunks[c].id \in scope
      PROVE  TextsOf(chunks, scope)[chunks[c].id] = chunks[c].lines
  <2>1. chunks[c].id \in {chunks[e].id : e \in DOMAIN chunks} \cap scope
    BY <1>3
  <2>2. TextsOf(chunks, scope)[chunks[c].id] = (CHOOSE e \in Range(chunks) : e.id = chunks[c].id).lines
    BY <2>1 DEF TextsOf
  <2>3. \A e \in Range(chunks) : e.id = chunks[c].id => e = chunks[c]
    BY DEF Range, WellCut
  <2>4. chunks[c] \in Range(chunks)
    BY DEF Range
  <2> QED BY <2>2, <2>3, <2>4
<1> QED BY <1>1, <1>2, <1>3

\* A ranking of some of the elements of a set.
IsRanking(r, S) == \E n \in Nat : r \in [1..n -> S] /\ \A i, j \in 1..n : r[i] = r[j] => i = j

\* The first places of a ranking are a ranking.
LEMMA CutRanks ==
    ASSUME NEW r, NEW S, IsRanking(r, S), NEW k \in Nat
    PROVE  /\ IsRanking(Cut(r, k), S)
           /\ Len(Cut(r, k)) <= k
           /\ DOMAIN Cut(r, k) = 1..Len(Cut(r, k)) /\ Len(Cut(r, k)) \in Nat
           /\ DOMAIN Cut(r, k) \subseteq DOMAIN r
           /\ \A i \in DOMAIN Cut(r, k) : Cut(r, k)[i] = r[i]
<1>1. PICK n \in Nat : r \in [1..n -> S] /\ \A i, j \in 1..n : r[i] = r[j] => i = j
  BY DEF IsRanking
<1>2. r \in Seq(S) /\ Len(r) = n
  BY <1>1
<1> DEFINE m == IF n < k THEN n ELSE k
           c == SubSeq(r, 1, m)
<1>3. m \in 0..n /\ m \in Nat /\ m <= k
  BY <1>1
<1>4. Cut(r, k) = c
  BY <1>2 DEF Cut
<1> HIDE DEF m
<1>5. c \in Seq(S) /\ Len(c) = m /\ \A i \in 1..m : c[i] = r[i]
  BY <1>2, <1>3
<1> HIDE DEF c
<1>6. c \in [1..m -> S]
  BY <1>3, <1>5
<1>7. \A i, j \in 1..m : c[i] = c[j] => i = j
  BY <1>1, <1>3, <1>5
<1>8. IsRanking(c, S)
  BY <1>3, <1>6, <1>7 DEF IsRanking
<1>9. 1..m \subseteq 1..n /\ DOMAIN c = 1..m /\ DOMAIN r = 1..n
  BY <1>1, <1>3, <1>6
<1> QED BY <1>3, <1>4, <1>5, <1>8, <1>9

\* What has a score is ranked by it, each id once.
LEMMA ByScoreRanks ==
    ASSUME NEW scores, IsFiniteSet(DOMAIN scores), DOMAIN scores \subseteq Int \X Int,
           \A id \in DOMAIN scores : scores[id] \in Int
    PROVE  LET found == {id \in DOMAIN scores : scores[id] > 0}
           IN  /\ IsRanking(ByScore(scores), found)
               /\ \A id \in found : \E i \in DOMAIN ByScore(scores) : ByScore(scores)[i] = id
               /\ \A i, j \in DOMAIN ByScore(scores) :
                     scores[ByScore(scores)[i]] > scores[ByScore(scores)[j]] => i < j
<1> DEFINE found == {id \in DOMAIN scores : scores[id] > 0}
           before == {p \in found \X found : \/ scores[p[1]] > scores[p[2]]
                                             \/ scores[p[1]] = scores[p[2]] /\ Precedes(p[1], p[2])}
           r == ByScore(scores)
           N == Cardinality(found)
<1>1. IsFiniteSet(found)
  BY FS_Subset
<1>2. \A a, b \in found : <<a, b>> \in before <=> \/ scores[a] > scores[b]
                                                  \/ scores[a] = scores[b] /\ Precedes(a, b)
  OBVIOUS
<1>3. r = InOrder(found, before)
  BY DEF ByScore
<1>4. \A a \in found : scores[a] \in Int /\ a[1] \in Int /\ a[2] \in Int /\ a = <<a[1], a[2]>>
  BY DEF found
<1> HIDE DEF found, before, r
<1>5. InTotalOrder(found, before)
  <2>1. \A a \in found : <<a, a>> \notin before
    BY <1>2, <1>4 DEF Precedes
  <2>2. \A a, b, c \in found : <<a, b>> \in before /\ <<b, c>> \in before => <<a, c>> \in before
    BY <1>2, <1>4 DEF Precedes
  <2>3. \A a, b \in found : a = b \/ <<a, b>> \in before \/ <<b, a>> \in before
    <3> SUFFICES ASSUME NEW a \in found, NEW b \in found, <<a, b>> \notin before, <<b, a>> \notin before
                 PROVE  a = b
      OBVIOUS
    <3>1. scores[a] = scores[b] /\ ~Precedes(a, b) /\ ~Precedes(b, a)
      BY <1>2, <1>4
    <3>2. a[1] = b[1] /\ a[2] = b[2]
      BY <1>4, <3>1 DEF Precedes
    <3> QED BY <1>4, <3>2
  <2> QED BY <2>1, <2>2, <2>3 DEF InTotalOrder
<1>6. /\ N \in Nat /\ r \in [1..N -> found]
      /\ \A x \in found : \E i \in 1..N : r[i] = x
      /\ \A i, j \in 1..N : <<r[i], r[j]>> \in before <=> i < j
      /\ \A i, j \in 1..N : r[i] = r[j] => i = j
  BY <1>1, <1>3, <1>5, InOrderPlaces
<1>7. IsRanking(r, found) /\ DOMAIN r = 1..N
  BY <1>6 DEF IsRanking
<1>8. ASSUME NEW i \in 1..N, NEW j \in 1..N, scores[r[i]] > scores[r[j]] PROVE i < j
  BY <1>2, <1>6, <1>8
<1> QED BY <1>6, <1>7, <1>8 DEF found, r

\* The keyword scores of a scope are numbers, one for each of its chunks.
LEMMA KeywordScoresAreNumbers ==
    ASSUME NEW chunks, WellCut(chunks), NEW query, IsFiniteSet(query.terms), NEW scope
    PROVE  /\ DOMAIN KeywordScores(chunks, query, scope) = Ids(chunks) \cap scope
           /\ \A id \in Ids(chunks) \cap scope : KeywordScores(chunks, query, scope)[id] \in Int
<1> DEFINE texts == TextsOf(chunks, scope)
           T == Ids(chunks) \cap scope
           terms == query.terms
<1>1. DOMAIN texts = T /\ IsFiniteSet(T) /\ Cardinality(T) \in 0..Len(chunks)
  BY TextsAreOfChunks
<1>2. \A id \in T : IsFiniteSet(DOMAIN texts[id])
  <2> SUFFICES ASSUME NEW c \in DOMAIN chunks, chunks[c].id \in scope PROVE IsFiniteSet(DOMAIN texts[chunks[c].id])
    BY DEF Ids
  <2>1. texts[chunks[c].id] = chunks[c].lines
    BY TextsAreOfChunks
  <2> HIDE DEF texts
  <2> QED BY <2>1 DEF WellCut
<1>3. KeywordScores(chunks, query, scope) = [id \in DOMAIN texts |-> KeywordScore(texts[id], terms, texts)]
  BY DEF KeywordScores
<1> HIDE DEF texts, T, terms
<1>4. 1..(2 * Cardinality(T) + 2) \subseteq DOMAIN Ln
  <2>1. Len(chunks) \in Nat /\ 1..(2 * Len(chunks) + 2) \subseteq DOMAIN Ln
    BY DEF WellCut
  <2>2. 1..(2 * Cardinality(T) + 2) \subseteq 1..(2 * Len(chunks) + 2)
    BY <1>1, <2>1
  <2> QED BY <2>1, <2>2
<1>5. IsFiniteSet(terms)
  BY DEF terms
<1>6. ASSUME NEW id \in T PROVE KeywordScore(texts[id], terms, texts) \in Int
  BY <1>1, <1>2, <1>4, <1>5, KeywordScoreIsNumber
<1> QED BY <1>1, <1>3, <1>6 DEF T

\* A keyword ranking ranks chunks of its scope.
LEMMA KeywordRanks ==
    ASSUME NEW chunks, WellCut(chunks), NEW query, IsFiniteSet(query.terms), NEW scope
    PROVE  /\ IsRanking(KeywordRanking(chunks, query, scope), Ids(chunks) \cap scope)
           /\ Len(KeywordRanking(chunks, query, scope)) <= RerankK
<1> DEFINE scores == KeywordScores(chunks, query, scope)
           T == Ids(chunks) \cap scope
<1>1. DOMAIN scores = T /\ \A id \in T : scores[id] \in Int
  BY KeywordScoresAreNumbers
<1>2. IsFiniteSet(T)
  BY TextsAreOfChunks
<1>3. T \subseteq Int \X Int
  BY DEF Ids, WellCut
<1> DEFINE found == {id \in DOMAIN scores : scores[id] > 0}
<1> HIDE DEF scores
<1>4. IsRanking(ByScore(scores), found)
  <2> HIDE DEF T, found
  <2> QED BY <1>1, <1>2, <1>3, ByScoreRanks DEF found
<1>5. found \subseteq T
  BY <1>1
<1> HIDE DEF T, found
<1>6. IsRanking(ByScore(scores), T)
  <2>1. PICK n \in Nat : ByScore(scores) \in [1..n -> found] /\ \A i, j \in 1..n : ByScore(scores)[i] = ByScore(scores)[j] => i = j
    BY <1>4 DEF IsRanking
  <2>2. ByScore(scores) \in [1..n -> T]
    BY <1>5, <2>1
  <2> QED BY <2>1, <2>2 DEF IsRanking
<1>7. RerankK \in Nat
  BY AnswerAssumption
<1>8. IsRanking(Cut(ByScore(scores), RerankK), T) /\ Len(Cut(ByScore(scores), RerankK)) <= RerankK
  BY <1>6, <1>7, CutRanks
<1> QED BY <1>8 DEF KeywordRanking, scores, T

\* So does a vector ranking.
LEMMA VectorRanks ==
    ASSUME NEW table, NEW query, NEW scope, IsFiniteSet(scope), NEW r \in VectorRankings(table, query, scope)
    PROVE  IsRanking(r, scope) /\ Len(r) <= RerankK
<1> DEFINE found == DOMAIN table \cap scope
           D == 1..Cardinality(found)
<1>1. PICK s \in SetToSeqs(found) : r = Cut(s, RerankK)
  BY DEF VectorRankings
<1>2. IsFiniteSet(found) /\ Cardinality(found) \in Nat
  BY FS_Intersection, FS_CardinalityType
<1>3. s \in [D -> found] /\ \A i, j \in D : i # j => s[i] # s[j]
  BY <1>1 DEF SetToSeqs
<1>4. s \in [D -> scope]
  BY <1>3
<1>5. IsRanking(s, scope)
  BY <1>2, <1>3, <1>4 DEF IsRanking
<1>6. RerankK \in Nat
  BY AnswerAssumption
<1> QED BY <1>1, <1>5, <1>6, CutRanks

-----------------------------------------------------------------------------
(* The fusion of two rankings, and what is found and numbered.              *)

\* What a ranking says of a record: one over its place, or nothing.
LEMMA Contributions ==
    ASSUME NEW r, NEW S, IsRanking(r, S), NEW id
    PROVE  /\ Contribution(r, id) \in Int /\ Contribution(r, id) >= 0
           /\ \A i \in DOMAIN r : r[i] = id => Contribution(r, id) = 1000000 \div (RankConstant + i)
           /\ id \notin Range(r) => Contribution(r, id) = 0
<1>1. PICK n \in Nat : r \in [1..n -> S] /\ \A i, j \in 1..n : r[i] = r[j] => i = j
  BY DEF IsRanking
<1> DEFINE P == {j \in DOMAIN r : r[j] = id}
           share == [i \in P |-> 1000000 \div (RankConstant + i)]
<1>2. Contribution(r, id) = Total(share)
  BY DEF Contribution
<1>3. DOMAIN share = P
  OBVIOUS
<1>4. \A i \in P : share[i] = 1000000 \div (RankConstant + i)
  OBVIOUS
<1>5. \A i \in 1..n : 1000000 \div (RankConstant + i) \in Int /\ 1000000 \div (RankConstant + i) >= 0
  BY SMT DEF RankConstant
<1>6. P \in SUBSET (1..n) /\ DOMAIN r = 1..n
  BY <1>1
<1>7. IsFiniteSet(P)
  <2> HIDE DEF P
  <2>1. IsFiniteSet(1..n)
    BY FS_Interval
  <2> QED BY <1>6, <2>1, FS_Subset
<1>8. ASSUME NEW i \in DOMAIN r, r[i] = id PROVE P = {i}
  BY <1>1, <1>6, <1>8
<1>9. id \notin Range(r) => P = {}
  BY DEF Range
<1> HIDE DEF share, P
<1>10. \A i \in P : share[i] \in Int /\ share[i] >= 0
  BY <1>4, <1>5, <1>6
<1>11. Total(share) \in Int /\ Total(share) >= 0
  BY <1>3, <1>7, <1>10, TotalOfNumbers
<1>12. ASSUME NEW i \in DOMAIN r, r[i] = id PROVE Total(share) = 1000000 \div (RankConstant + i)
  <2>1. P = {i} /\ i \in P
    BY <1>8, <1>12
  <2>2. Total(share) = share[i]
    BY <1>3, <1>7, <1>10, <2>1, TotalOfNumbers
  <2> QED BY <1>4, <2>1, <2>2
<1>13. id \notin Range(r) => Total(share) = 0
  BY <1>3, <1>7, <1>9, <1>10, TotalOfNumbers
<1> QED BY <1>2, <1>11, <1>12, <1>13

\* The scores of a fusion.
FusedScores(vector, keyword) ==
    [id \in Range(vector) \cup Range(keyword) |-> Contribution(vector, id) + Contribution(keyword, id)]

\* A ranking is of finitely many.
LEMMA RangeOfRanks ==
    ASSUME NEW r, NEW S, IsRanking(r, S)
    PROVE  IsFiniteSet(Range(r)) /\ Range(r) \subseteq S
<1>1. PICK n \in Nat : r \in [1..n -> S]
  BY DEF IsRanking
<1>2. r \in Surjection(1..n, Range(r))
  BY <1>1 DEF Range, Surjection
<1>3. IsFiniteSet(1..n)
  BY FS_Interval
<1> QED BY <1>1, <1>2, <1>3, FS_Surjection DEF Range

\* Its ranking: of all that was found, the higher score first.
FusionOf(vector, keyword, S) ==
    LET fused == Fused(vector, keyword)
        scores == FusedScores(vector, keyword)
    IN  /\ IsRanking(fused, S)
        /\ \A id \in Range(vector) \cup Range(keyword) : \E i \in DOMAIN fused : fused[i] = id
        /\ Range(fused) \subseteq Range(vector) \cup Range(keyword)
        /\ \A i, j \in DOMAIN fused : scores[fused[i]] > scores[fused[j]] => i < j

\* The fusion of two short rankings ranks all that they rank, by their scores.
LEMMA FusedRanks ==
    ASSUME NEW S, S \subseteq Int \X Int, NEW vector, NEW keyword, IsRanking(vector, S), IsRanking(keyword, S),
           \A i \in DOMAIN vector : i <= RerankK, \A i \in DOMAIN keyword : i <= RerankK
    PROVE  FusionOf(vector, keyword, S)
<1> DEFINE all == Range(vector) \cup Range(keyword)
           scores == FusedScores(vector, keyword)
           fused == Fused(vector, keyword)
           found == {id \in DOMAIN scores : scores[id] > 0}
<1>1. IsFiniteSet(all) /\ all \subseteq S
  BY RangeOfRanks, FS_Union
<1>2. DOMAIN scores = all /\ \A id \in all : scores[id] = Contribution(vector, id) + Contribution(keyword, id)
  BY DEF FusedScores
<1>3. \A id : /\ Contribution(vector, id) \in Int /\ Contribution(vector, id) >= 0
              /\ Contribution(keyword, id) \in Int /\ Contribution(keyword, id) >= 0
  BY Contributions
<1>4. RerankK \in Nat /\ RerankK <= 900
  BY AnswerAssumption
<1>5. ASSUME NEW r, IsRanking(r, S), \A i \in DOMAIN r : i <= RerankK, NEW id \in Range(r) PROVE Contribution(r, id) > 0
  <2>1. PICK i \in DOMAIN r : r[i] = id
    BY DEF Range
  <2>2. i \in Nat /\ i <= 900
    BY <1>4, <1>5 DEF IsRanking
  <2>3. 1000000 \div (RankConstant + i) > 0
    BY <2>2, SMT DEF RankConstant
  <2>4. Contribution(r, id) = 1000000 \div (RankConstant + i)
    BY <1>5, <2>1, Contributions
  <2> QED BY <2>3, <2>4
<1>6. ASSUME NEW id \in all PROVE scores[id] \in Int /\ scores[id] > 0
  <2>1. Contribution(vector, id) > 0 \/ Contribution(keyword, id) > 0
    BY <1>5
  <2> QED BY <1>2, <1>3, <2>1
<1>7. fused = ByScore(scores)
  BY DEF Fused, FusedScores
<1> HIDE DEF all, scores, fused
<1>8. found = all
  BY <1>2, <1>6
<1>9. /\ IsRanking(fused, found)
      /\ \A id \in found : \E i \in DOMAIN fused : fused[i] = id
      /\ \A i, j \in DOMAIN fused : scores[fused[i]] > scores[fused[j]] => i < j
  BY <1>1, <1>2, <1>6, <1>7, ByScoreRanks
<1> HIDE DEF found
<1>10. IsRanking(fused, all)
  BY <1>8, <1>9
<1>11. Range(fused) \subseteq all
  BY <1>10, RangeOfRanks
<1>12. IsRanking(fused, S)
  <2>1. PICK n \in Nat : fused \in [1..n -> all] /\ \A i, j \in 1..n : fused[i] = fused[j] => i = j
    BY <1>10 DEF IsRanking
  <2>2. fused \in [1..n -> S]
    BY <1>1, <2>1
  <2> QED BY <2>1, <2>2 DEF IsRanking
<1> QED BY <1>8, <1>9, <1>11, <1>12 DEF all, scores, fused, FusionOf

\* A ranking that is read in another order.
LEMMA RanksComposed ==
    ASSUME NEW r, NEW S, IsRanking(r, S), NEW order, IsRanking(order, DOMAIN r)
    PROVE  IsRanking([i \in DOMAIN order |-> r[order[i]]], S)
<1>1. PICK n \in Nat : r \in [1..n -> S] /\ \A i, j \in 1..n : r[i] = r[j] => i = j
  BY DEF IsRanking
<1>2. PICK m \in Nat : order \in [1..m -> 1..n] /\ \A i, j \in 1..m : order[i] = order[j] => i = j
  BY <1>1 DEF IsRanking
<1> DEFINE c == [i \in DOMAIN order |-> r[order[i]]]
<1>3. c = [i \in 1..m |-> r[order[i]]]
  BY <1>2
<1>4. c \in [1..m -> S] /\ \A i \in 1..m : c[i] = r[order[i]]
  BY <1>1, <1>2, <1>3
<1> HIDE DEF c
<1>5. \A i, j \in 1..m : c[i] = c[j] => i = j
  BY <1>1, <1>2, <1>4
<1> QED BY <1>4, <1>5 DEF IsRanking, c

\* A ranking of what has a relevance stays one when it is read by that.
LEMMA RerankedRanks ==
    ASSUME NEW S, NEW ids, IsRanking(ids, S), NEW relevance, \A id \in S : relevance[id] \in Int
    PROVE  IsRanking(Reranked(ids, relevance), S)
<1> DEFINE positions == DOMAIN ids
           better == {p \in positions \X positions :
                          \/ relevance[ids[p[1]]] > relevance[ids[p[2]]]
                          \/ relevance[ids[p[1]]] = relevance[ids[p[2]]] /\ p[1] < p[2]}
           order == InOrder(positions, better)
           c == [i \in DOMAIN ids |-> ids[order[i]]]
<1>1. Reranked(ids, relevance) = Cut(c, TopK)
  BY DEF Reranked
<1>2. \A a, b \in positions : <<a, b>> \in better <=> \/ relevance[ids[a]] > relevance[ids[b]]
                                                      \/ relevance[ids[a]] = relevance[ids[b]] /\ a < b
  OBVIOUS
<1> HIDE DEF better, order
<1>3. PICK n \in Nat : ids \in [1..n -> S]
  BY DEF IsRanking
<1>4. positions = 1..n /\ IsFiniteSet(1..n) /\ Cardinality(1..n) = n
  BY <1>3, FS_Interval
<1>5. \A a \in positions : relevance[ids[a]] \in Int /\ a \in Int
  BY <1>3, <1>4
<1>6. InTotalOrder(positions, better)
  <2> HIDE DEF positions
  <2> QED BY <1>2, <1>5 DEF InTotalOrder
<1>7. order \in [1..n -> positions] /\ \A i, j \in 1..n : order[i] = order[j] => i = j
  <2> HIDE DEF positions
  <2>1. IsFiniteSet(positions) /\ Cardinality(positions) = n
    BY <1>4
  <2> QED BY <1>6, <2>1, InOrderPlaces DEF order
<1>8. IsRanking(order, DOMAIN ids) /\ DOMAIN order = DOMAIN ids
  BY <1>4, <1>7 DEF IsRanking
<1>9. IsRanking(c, S)
  BY <1>8, RanksComposed
<1>10. TopK \in Nat
  BY AnswerAssumption
<1> HIDE DEF c
<1> QED BY <1>1, <1>9, <1>10, CutRanks

\* What a search finds are chunks of its scope.
LEMMA FoundRanks ==
    ASSUME NEW S, NEW fused, IsRanking(fused, S), NEW relevance \in Relevances,
           relevance # Absent => \A id \in S : relevance[id] \in Int
    PROVE  IsRanking(Found(fused, relevance), S)
<1>1. RerankK \in Nat /\ TopK \in Nat
  BY AnswerAssumption
<1>2. CASE relevance = Absent
  BY <1>1, <1>2, CutRanks DEF Found
<1>3. CASE relevance # Absent
  <2>1. IsRanking(Cut(fused, RerankK), S)
    BY <1>1, CutRanks
  <2>2. IsRanking(Reranked(Cut(fused, RerankK), relevance), S)
    BY <1>3, <2>1, RerankedRanks
  <2> QED BY <1>3, <2>2 DEF Found
<1> QED BY <1>2, <1>3

\* The numbered evidence is of what was found, and gives no instructions.
LEMMA ContextOfFound ==
    ASSUME NEW S, NEW found, IsRanking(found, S), NEW i \in DOMAIN Context(found)
    PROVE  \E id \in S : Context(found)[i] = [source |-> i, id |-> id] /\ ~Instructs(ChunkOf(id))
<1> DEFINE harmless == {k \in DOMAIN found : ~Instructs(ChunkOf(found[k]))}
           before == {p \in harmless \X harmless : p[1] < p[2]}
           order == InOrder(harmless, before)
           c == [k \in DOMAIN order |-> found[order[k]]]
           kept == Cut(c, MaxContext)
<1>1. Context(found) = [k \in DOMAIN kept |-> [source |-> k, id |-> kept[k]]]
  BY DEF Context
<1>2. PICK n \in Nat : found \in [1..n -> S]
  BY DEF IsRanking
<1>3. harmless \in SUBSET (1..n)
  BY <1>2
<1>4. \A a, b \in harmless : <<a, b>> \in before <=> a < b
  OBVIOUS
<1>5. \A k \in harmless : ~Instructs(ChunkOf(found[k]))
  OBVIOUS
<1> HIDE DEF harmless, before, order
<1>6. IsFiniteSet(harmless)
  <2>1. IsFiniteSet(1..n)
    BY FS_Interval
  <2> QED BY <1>3, <2>1, FS_Subset
<1>7. InTotalOrder(harmless, before)
  BY <1>3, <1>4 DEF InTotalOrder
<1> DEFINE m == Cardinality(harmless)
<1>8. m \in Nat /\ order \in [1..m -> harmless] /\ \A a, b \in 1..m : order[a] = order[b] => a = b
  BY <1>6, <1>7, InOrderPlaces DEF order
<1> HIDE DEF m
<1>9. DOMAIN found = 1..n /\ order \in [1..m -> 1..n]
  BY <1>2, <1>3, <1>8
<1>10. IsRanking(order, DOMAIN found)
  BY <1>8, <1>9 DEF IsRanking
<1>11. IsRanking(c, S) /\ DOMAIN c = 1..m
  BY <1>8, <1>10, RanksComposed
<1>12. \A k \in 1..m : c[k] = found[order[k]] /\ order[k] \in harmless /\ c[k] \in S
  BY <1>2, <1>3, <1>8
<1> HIDE DEF c
<1>13. MaxContext \in Nat
  BY AnswerAssumption
<1>14. DOMAIN kept \subseteq 1..m /\ \A k \in DOMAIN kept : kept[k] = c[k]
  BY <1>11, <1>13, CutRanks
<1> HIDE DEF kept
<1>15. i \in DOMAIN kept /\ Context(found)[i] = [source |-> i, id |-> kept[i]]
  BY <1>1
<1>16. i \in 1..m /\ kept[i] = found[order[i]] /\ order[i] \in harmless /\ kept[i] \in S
  BY <1>12, <1>14, <1>15
<1>17. ~Instructs(ChunkOf(kept[i]))
  BY <1>5, <1>16
<1> QED BY <1>15, <1>16, <1>17

-----------------------------------------------------------------------------
(* The inductive invariant of the answers.                                  *)

\* A record is its fields.
RequestFields(r) ==
    r = [phase |-> r.phase, by |-> r.by, who |-> r.who, query |-> r.query, attempts |-> r.attempts,
         day |-> r.day, vector |-> r.vector, fused |-> r.fused, found |-> r.found, context |-> r.context,
         cited |-> r.cited, markers |-> r.markers, policy |-> r.policy, sources |-> r.sources,
         status |-> r.status]

\* What a search left: rankings of what its asker could see on its day.
Searched(r, chunks) ==
    LET scope == Authorized(chunks, r.who, r.day)
    IN  /\ chunks # Absent
        /\ IsFiniteSet(r.query.terms)
        /\ IsRanking(r.vector, scope)
        /\ \A i \in DOMAIN r.vector : i <= RerankK
        /\ r.fused = Fused(r.vector, KeywordRanking(chunks, r.query, scope))

\* The numbered evidence is of chunks the asker could see that day and that give no
\* instructions.
Evidenced(r, chunks) ==
    \A i \in DOMAIN r.context :
        /\ r.context[i] = [source |-> i, id |-> r.context[i].id]
        /\ \E c \in DOMAIN chunks : /\ chunks[c].id = r.context[i].id
                                    /\ MaySee(r.who, chunks[c].meta, r.day)
                                    /\ ~Instructs(chunks[c])

\* What is cited is the evidence the markers name.
Cited(r) ==
    \/ r.cited = {} /\ r.markers = {}
    \/ /\ r.markers # {}
       /\ r.markers \subseteq Sources(r.context)
       /\ r.cited = {e \in Range(r.context) : e.source \in r.markers}

\* What an answer is at each phase: searched once it has a day, and with its evidence and
\* its citations from then on.
AnswerSound(r, chunks) ==
    /\ RequestFields(r)
    /\ r.phase \notin {"idle", "rejected"} => chunks # Absent /\ IsFiniteSet(r.query.terms)
    /\ r.day > 0 => Searched(r, chunks)
    /\ Evidenced(r, chunks)
    /\ Cited(r)
    /\ r.phase \in {"idle", "asked", "prompted", "rejected"} => r.markers = {}
    /\ r.phase \in {"replied", "done"} /\ r.policy = "answered" => r.markers # {}
    /\ r.by = "research" /\ r.status = "completed" => r.phase = "done" /\ r.policy = "answered"

\* The inductive invariant: a corpus is searched only when it was cut into chunks with an
\* id each, and the answer is sound over it.
AnswerInv ==
    /\ today \in Nat /\ today > 0
    /\ files \in {Absent} \cup {d.files : d \in Deployments}
    /\ files = Absent => corpus = Absent
    /\ corpus # Absent => WellCut(corpus)
    /\ corpus = Absent => request = NoRequest
    /\ message # None => IsFiniteSet(message.query.terms)
    /\ AnswerSound(request, corpus)

\* Nothing asked is sound over any chunks.
LEMMA NoRequestIsSound ==
    ASSUME NEW chunks PROVE AnswerSound(NoRequest, chunks)
<1> DEFINE r == NoRequest
<1>1. RequestFields(r)
  BY DEF RequestFields, NoRequest
<1>2. /\ r.phase = "idle" /\ r.day = 0 /\ r.context = <<>> /\ r.cited = {} /\ r.markers = {}
      /\ r.status = Absent
  BY DEF NoRequest
<1> HIDE DEF r
<1>3. DOMAIN <<>> = {} /\ ~(0 > 0) /\ Absent # "completed"
  BY AnswerAssumption
<1>4. AnswerSound(r, chunks)
  BY <1>1, <1>2, <1>3 DEF AnswerSound, Evidenced, Cited
<1> QED BY <1>4 DEF r

\* What is authorized are ids of chunks.
LEMMA AuthorizedIds ==
    ASSUME NEW chunks, WellCut(chunks), NEW who, NEW day
    PROVE  /\ Ids(chunks) \cap Authorized(chunks, who, day) = Authorized(chunks, who, day)
           /\ IsFiniteSet(Authorized(chunks, who, day))
           /\ Authorized(chunks, who, day) \subseteq Int \X Int
<1> DEFINE A == Authorized(chunks, who, day)
<1>1. A \subseteq Ids(chunks) /\ Ids(chunks) \subseteq Int \X Int
  BY DEF Authorized, Ids, WellCut
<1> HIDE DEF A
<1>2. Ids(chunks) \cap A = A
  BY <1>1
<1>3. IsFiniteSet(Ids(chunks) \cap A)
  BY TextsAreOfChunks
<1> QED BY <1>1, <1>2, <1>3 DEF A

\* A question that is asked starts anew.
LEMMA AskIsSound ==
    ASSUME NEW who, NEW query, NEW by, AskPolicy(who, query, by), IsFiniteSet(query.terms), AnswerInv
    PROVE  AnswerSound(request', corpus) /\ corpus # Absent /\ UNCHANGED <<files, ocr, corpus, rows, today>>
<1>1. corpus # Absent /\ UNCHANGED <<files, ocr, corpus, rows, today>>
  BY DEF AskPolicy
<1> DEFINE phase == IF query.instructs THEN "rejected" ELSE "asked"
<1>2. request' = [NoRequest EXCEPT !.phase = phase, !.by = by, !.who = who, !.query = query, !.attempts = 1]
  BY DEF AskPolicy
<1>3. phase \in {"rejected", "asked"}
  OBVIOUS
<1> HIDE DEF phase
<1>4. /\ RequestFields(request') /\ request'.phase = phase /\ request'.query = query /\ request'.day = 0
      /\ request'.context = <<>> /\ request'.cited = {} /\ request'.markers = {} /\ request'.status = Absent
  BY <1>2 DEF NoRequest, RequestFields
<1>5. DOMAIN <<>> = {} /\ ~(0 > 0) /\ Absent # "completed"
  BY AnswerAssumption
<1>6. AnswerSound(request', corpus)
  BY <1>1, <1>3, <1>4, <1>5 DEF AnswerSound, Evidenced, Cited
<1> QED BY <1>1, <1>6

\* A search ranks and numbers what its asker can see on the day of the search.
LEMMA SearchIsSound ==
    ASSUME AnswerInv, Search
    PROVE  AnswerSound(request', corpus) /\ UNCHANGED <<files, ocr, corpus, rows, today>> /\ corpus # Absent
<1> DEFINE scope == Authorized(corpus, request.who, today)
           keyword == KeywordRanking(corpus, request.query, scope)
<1>1. request.phase = "asked" /\ UNCHANGED <<files, ocr, corpus, rows, today>>
  BY DEF Search, SearchPolicy, InPhase
<1>2. corpus # Absent /\ WellCut(corpus) /\ IsFiniteSet(request.query.terms) /\ RequestFields(request)
      /\ today \in Nat
  BY <1>1 DEF AnswerInv, AnswerSound
<1>3. PICK vector \in VectorRankings(rows, request.query, scope), relevance \in Relevances :
          LET fused == Fused(vector, keyword)
              found == Found(fused, relevance)
          IN  request' = Prompted([request EXCEPT !.vector = vector, !.fused = fused, !.found = found,
                                                  !.day = today, !.context = <<>>], Context(found))
  BY DEF Search, SearchPolicy
<1> DEFINE fused == Fused(vector, keyword)
           found == Found(fused, relevance)
           context == Context(found)
<1>4. PICK searched : /\ searched = [request EXCEPT !.vector = vector, !.fused = fused, !.found = found,
                                                     !.day = today, !.context = <<>>]
                      /\ request' = Prompted(searched, context)
  BY <1>3
<1>5. Ids(corpus) \cap scope = scope /\ IsFiniteSet(scope) /\ scope \subseteq Int \X Int
  BY <1>2, AuthorizedIds
<1> HIDE DEF scope
<1>6. IsRanking(vector, scope) /\ Len(vector) <= RerankK
  BY <1>5, VectorRanks
<1>7. IsRanking(keyword, scope) /\ Len(keyword) <= RerankK
  BY <1>2, <1>5, KeywordRanks
<1> HIDE DEF keyword
<1>8. ASSUME NEW r, IsRanking(r, scope), Len(r) <= RerankK PROVE \A i \in DOMAIN r : i <= RerankK
  <2>1. PICK n \in Nat : r \in [1..n -> scope]
    BY <1>8 DEF IsRanking
  <2>2. Len(r) = n /\ DOMAIN r = 1..n
    BY <2>1
  <2>3. RerankK \in Nat
    BY AnswerAssumption
  <2> QED BY <1>8, <2>2, <2>3
<1>9. IsRanking(fused, scope)
  BY <1>5, <1>6, <1>7, <1>8, FusedRanks DEF FusionOf
<1> HIDE DEF fused
<1>10. relevance # Absent => \A id \in scope : relevance[id] \in Int
  <2> SUFFICES ASSUME relevance # Absent, NEW id \in scope PROVE relevance[id] \in Int
    OBVIOUS
  <2>1. PICK c \in DOMAIN corpus : corpus[c].id = id
    BY <1>5 DEF Ids
  <2> QED BY <1>2, <2>1 DEF WellCut
<1>11. IsRanking(found, scope)
  BY <1>9, <1>10, FoundRanks
<1> HIDE DEF found
<1>12. ASSUME NEW i \in DOMAIN context
       PROVE  /\ context[i] = [source |-> i, id |-> context[i].id]
              /\ \E c \in DOMAIN corpus : /\ corpus[c].id = context[i].id
                                          /\ MaySee(request.who, corpus[c].meta, today)
                                          /\ ~Instructs(corpus[c])
  <2>1. PICK id \in scope : context[i] = [source |-> i, id |-> id] /\ ~Instructs(ChunkOf(id))
    BY <1>11, ContextOfFound
  <2>2. context[i].id = id
    BY <2>1
  <2>3. PICK c \in DOMAIN corpus : corpus[c].id = id /\ MaySee(request.who, corpus[c].meta, today)
    BY DEF scope, Authorized
  <2>4. ChunkOf(id) = corpus[c]
    <3>1. corpus[c] \in Range(corpus) /\ \A e \in Range(corpus) : e.id = id => e = corpus[c]
      BY <1>2, <2>3 DEF Range, WellCut
    <3> QED BY <2>3, <3>1 DEF ChunkOf
  <2> QED BY <2>1, <2>2, <2>3, <2>4
<1> HIDE DEF context
<1>13. /\ RequestFields(searched) /\ searched.vector = vector /\ searched.fused = fused
       /\ searched.day = today /\ searched.context = <<>> /\ searched.who = request.who
       /\ searched.query = request.query /\ searched.cited = request.cited
       /\ searched.markers = request.markers /\ searched.by = request.by /\ searched.status = request.status
  BY <1>2, <1>4 DEF RequestFields
<1>14. /\ RequestFields(request') /\ request'.vector = vector /\ request'.fused = fused
       /\ request'.day = today /\ request'.who = request.who
       /\ request'.query = request.query /\ request'.cited = request.cited
       /\ request'.markers = request.markers /\ request'.by = request.by /\ request'.status = request.status
       /\ request'.context = context
       /\ \/ request'.phase = "replied" /\ request'.policy = "noEvidence"
          \/ request'.phase = "prompted"
  <2>1. CASE context = <<>>
    <3>1. request' = [searched EXCEPT !.phase = "replied", !.policy = "noEvidence"]
      BY <1>4, <2>1 DEF Prompted
    <3> QED BY <1>13, <2>1, <3>1 DEF RequestFields
  <2>2. CASE context # <<>>
    <3>1. request' = [searched EXCEPT !.phase = "prompted", !.context = context]
      BY <1>4, <2>2 DEF Prompted
    <3> QED BY <1>13, <3>1 DEF RequestFields
  <2> QED BY <2>1, <2>2
<1>15. Searched(request', corpus)
  <2>1. request'.fused = Fused(vector, keyword) /\ keyword = KeywordRanking(corpus, request.query, scope)
    BY <1>14 DEF fused, keyword
  <2>2. scope = Authorized(corpus, request'.who, request'.day)
    BY <1>14 DEF scope
  <2>3. \A i \in DOMAIN vector : i <= RerankK
    BY <1>6, <1>8
  <2> QED BY <1>2, <1>6, <1>14, <2>1, <2>2, <2>3 DEF Searched
<1>16. Evidenced(request', corpus)
  BY <1>12, <1>14 DEF Evidenced
<1>17. request.markers = {} /\ request.cited = {}
  BY <1>1 DEF AnswerInv, AnswerSound, Cited
<1>18. ~(request.by = "research" /\ request.status = "completed")
  BY <1>1 DEF AnswerInv, AnswerSound
<1>19. AnswerSound(request', corpus)
  BY <1>2, <1>14, <1>15, <1>16, <1>17, <1>18 DEF AnswerSound, Cited
<1> QED BY <1>1, <1>2, <1>19

\* A step that keeps what was searched, and what is cited.
LEMMA KeptSound ==
    ASSUME AnswerInv, NEW r, RequestFields(r), corpus # Absent, IsFiniteSet(request.query.terms),
           r.by = request.by, r.who = request.who, r.query = request.query, r.day = request.day,
           r.vector = request.vector, r.fused = request.fused, r.context = request.context,
           Cited(r),
           r.phase \in {"idle", "asked", "prompted", "rejected"} => r.markers = {},
           r.phase \in {"replied", "done"} /\ r.policy = "answered" => r.markers # {},
           r.by = "research" /\ r.status = "completed" => r.phase = "done" /\ r.policy = "answered"
    PROVE  AnswerSound(r, corpus)
<1>1. AnswerSound(request, corpus)
  BY DEF AnswerInv
<1>2. r.day > 0 => Searched(r, corpus)
  BY <1>1 DEF AnswerSound, Searched
<1>3. Evidenced(r, corpus)
  BY <1>1 DEF AnswerSound, Evidenced
<1> QED BY <1>2, <1>3 DEF AnswerSound

\* Every step of an answer keeps it sound.
LEMMA AnsweringIsSound ==
    ASSUME AnswerInv, AnswerNext, message' = message
    PROVE  AnswerInv'
<1>0. AnswerSound(request, corpus)
  BY DEF AnswerInv
<1>1. ASSUME files = Absent, NEW d \in Deployments, Start(d.files, d.ocr) PROVE AnswerInv'
  <2> DEFINE chunks == ChunkDirectory(d.files, d.ocr)
  <2>1. files' = d.files /\ corpus' = chunks /\ today' = today /\ request' = request
    BY <1>1 DEF Start
  <2>2. request = NoRequest
    BY <1>1 DEF AnswerInv
  <2>3. chunks # Absent => WellCut(chunks)
    BY DirectoryIsWellCut
  <2>4. d.files # Absent
    BY AnswerAssumption
  <2> HIDE DEF chunks
  <2>5. AnswerSound(request', corpus')
    BY <2>1, <2>2, NoRequestIsSound
  <2> QED BY <2>1, <2>2, <2>3, <2>4, <2>5 DEF AnswerInv
<1>2. ASSUME UNCHANGED <<files, corpus>>, corpus # Absent, AnswerSound(request', corpus), today' \in Nat, today' > 0
      PROVE  AnswerInv'
  BY <1>2 DEF AnswerInv
<1>3. ASSUME UNCHANGED <<files, corpus, request>>, today' \in Nat, today' > 0 PROVE AnswerInv'
  BY <1>3 DEF AnswerInv
<1>4. ASSUME OtherProcessWrites PROVE AnswerInv'
  <2>1. UNCHANGED <<files, corpus, request, today>>
    BY <1>4 DEF OtherProcessWrites
  <2> QED BY <1>3, <2>1 DEF AnswerInv
<1>5. ASSUME NextDay PROVE AnswerInv'
  <2>1. UNCHANGED <<files, corpus, request>> /\ today' = today + 1
    BY <1>5 DEF NextDay
  <2> QED BY <1>3, <2>1 DEF AnswerInv
<1>6. ASSUME Search PROVE AnswerInv'
  <2>1. AnswerSound(request', corpus) /\ UNCHANGED <<files, corpus, today>> /\ corpus # Absent
    BY <1>6, SearchIsSound
  <2> QED BY <1>2, <2>1 DEF AnswerInv
<1>7. ASSUME request.phase \in {"asked", "prompted"}, request' = Failed, UNCHANGED <<files, corpus, today>>
      PROVE  AnswerInv'
  <2>1. RequestFields(request) /\ corpus # Absent /\ IsFiniteSet(request.query.terms) /\ request.markers = {}
        /\ Cited(request) /\ ~(request.by = "research" /\ request.status = "completed")
    BY <1>0, <1>7 DEF AnswerSound
  <2>2. /\ RequestFields(request')
        /\ request'.by = request.by /\ request'.who = request.who /\ request'.query = request.query
        /\ request'.day = request.day /\ request'.vector = request.vector /\ request'.fused = request.fused
        /\ request'.context = request.context /\ request'.cited = request.cited
        /\ request'.markers = request.markers /\ request'.status = request.status
        /\ request'.phase = "replied" /\ request'.policy = "failed"
    BY <1>7, <2>1 DEF Failed, RequestFields
  <2>3. Cited(request')
    BY <2>1, <2>2 DEF Cited
  <2>4. AnswerSound(request', corpus)
    BY <2>1, <2>2, <2>3, KeptSound
  <2> QED BY <1>2, <1>7, <2>1, <2>4 DEF AnswerInv
<1>8. ASSUME SearchRefused PROVE AnswerInv'
  BY <1>7, <1>8 DEF SearchRefused, InPhase
<1>9. ASSUME AttemptFails PROVE AnswerInv'
  <2>1. request.phase \in {"asked", "prompted"} /\ UNCHANGED <<files, corpus, today>>
    BY <1>9 DEF AttemptFails, Searching
  <2>2. CASE request' = Failed
    BY <1>7, <2>1, <2>2
  <2>3. CASE request' = [request EXCEPT !.phase = "asked", !.attempts = @ + 1]
    <3>1. RequestFields(request) /\ corpus # Absent /\ IsFiniteSet(request.query.terms) /\ request.markers = {}
          /\ Cited(request) /\ ~(request.by = "research" /\ request.status = "completed")
      BY <1>0, <2>1 DEF AnswerSound
    <3>2. /\ RequestFields(request')
          /\ request'.by = request.by /\ request'.who = request.who /\ request'.query = request.query
          /\ request'.day = request.day /\ request'.vector = request.vector /\ request'.fused = request.fused
          /\ request'.context = request.context /\ request'.cited = request.cited
          /\ request'.markers = request.markers /\ request'.status = request.status
          /\ request'.phase = "asked"
      BY <2>3, <3>1 DEF RequestFields
    <3>3. Cited(request')
      BY <3>1, <3>2 DEF Cited
    <3>4. AnswerSound(request', corpus)
      BY <3>1, <3>2, <3>3, KeptSound
    <3> QED BY <1>2, <2>1, <3>1, <3>4 DEF AnswerInv
  <2> QED BY <1>9, <2>2, <2>3 DEF AttemptFails
<1>10. ASSUME NEW markers, Reply(markers) PROVE AnswerInv'
  <2>1. request.phase = "prompted" /\ UNCHANGED <<files, corpus, today>>
    BY <1>10 DEF Reply, InPhase
  <2>2. CASE request' = Failed
    BY <1>7, <2>1, <2>2
  <2>3. CASE request' # Failed
    <3> DEFINE cited == {e \in Range(request.context) : e.source \in markers}
    <3>1. /\ Cites(markers, request.context)
          /\ request' = [request EXCEPT !.phase = "replied", !.policy = "answered", !.markers = markers,
                                        !.cited = cited]
      BY <1>10, <2>3 DEF Reply
    <3> HIDE DEF cited
    <3>2. RequestFields(request) /\ corpus # Absent /\ IsFiniteSet(request.query.terms)
          /\ ~(request.by = "research" /\ request.status = "completed")
      BY <1>0, <2>1 DEF AnswerSound
    <3>3. /\ RequestFields(request')
          /\ request'.by = request.by /\ request'.who = request.who /\ request'.query = request.query
          /\ request'.day = request.day /\ request'.vector = request.vector /\ request'.fused = request.fused
          /\ request'.context = request.context /\ request'.cited = cited
          /\ request'.markers = markers /\ request'.status = request.status
          /\ request'.phase = "replied"
      BY <3>1, <3>2 DEF RequestFields
    <3>4. markers # {} /\ Cited(request')
      BY <3>1, <3>3 DEF Cited, Cites, cited
    <3>5. AnswerSound(request', corpus)
      BY <3>2, <3>3, <3>4, KeptSound
    <3> QED BY <1>2, <2>1, <3>2, <3>5 DEF AnswerInv
  <2> QED BY <2>2, <2>3
<1>11. ASSUME NEW web, NEW sources, request.phase = "replied", Concluded(web, sources), UNCHANGED <<files, corpus, today>>
       PROVE  AnswerInv'
  <2> DEFINE status == StatusFor(request.policy, web, sources)
  <2>1. request' = [request EXCEPT !.phase = "done", !.sources = sources, !.status = status]
    BY <1>11 DEF Concluded
  <2>2. status = "completed" => request.policy = "answered"
    BY DEF StatusFor
  <2> HIDE DEF status
  <2>3. RequestFields(request) /\ corpus # Absent /\ IsFiniteSet(request.query.terms) /\ Cited(request)
        /\ (request.policy = "answered" => request.markers # {})
    BY <1>0, <1>11 DEF AnswerSound
  <2>4. /\ RequestFields(request')
        /\ request'.by = request.by /\ request'.who = request.who /\ request'.query = request.query
        /\ request'.day = request.day /\ request'.vector = request.vector /\ request'.fused = request.fused
        /\ request'.context = request.context /\ request'.cited = request.cited
        /\ request'.markers = request.markers /\ request'.policy = request.policy
        /\ request'.phase = "done" /\ request'.status = status
    BY <2>1, <2>3 DEF RequestFields
  <2>5. Cited(request')
    BY <2>3, <2>4 DEF Cited
  <2>6. AnswerSound(request', corpus)
    BY <2>2, <2>3, <2>4, <2>5, KeptSound
  <2> QED BY <1>2, <1>11, <2>3, <2>6 DEF AnswerInv
<1>12. ASSUME AnswerWithoutWeb PROVE AnswerInv'
  BY <1>11, <1>12 DEF AnswerWithoutWeb, InPhase
<1>13. ASSUME NEW payload, SearchWeb(payload) PROVE AnswerInv'
  <2> DEFINE sources == IF payload = Absent THEN <<>> ELSE ExternalSources(payload)
             web == IF sources = <<>> THEN "none" ELSE "completed"
  <2>1. Concluded(web, sources) /\ request.phase = "replied" /\ UNCHANGED <<files, corpus, today>>
    BY <1>13 DEF SearchWeb, InPhase
  <2> HIDE DEF sources, web
  <2> QED BY <1>11, <2>1
<1> QED BY <1>1, <1>4, <1>5, <1>6, <1>8, <1>9, <1>10, <1>12, <1>13 DEF AnswerNext

\* Nothing was asked yet.
LEMMA AnswersStart == RequestInit => AnswerInv
<1> SUFFICES ASSUME RequestInit PROVE AnswerInv
  OBVIOUS
<1>1. files = Absent /\ corpus = Absent /\ today = 1 /\ request = NoRequest /\ message = None
  BY DEF RequestInit, AnswerInit
<1>2. AnswerSound(request, corpus)
  BY <1>1, NoRequestIsSound
<1> QED BY <1>1, <1>2 DEF AnswerInv

\* Every step of the requests keeps the invariant.
LEMMA AnswersStep == DraftInv /\ AnswerInv /\ [RequestNext]_requestVars => AnswerInv'
<1> SUFFICES ASSUME DraftInv, AnswerInv, [RequestNext]_requestVars PROVE AnswerInv'
  OBVIOUS
<1>1. ASSUME Answering PROVE AnswerInv'
  <2>1. AnswerNext /\ message' = message
    BY <1>1 DEF Answering
  <2> QED BY <2>1, AnsweringIsSound
<1>2. ASSUME UNCHANGED answerVars, message' = message PROVE AnswerInv'
  BY <1>2 DEF answerVars, AnswerInv
<1>3. ASSUME NEW m \in Messages(files), Receive(m) PROVE AnswerInv'
  <2>1. message' = m /\ UNCHANGED answerVars
    BY <1>3 DEF Receive
  <2>2. IsFiniteSet(m.query.terms)
    BY RequestAssumption DEF DraftInv
  <2> QED BY <2>1, <2>2 DEF answerVars, AnswerInv
<1>4. ASSUME \/ ClassifierFails \/ AskApproval \/ AskMaterials \/ GenerateDraft \/ UpdateDraft PROVE AnswerInv'
  <2>1. UNCHANGED answerVars /\ message' = message
    BY <1>4 DEF ClassifierFails, AskApproval, AskMaterials, GenerateDraft, UpdateDraft
  <2> QED BY <1>2, <2>1
<1>5. ASSUME NEW reply, Classify(reply) PROVE AnswerInv'
  BY <1>2, <1>5 DEF Classify
<1>6. ASSUME AnswerSound(request', corpus), corpus # Absent, UNCHANGED <<files, corpus, today, message>> PROVE AnswerInv'
  BY <1>6 DEF AnswerInv
<1>7. ASSUME PolicyAnswered PROVE AnswerInv'
  <2> DEFINE status == IF request.policy = "failed" THEN "unavailable" ELSE "completed"
  <2>1. /\ request.phase = "replied" /\ request.by = "agent" /\ UNCHANGED <<files, corpus, today, message>>
        /\ request' = [request EXCEPT !.phase = "done", !.status = status]
    BY <1>7 DEF PolicyAnswered, InPhase
  <2> HIDE DEF status
  <2>2. RequestFields(request) /\ corpus # Absent /\ IsFiniteSet(request.query.terms) /\ Cited(request)
        /\ (request.policy = "answered" => request.markers # {})
    BY <2>1 DEF AnswerInv, AnswerSound
  <2>3. /\ RequestFields(request')
        /\ request'.by = request.by /\ request'.who = request.who /\ request'.query = request.query
        /\ request'.day = request.day /\ request'.vector = request.vector /\ request'.fused = request.fused
        /\ request'.context = request.context /\ request'.cited = request.cited
        /\ request'.markers = request.markers /\ request'.policy = request.policy
        /\ request'.phase = "done"
    BY <2>1, <2>2 DEF RequestFields
  <2>4. Cited(request')
    BY <2>2, <2>3 DEF Cited
  <2>5. AnswerSound(request', corpus)
    BY <2>1, <2>2, <2>3, <2>4, KeptSound
  <2> QED BY <1>6, <2>1, <2>2, <2>5
<1>8. ASSUME NEW who, AnswerPolicy(who) PROVE AnswerInv'
  <2>1. AskPolicy(who, message.query, "agent") /\ message' = message /\ intent = "policyQuery"
    BY <1>8 DEF AnswerPolicy
  <2>2. message # None
    BY <2>1, TextAssumption DEF DraftInv
  <2>3. IsFiniteSet(message.query.terms)
    BY <2>2 DEF AnswerInv
  <2> QED BY <1>6, <2>1, <2>3, AskIsSound
<1>9. ASSUME NEW who, NEW query \in ResearchQuestions(files), Research(who, query) PROVE AnswerInv'
  <2>1. AskPolicy(who, query, "research") /\ message' = message
    BY <1>9 DEF Research
  <2>2. IsFiniteSet(query.terms)
    BY RequestAssumption DEF DraftInv
  <2> QED BY <1>6, <2>1, <2>2, AskIsSound
<1>10. ASSUME UNCHANGED requestVars PROVE AnswerInv'
  BY <1>2, <1>10 DEF requestVars
<1> QED BY <1>1, <1>3, <1>4, <1>5, <1>7, <1>8, <1>9, <1>10 DEF RequestNext

\* The invariant holds in every behaviour.
LEMMA AnswerInvariant == RequestSpec => []AnswerInv
BY DraftInvariant, AnswersStart, AnswersStep, PTL DEF RequestSpec

\* A sound answer cites its evidence.
LEMMA SoundIsCited == AnswerInv => CitationsAreEvidence
<1> SUFFICES ASSUME AnswerInv PROVE CitationsAreEvidence
  OBVIOUS
<1>1. AnswerSound(request, corpus)
  BY DEF AnswerInv
<1>2. ASSUME NEW e \in request.cited
      PROVE  /\ e.source \in DOMAIN request.context /\ request.context[e.source].id = e.id
             /\ MaySee(request.who, ChunkOf(e.id).meta, request.day) /\ ~Instructs(ChunkOf(e.id))
  <2>1. e \in Range(request.context)
    BY <1>1 DEF AnswerSound, Cited
  <2>2. PICK i \in DOMAIN request.context : request.context[i] = e
    BY <2>1 DEF Range
  <2>3. /\ request.context[i] = [source |-> i, id |-> request.context[i].id]
        /\ \E c \in DOMAIN corpus : /\ corpus[c].id = request.context[i].id
                                    /\ MaySee(request.who, corpus[c].meta, request.day)
                                    /\ ~Instructs(corpus[c])
    BY <1>1 DEF AnswerSound, Evidenced
  <2>4. PICK c \in DOMAIN corpus : /\ corpus[c].id = e.id
                                   /\ MaySee(request.who, corpus[c].meta, request.day)
                                   /\ ~Instructs(corpus[c])
    BY <2>2, <2>3
  <2>5. corpus # Absent
    <3>1. CASE corpus = Absent
      <4>1. request.cited = {}
        BY <3>1 DEF AnswerInv, NoRequest
      <4> QED BY <4>1
    <3> QED BY <3>1
  <2>6. ChunkOf(e.id) = corpus[c]
    <3>1. corpus[c] \in Range(corpus) /\ \A d \in Range(corpus) : d.id = e.id => d = corpus[c]
      BY <2>4, <2>5 DEF Range, WellCut, AnswerInv
    <3> QED BY <2>4, <3>1 DEF ChunkOf
  <2>7. e.source = i
    BY <2>2, <2>3
  <2> QED BY <2>2, <2>4, <2>6, <2>7
<1>3. {e.source : e \in request.cited} = request.markers
  <2>1. CASE request.cited = {} /\ request.markers = {}
    BY <2>1
  <2>2. CASE /\ request.markers \subseteq Sources(request.context)
             /\ request.cited = {e \in Range(request.context) : e.source \in request.markers}
    <3>1. \A m \in request.markers : \E e \in Range(request.context) : e.source = m
      BY <2>2 DEF Sources, Range
    <3> QED BY <2>2, <3>1
  <2> QED BY <1>1, <2>1, <2>2 DEF AnswerSound, Cited
<1>4. request.by = "research" /\ request.status = "completed" => request.cited # {}
  <2>1. request.by = "research" /\ request.status = "completed" => request.markers # {}
    BY <1>1 DEF AnswerSound
  <2> QED BY <1>3, <2>1
<1> QED BY <1>2, <1>3, <1>4 DEF CitationsAreEvidence

\* A later place says strictly less.
LEMMA SharesFall ==
    ASSUME NEW i \in Nat, NEW j \in Nat, i < j, i <= 900
    PROVE  1000000 \div (RankConstant + j) < 1000000 \div (RankConstant + i)
<1> DEFINE n == RankConstant + i
           m == RankConstant + j
<1>1. n \in Nat /\ m \in Nat /\ n > 0 /\ m >= n + 1 /\ n <= 960
  BY SMT DEF RankConstant
<1> HIDE DEF n, m
<1>2. PICK q \in Nat : q = 1000000 \div n
  BY <1>1, SMT
<1>3. PICK p \in Nat : p = 1000000 \div m
  BY <1>1, SMT
<1>4. q * n <= 1000000 /\ 1000000 < q * n + n
  BY <1>1, <1>2, SMT
<1>5. p * m <= 1000000
  BY <1>1, <1>3, SMT
<1>6. SUFFICES ASSUME q <= p PROVE FALSE
  BY <1>2, <1>3 DEF n, m
<1>7. q * (n + 1) <= p * m
  <2>1. q * (n + 1) <= p * (n + 1)
    BY <1>1, <1>6, SMT
  <2>2. p * (n + 1) <= p * m
    BY <1>1, SMT
  <2>3. q * (n + 1) \in Int /\ p * (n + 1) \in Int /\ p * m \in Int
    BY <1>1, SMT
  <2> QED BY <2>1, <2>2, <2>3, SMT
<1>8. q * n + q <= 1000000
  <2>1. q * (n + 1) = q * n + q
    BY <1>1, SMT
  <2> QED BY <1>1, <1>5, <1>7, <2>1, SMT
<1>9. q < n
  BY <1>1, <1>4, <1>8, SMT
<1>10. q * n <= 959 * 960
  BY <1>1, <1>9, SMT
<1> QED BY <1>1, <1>4, <1>10, SMT

\* The position of a record in a ranking is its place, or behind the last.
LEMMA PositionInRanks ==
    ASSUME NEW r, NEW S, IsRanking(r, S), NEW id
    PROVE  /\ Len(r) \in Nat /\ DOMAIN r = 1..Len(r)
           /\ Position(r, id) \in 1..(Len(r) + 1)
           /\ id \notin Range(r) => Position(r, id) = Len(r) + 1
           /\ id \in Range(r) => Position(r, id) \in DOMAIN r /\ r[Position(r, id)] = id
           /\ \A i \in DOMAIN r : r[i] = id => Position(r, id) = i
<1>1. PICK n \in Nat : r \in [1..n -> S] /\ \A i, j \in 1..n : r[i] = r[j] => i = j
  BY DEF IsRanking
<1>2. Len(r) = n /\ DOMAIN r = 1..n
  BY <1>1
<1>3. ASSUME NEW i \in DOMAIN r, r[i] = id PROVE Position(r, id) = i
  BY <1>1, <1>2, <1>3 DEF Position
<1>4. id \notin Range(r) => Position(r, id) = n + 1
  BY <1>2 DEF Position, Range
<1>5. id \in Range(r) => \E i \in DOMAIN r : r[i] = id
  BY DEF Range
<1> QED BY <1>1, <1>2, <1>3, <1>4, <1>5

\* What is in a better place of a ranking gets no less from it, and more if the place is
\* another.
LEMMA BetterPlace ==
    ASSUME NEW r, NEW S, IsRanking(r, S), \A i \in DOMAIN r : i <= RerankK, NEW a, NEW b,
           Position(r, a) <= Position(r, b)
    PROVE  /\ Contribution(r, a) >= Contribution(r, b)
           /\ Position(r, a) < Position(r, b) => Contribution(r, a) > Contribution(r, b) /\ a \in Range(r)
<1>1. /\ Len(r) \in Nat /\ DOMAIN r = 1..Len(r)
      /\ Position(r, a) \in 1..(Len(r) + 1) /\ Position(r, b) \in 1..(Len(r) + 1)
      /\ a \notin Range(r) => Position(r, a) = Len(r) + 1
      /\ a \in Range(r) => Position(r, a) \in DOMAIN r /\ r[Position(r, a)] = a
      /\ b \notin Range(r) => Position(r, b) = Len(r) + 1
      /\ b \in Range(r) => Position(r, b) \in DOMAIN r /\ r[Position(r, b)] = b
  BY PositionInRanks
<1>2. /\ Contribution(r, a) \in Int /\ Contribution(r, a) >= 0 /\ Contribution(r, b) \in Int
      /\ \A i \in DOMAIN r : r[i] = a => Contribution(r, a) = 1000000 \div (RankConstant + i)
      /\ \A i \in DOMAIN r : r[i] = b => Contribution(r, b) = 1000000 \div (RankConstant + i)
      /\ b \notin Range(r) => Contribution(r, b) = 0
      /\ a \notin Range(r) => Contribution(r, a) = 0
  BY Contributions
<1>3. \A i \in DOMAIN r : i \in Nat /\ i <= 900
  BY <1>1, AnswerAssumption
<1>4. CASE Position(r, a) = Position(r, b)
  <2>1. a \in Range(r) <=> b \in Range(r)
    BY <1>1, <1>4
  <2>2. Contribution(r, a) = Contribution(r, b)
    BY <1>1, <1>2, <1>4, <2>1
  <2> QED BY <1>1, <1>2, <1>4, <2>2
<1>5. CASE Position(r, a) < Position(r, b)
  <2> DEFINE i == Position(r, a)
             j == Position(r, b)
  <2>1. a \in Range(r) /\ i \in DOMAIN r /\ r[i] = a
    BY <1>1, <1>5
  <2>2. Contribution(r, a) = 1000000 \div (RankConstant + i) /\ i \in Nat /\ i <= 900
    BY <1>2, <1>3, <2>1
  <2>3. CASE b \in Range(r)
    <3>1. Contribution(r, b) = 1000000 \div (RankConstant + j) /\ j \in Nat
      BY <1>1, <1>2, <1>3, <2>3
    <3>2. 1000000 \div (RankConstant + j) < 1000000 \div (RankConstant + i)
      BY <1>5, <2>2, <3>1, SharesFall
    <3>3. Contribution(r, b) < Contribution(r, a)
      BY <2>2, <3>1, <3>2
    <3> QED BY <1>2, <2>1, <3>3
  <2>4. CASE b \notin Range(r)
    <3>1. 1000000 \div (RankConstant + i) > 0
      BY <2>2, SMT DEF RankConstant
    <3>2. Contribution(r, a) > Contribution(r, b)
      BY <1>2, <2>2, <2>4, <3>1
    <3> QED BY <1>2, <2>1, <3>2
  <2> QED BY <2>3, <2>4
<1> QED BY <1>1, <1>4, <1>5

\* What both rankings put before another, and one strictly, is before it in the fusion.
LEMMA FusedFairly ==
    ASSUME NEW S, S \subseteq Int \X Int, NEW vector, NEW keyword, IsRanking(vector, S), IsRanking(keyword, S),
           \A i \in DOMAIN vector : i <= RerankK, \A i \in DOMAIN keyword : i <= RerankK,
           NEW a, NEW b, Position(vector, a) <= Position(vector, b), Position(keyword, a) <= Position(keyword, b),
           Position(vector, a) < Position(vector, b) \/ Position(keyword, a) < Position(keyword, b)
    PROVE  Position(Fused(vector, keyword), a) < Position(Fused(vector, keyword), b)
<1> DEFINE fused == Fused(vector, keyword)
           all == Range(vector) \cup Range(keyword)
           scores == FusedScores(vector, keyword)
<1>0. FusionOf(vector, keyword, S)
  BY FusedRanks
<1>1. /\ IsRanking(fused, S)
      /\ \A id \in all : \E i \in DOMAIN fused : fused[i] = id
      /\ \A i, j \in DOMAIN fused : scores[fused[i]] > scores[fused[j]] => i < j
      /\ Range(fused) \subseteq all
  BY <1>0 DEF FusionOf
<1>2. \A id \in all : scores[id] = Contribution(vector, id) + Contribution(keyword, id)
  BY DEF FusedScores
<1>3. /\ Contribution(vector, a) >= Contribution(vector, b)
      /\ Position(vector, a) < Position(vector, b) => Contribution(vector, a) > Contribution(vector, b) /\ a \in all
  BY BetterPlace
<1>4. /\ Contribution(keyword, a) >= Contribution(keyword, b)
      /\ Position(keyword, a) < Position(keyword, b) => Contribution(keyword, a) > Contribution(keyword, b) /\ a \in all
  BY BetterPlace
<1>5. /\ Contribution(vector, a) \in Int /\ Contribution(vector, b) \in Int
      /\ Contribution(keyword, a) \in Int /\ Contribution(keyword, b) \in Int
  BY Contributions
<1>6. a \in all /\ Contribution(vector, a) + Contribution(keyword, a) > Contribution(vector, b) + Contribution(keyword, b)
  <2>1. a \in all
    BY <1>3, <1>4
  <2> HIDE DEF all
  <2> QED BY <1>3, <1>4, <1>5, <2>1
<1> HIDE DEF fused, all, scores
<1>7. PICK i \in DOMAIN fused : fused[i] = a
  BY <1>1, <1>6
<1>8. /\ Len(fused) \in Nat /\ DOMAIN fused = 1..Len(fused)
      /\ Position(fused, a) = i
  BY <1>1, <1>7, PositionInRanks
<1>9. /\ b \notin Range(fused) => Position(fused, b) = Len(fused) + 1
      /\ b \in Range(fused) => Position(fused, b) \in DOMAIN fused /\ fused[Position(fused, b)] = b
  BY <1>1, PositionInRanks
<1>10. CASE b \notin Range(fused)
  BY <1>8, <1>9, <1>10 DEF fused
<1>11. CASE b \in Range(fused)
  <2>1. b \in all /\ scores[a] > scores[b]
    BY <1>1, <1>2, <1>6, <1>11
  <2>2. i < Position(fused, b)
    BY <1>1, <1>7, <1>9, <1>11, <2>1
  <2> QED BY <1>8, <2>2 DEF fused
<1> QED BY <1>10, <1>11

\* A sound answer is of a fair fusion.
LEMMA SoundIsFair == AnswerInv => FusionIsFair
<1> SUFFICES ASSUME AnswerInv, request.day > 0 PROVE FusionIsFair
  BY DEF FusionIsFair
<1> DEFINE scope == Authorized(corpus, request.who, request.day)
           keyword == KeywordRanking(corpus, request.query, scope)
<1>1. Searched(request, corpus)
  BY DEF AnswerInv, AnswerSound
<1>2. corpus # Absent /\ IsFiniteSet(request.query.terms)
  BY <1>1 DEF Searched
<1>3. WellCut(corpus)
  BY <1>2 DEF AnswerInv
<1>4. Ids(corpus) \cap scope = scope /\ scope \subseteq Int \X Int
  BY <1>3, AuthorizedIds
<1>5. IsRanking(keyword, scope) /\ Len(keyword) <= RerankK
  <2> HIDE DEF scope
  <2> QED BY <1>2, <1>3, <1>4, KeywordRanks
<1>6. \A i \in DOMAIN keyword : i <= RerankK
  <2> HIDE DEF keyword
  <2>1. \A i \in 1..Len(keyword) : i <= Len(keyword)
    BY <1>5, PositionInRanks
  <2> QED BY <1>5, <2>1, PositionInRanks, AnswerAssumption
<1>7. /\ IsRanking(request.vector, scope) /\ \A i \in DOMAIN request.vector : i <= RerankK
      /\ request.fused = Fused(request.vector, keyword)
  BY <1>1 DEF Searched
<1> HIDE DEF scope, keyword
<1>8. ASSUME NEW a \in scope, NEW b \in scope,
             Position(request.vector, a) <= Position(request.vector, b), Position(keyword, a) <= Position(keyword, b),
             \/ Position(request.vector, a) < Position(request.vector, b)
             \/ Position(keyword, a) < Position(keyword, b)
      PROVE  Position(request.fused, a) < Position(request.fused, b)
  BY <1>4, <1>5, <1>6, <1>7, <1>8, FusedFairly
<1> QED BY <1>8 DEF FusionIsFair, scope, keyword

\* Only a search leaves the phase of a question that was asked, but for a failure.
LEMMA AskedIsSearched ==
    ASSUME AnswerInv, [RequestNext]_requestVars, request.phase = "asked", request'.phase # "asked",
           request'.policy # "failed"
    PROVE  Search
<1>1. RequestFields(request)
  BY DEF AnswerInv, AnswerSound
<1>2. request' # Failed
  BY <1>1 DEF Failed, RequestFields
<1>3. Answering
  <2>1. ASSUME NEW who, NEW query, NEW by, AskPolicy(who, query, by) PROVE FALSE
    BY <2>1 DEF AskPolicy, InPhase
  <2>2. ASSUME request' = request PROVE FALSE
    BY <2>2
  <2>3. ~PolicyAnswered
    BY DEF PolicyAnswered, InPhase
  <2>4. \A who, query : ~AnswerPolicy(who) /\ ~Research(who, query)
    BY <2>1 DEF AnswerPolicy, Research
  <2>5. ~(UNCHANGED answerVars)
    BY <2>2 DEF answerVars
  <2>6. \A m, reply : ~Receive(m) /\ ~Classify(reply)
    BY <2>5 DEF Receive, Classify
  <2>7. ~ClassifierFails /\ ~AskApproval /\ ~AskMaterials /\ ~GenerateDraft /\ ~UpdateDraft
    BY <2>5 DEF ClassifierFails, AskApproval, AskMaterials, GenerateDraft, UpdateDraft
  <2>8. ~(UNCHANGED requestVars)
    BY <2>5 DEF requestVars
  <2> QED BY <2>3, <2>4, <2>6, <2>7, <2>8 DEF RequestNext
<1>4. AnswerNext
  BY <1>3 DEF Answering
<1>5. \A d \in Deployments : ~Start(d.files, d.ocr)
  BY DEF Start
<1>6. ~OtherProcessWrites /\ ~NextDay
  BY DEF OtherProcessWrites, NextDay
<1>7. ~SearchRefused
  BY <1>2 DEF SearchRefused
<1>8. ~AttemptFails
  <2>1. ASSUME AttemptFails PROVE FALSE
    <3>1. request' = [request EXCEPT !.phase = "asked", !.attempts = @ + 1]
      BY <1>2, <2>1 DEF AttemptFails
    <3>2. request'.phase = "asked"
      BY <1>1, <3>1 DEF RequestFields
    <3> QED BY <3>2
  <2> QED BY <2>1
<1>9. \A markers, payload : ~Reply(markers) /\ ~AnswerWithoutWeb /\ ~SearchWeb(payload)
  BY DEF Reply, AnswerWithoutWeb, SearchWeb, InPhase
<1> QED BY <1>4, <1>5, <1>6, <1>7, <1>8, <1>9 DEF AnswerNext

\* The chunks a scope is of, alone.
LEMMA VisibleAlone ==
    ASSUME NEW chunks, WellCut(chunks), NEW V \in SUBSET DOMAIN chunks, NEW query
    PROVE  LET visible == [c \in V |-> chunks[c]]
               scope == {chunks[c].id : c \in V}
           IN  /\ Ids(visible) = scope
               /\ KeywordRanking(visible, query, scope) = KeywordRanking(chunks, query, scope)
<1> DEFINE visible == [c \in V |-> chunks[c]]
           scope == {chunks[c].id : c \in V}
           texts == TextsOf(chunks, scope)
           Of(id) == CHOOSE c \in Range(visible) : c.id = id
<1>1. Ids(visible) = scope
  BY DEF Ids
<1>2. DOMAIN texts = scope
  <2>1. Ids(chunks) \cap scope = scope
    BY DEF Ids
  <2> HIDE DEF scope
  <2> QED BY <2>1, TextsAreOfChunks
<1>3. TextsOf(visible, scope) = [id \in scope |-> Of(id).lines]
  <2>1. {visible[c].id : c \in DOMAIN visible} \cap scope = scope
    OBVIOUS
  <2> HIDE DEF scope, visible
  <2> QED BY <2>1 DEF TextsOf
<1>4. ASSUME NEW id \in scope PROVE Of(id).lines = texts[id]
  <2>1. PICK c \in V : chunks[c].id = id
    OBVIOUS
  <2>2. texts[id] = chunks[c].lines
    <3> HIDE DEF scope
    <3> QED BY <2>1, TextsAreOfChunks
  <2>3. chunks[c] \in Range(visible) /\ \A e \in Range(visible) : e.id = id => e = chunks[c]
    BY <2>1 DEF Range, WellCut
  <2> HIDE DEF visible, texts
  <2>4. Of(id) = chunks[c]
    BY <2>1, <2>3
  <2> QED BY <2>2, <2>4
<1>5. texts = [id \in scope |-> texts[id]]
  <2>1. texts = [id \in DOMAIN texts |-> texts[id]]
    BY DEF TextsOf
  <2> HIDE DEF texts
  <2> QED BY <1>2, <2>1
<1>6. TextsOf(visible, scope) = texts
  <2> HIDE DEF texts, scope, Of
  <2> QED BY <1>3, <1>4, <1>5
<1> HIDE DEF visible, scope
<1>7. KeywordScores(visible, query, scope) = KeywordScores(chunks, query, scope)
  BY <1>6 DEF KeywordScores
<1>8. KeywordRanking(visible, query, scope) = KeywordRanking(chunks, query, scope)
  BY <1>7 DEF KeywordRanking
<1> QED BY <1>1, <1>8 DEF visible, scope

\* Rows outside the scope do not count for a vector ranking.
LEMMA RowsAlone ==
    ASSUME NEW table, NEW query, NEW scope
    PROVE  VectorRankings([id \in DOMAIN table \cap scope |-> table[id]], query, scope) = VectorRankings(table, query, scope)
<1> DEFINE seen == [id \in DOMAIN table \cap scope |-> table[id]]
           found == DOMAIN table \cap scope
           score == [id \in found |-> Similarity(query, table[id])]
<1>1. DOMAIN seen \cap scope = found
  OBVIOUS
<1>2. [id \in found |-> Similarity(query, seen[id])] = score
  OBVIOUS
<1> QED BY <1>1, <1>2 DEF VectorRankings

\* A search finds what it would find among the chunks of its scope alone.
LEMMA SearchSeesVisible ==
    ASSUME AnswerInv, Search
    PROVE  FusedFromVisible
<1> DEFINE V == {d \in DOMAIN corpus : MaySee(request.who, corpus[d].meta, today)}
           visible == [c \in V |-> corpus[c]]
           scope == Authorized(corpus, request.who, today)
           keyword == KeywordRanking(corpus, request.query, scope)
<1>1. request.phase = "asked"
  BY DEF Search, SearchPolicy, InPhase
<1>2. corpus # Absent /\ WellCut(corpus) /\ RequestFields(request)
  BY <1>1 DEF AnswerInv, AnswerSound
<1>3. PICK vector \in VectorRankings(rows, request.query, scope), relevance \in Relevances :
          LET fused == Fused(vector, keyword)
              found == Found(fused, relevance)
          IN  request' = Prompted([request EXCEPT !.vector = vector, !.fused = fused, !.found = found,
                                                  !.day = today, !.context = <<>>], Context(found))
  BY DEF Search, SearchPolicy
<1>4. scope = {corpus[c].id : c \in V}
  BY DEF Authorized
<1>5. Ids(visible) = scope /\ KeywordRanking(visible, request.query, scope) = keyword
  <2>1. V \in SUBSET DOMAIN corpus
    OBVIOUS
  <2> HIDE DEF V, scope
  <2> QED BY <1>2, <1>4, <2>1, VisibleAlone
<1> HIDE DEF scope, keyword, visible
<1> DEFINE fused == Fused(vector, keyword)
           found == Found(fused, relevance)
           context == Context(found)
<1>6. PICK searched : /\ searched = [request EXCEPT !.vector = vector, !.fused = fused, !.found = found,
                                                     !.day = today, !.context = <<>>]
                      /\ request' = Prompted(searched, context)
  BY <1>3
<1> HIDE DEF fused, found, context
<1>7. RequestFields(searched) /\ searched.fused = fused
  BY <1>2, <1>6 DEF RequestFields
<1>8. request'.fused = fused
  BY <1>6, <1>7 DEF Prompted, RequestFields
<1>9. VectorRankings([id \in DOMAIN rows \cap scope |-> rows[id]], request.query, scope)
        = VectorRankings(rows, request.query, scope)
  BY RowsAlone
<1> QED BY <1>5, <1>8, <1>9 DEF fused, visible, FusedFromVisible

-----------------------------------------------------------------------------
(* The theorems about answers.                                              *)

\* Every citation of an answer is a numbered piece of the evidence the model was given: of
\* a chunk its asker could see on the day of the search and that gives no instructions, and
\* the markers and the citations name each other; an answer of the research assistant that
\* is completed cites something.
THEOREM AnswersCiteEvidence == RequestSpec => []CitationsAreEvidence
BY AnswerInvariant, SoundIsCited, PTL

\* What neither ranking puts behind another chunk and one puts before it is before it in the
\* fusion of fusion.py, for every question, every similarity and every corpus.
THEOREM FusionsAreFair == RequestSpec => []FusionIsFair
BY AnswerInvariant, SoundIsFair, PTL

\* What an asker may not see does not show in the ranking of what the asker may see: its
\* words count in no frequency and in no average, and its rows take no place among the
\* candidates.
THEOREM RestrictionsDoNotShow == RequestSpec => RestrictionIsInvisible
<1> DEFINE A == request.phase = "asked" /\ request'.phase # "asked" /\ request'.policy # "failed" => FusedFromVisible
<1>1. AnswerInv /\ [RequestNext]_requestVars => [A]_answerVars
  BY AskedIsSearched, SearchSeesVisible
<1>2. RequestSpec => [][A]_answerVars
  <2> HIDE DEF A
  <2> QED BY <1>1, AnswerInvariant, PTL DEF RequestSpec
<1> QED BY <1>2 DEF RestrictionIsInvisible

=============================================================================
