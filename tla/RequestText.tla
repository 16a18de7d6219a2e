------------------------------ MODULE RequestText ------------------------------
(***************************************************************************)
(* The text the application tools read: a sequence of messages, of which a  *)
(* reader sees the cue words, the numbers and the materials.  A reader asks *)
(* whether some message says a word, and takes the first number of the kind *)
(* it can read.  Amounts are yuan, days are half days.                      *)
(***************************************************************************)
EXTENDS Integers, Sequences, FiniteSetsExt

CONSTANT None    \* nothing stated, nothing recognised

\* says: words and details that are stated.  quantity, unit, total: numbers of a
\* purchase, or the total of a claim.  grouped: which of unit and total have
\* thousands separators.  changes: numbers are stated as a change, which only the
\* normalisation of a revision makes readable.  days, dayWord: a duration and the
\* word for a day.  dates: first and last day.  leave: names of leave types.
\* has, lacks: materials listed as ready, or as missing.  quotes: how many.
NoMessage == [says |-> {}, quantity |-> None, unit |-> None, total |-> None,
              grouped |-> {}, changes |-> FALSE, days |-> None, dayWord |-> "tian",
              dates |-> None, leave |-> {}, has |-> {}, lacks |-> {}, quotes |-> 0]

\* What a message states is a number, or nothing.
IsMessage(m) ==
    /\ m = [says |-> m.says, quantity |-> m.quantity, unit |-> m.unit, total |-> m.total,
            grouped |-> m.grouped, changes |-> m.changes, days |-> m.days,
            dayWord |-> m.dayWord, dates |-> m.dates, leave |-> m.leave, has |-> m.has,
            lacks |-> m.lacks, quotes |-> m.quotes]
    /\ {m.quantity, m.unit, m.total, m.days} \subseteq Int \cup {None}
    /\ m.quotes \in Nat

\* Nothing is neither a number nor a word.
ASSUME TextAssumption ==
    None \notin Int \cup BOOLEAN
              \cup {"purchase", "travel", "leave", "expense", "amount", "days", "type",
                    "leaveType", "materials", "issues", "fields", "approval", "material",
                    "missing", "list", "approvalQuery", "draftGeneration", "policyQuery"}

Says(text, word) == \E i \in DOMAIN text : word \in text[i].says
SaysAny(text, words) == \E word \in words : Says(text, word)

\* at: the positions of the messages a pattern matches.
First(text, at) == IF at = {} THEN NoMessage ELSE text[Min(at)]

QuantityRead(m) == m.quantity # None /\ ~m.changes
UnitRead(m) == m.unit # None /\ ~m.changes
TotalRead(m) == m.total # None /\ ~m.changes

\* A quantity with its price, in one message, is read before a labelled total.
AmountRead(text, takesSeparators) ==
    LET Readable(i, number) == takesSeparators \/ number \notin text[i].grouped
        priced == First(text, {i \in DOMAIN text : /\ QuantityRead(text[i])
                                                   /\ UnitRead(text[i])
                                                   /\ Readable(i, "unit")})
        totalled == First(text, {i \in DOMAIN text : /\ TotalRead(text[i])
                                                     /\ Readable(i, "total")})
    IN  IF priced # NoMessage THEN priced.quantity * priced.unit ELSE totalled.total

\* The order of _detect_leave_type, not the order of the text, decides.
LeaveTypes == <<"sick", "marriage", "bereavement", "parental", "work_injury",
                "annual", "compensatory", "personal">>
LeaveTypeRead(text) ==
    LET named == {k \in DOMAIN LeaveTypes : \E i \in DOMAIN text :
                        LeaveTypes[k] \in text[i].leave}
    IN  IF named = {} THEN None ELSE LeaveTypes[Min(named)]

\* kinds: <<type, condition>> in the order a detector tests them.
FirstKind(kinds) ==
    LET holding == {k \in DOMAIN kinds : kinds[k][2]}
    IN  IF holding = {} THEN None ELSE kinds[Min(holding)][1]

\* The phrases that contain other words the readers look for.
Containing == [tripClaim |-> {"trip", "claim"}, expenseClaim |-> {"claim"},
               urgentPurchase |-> {"urgent", "buy"},
               notUrgentPurchase |-> {"urgentPurchase", "urgent", "buy"},
               plainPurchase |-> {"buy"}]
Words(phrases) ==
    phrases \cup UNION {Containing[p] : p \in phrases \cap DOMAIN Containing}
===============================================================================
