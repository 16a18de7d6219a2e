---------------------------- MODULE ApprovalPolicy ----------------------------
(***************************************************************************)
(* What the policy documents of the company say of who approves a request:  *)
(* the reference that the answers of ApprovalRules are held to.  A request  *)
(* is the one the checker resolved; amounts are yuan, days are half days.   *)
(***************************************************************************)
EXTENDS Integers, Sequences, SequencesExt

CONSTANT None    \* not stated

\* The article that decides, and the approvers it lists in their order.
Tier(article, listed) == [article |-> article, listed |-> listed]

PurchaseTier(amount) ==
    CASE amount <= 5000 -> Tier("procurement.11", <<"directManager">>)
      [] amount > 5000 /\ amount <= 50000
            -> Tier("procurement.12", <<"directManager", "departmentHead", "procurement">>)
      [] amount > 50000 /\ amount <= 200000
            -> Tier("procurement.13", <<"directManager", "departmentHead", "procurement",
                                        "finance", "vicePresident">>)
      [] amount > 200000
            -> Tier("procurement.14", <<"directManager", "departmentHead", "procurement",
                                        "finance", "vicePresident", "generalManager">>)

TravelTier(amount) ==
    Tier("travel.5",
        CASE amount <= 5000 -> <<"directManager">>
          [] amount > 5000 /\ amount <= 20000 -> <<"directManager", "departmentHead">>
          [] amount > 20000 -> <<"directManager", "departmentHead", "vicePresident">>)

ExpenseTier(amount) ==
    CASE amount <= 1000 -> Tier("expense.21", <<"directManager", "finance">>)
      [] amount > 1000 /\ amount <= 5000
            -> Tier("expense.22", <<"directManager", "departmentHead", "finance">>)
      [] amount > 5000 /\ amount <= 20000
            -> Tier("expense.23", <<"directManager", "departmentHead", "finance">>)
      [] amount > 20000
            -> Tier("expense.24", <<"directManager", "departmentHead", "finance",
                                    "vicePresident">>)

LeaveTier(days) ==
    CASE days <= 2 -> Tier("leave.20", <<"directManager">>)
      [] days > 2 /\ days <= 6 -> Tier("leave.20", <<"directManager", "departmentHead">>)
      [] days > 6 /\ days <= 10
            -> Tier("leave.20", <<"directManager", "departmentHead", "humanResources">>)
      [] days > 10
            -> Tier("leave.21", <<"directManager", "departmentHead", "humanResources",
                                  "vicePresident">>)

TierOf(r) ==
    CASE r.type = "purchase" /\ "emergency" \in r.conditions -> Tier("procurement.31", <<>>)
      [] r.type = "purchase" /\ "emergency" \notin r.conditions -> PurchaseTier(r.amount)
      [] r.type = "travel" /\ "claim" \in r.conditions
            -> Tier("travel.20", <<"directManager", "departmentHead", "finance">>)
      [] r.type = "travel" /\ "claim" \notin r.conditions -> TravelTier(r.amount)
      [] r.type = "expense" -> ExpenseTier(r.amount)
      [] r.type = "leave" /\ "departmentHead" \in r.conditions
            -> Tier("leave.22", <<"vicePresident">>)
      [] r.type = "leave" /\ "departmentHead" \notin r.conditions -> LeaveTier(r.leaveDays)

\* Who else approves, reviews or confirms, with no place in the order.
FurtherApprovers(r) ==
    LET Adds(approver, condition) == {a \in {approver} : condition}
        emergency == "emergency" \in r.conditions
    IN  CASE r.type = "purchase" ->
                (IF emergency THEN {"departmentHead", "procurement", "finance"} ELSE {})
                \cup Adds("vicePresident", emergency /\ r.amount > 50000)
                \cup Adds("generalManager", emergency /\ r.amount > 200000)
                \cup Adds("it", "it" \in r.conditions)
                \cup Adds("committee", r.amount > 1000000 \/ "majorProject" \in r.conditions)
          [] r.type = "travel" ->
                Adds("finance", \/ "claim" \in r.conditions
                                \/ r.amount > 30000
                                \/ r.travelDays # None /\ r.travelDays > 30
                                \/ {"overStandard", "overseas", "advance"} \cap r.conditions # {})
          [] r.type = "expense" -> Adds("generalManager", r.amount > 100000)
          [] r.type = "leave" ->
                Adds("humanResources",
                     \/ r.leaveDays > 6
                     \/ r.leaveType = "sick" /\ r.leaveDays > 2
                     \/ r.leaveType \in {"marriage", "bereavement", "parental", "work_injury"}
                     \/ {"balanceDisputed", "materialsConflict"} \cap r.conditions # {})
                \cup Adds("generalManager", r.leaveDays > 30)

\* The route has exactly the approvers the policy requires, once each, the listed
\* ones in their order, the technical review before the procurement department.
Follows(r, approvers) ==
    LET listed == TierOf(r).listed
        Place(a) == CHOOSE i \in DOMAIN approvers : approvers[i] = a
    IN  /\ IsInjective(approvers)
        /\ ToSet(approvers) = ToSet(listed) \cup FurtherApprovers(r)
        /\ \A i, j \in DOMAIN listed : i < j => Place(listed[i]) < Place(listed[j])
        /\ {"it", "procurement"} \subseteq ToSet(approvers)
              => Place("it") < Place("procurement")
===============================================================================
