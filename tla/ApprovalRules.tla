----------------------------- MODULE ApprovalRules -----------------------------
(***************************************************************************)
(* ApprovalRuleChecker: the application type, amount and conditions it      *)
(* reads in a text, and the level, the steps and the articles it answers.   *)
(***************************************************************************)
EXTENDS RequestText

ApprovalType(text) ==
    FirstKind(<< <<"travel", Says(text, "trip")>>,
                 <<"expense", Says(text, "expenseClaim")>>,
                 <<"purchase", SaysAny(text, {"buy", "acquire"})>>,
                 <<"leave", SaysAny(text, {"leave", "annualRest"})>> >>)

ApprovalAmount(text) == AmountRead(text, TRUE)
DaysRead(text) == First(text, {i \in DOMAIN text : text[i].days # None}).days

SpecialExpenses == {"noInvoice", "entertainment", "late", "unclear", "paidByOther",
                    "personalData", "highRisk"}
PreapprovedExpenses == {"entertainment", "externalTraining", "venue", "largeOffice",
                        "subscription", "marketing", "consulting"}

\* conditions: the flags of _ResolvedApprovalRequest that hold.
Resolved(text) ==
    LET type == ApprovalType(text)
        words == UNION {text[i].says : i \in DOMAIN text}
    IN  [type |-> type, amount |-> ApprovalAmount(text),
         leaveDays |-> IF type = "leave" THEN DaysRead(text) ELSE None,
         travelDays |-> IF type = "travel" THEN DaysRead(text) ELSE None,
         leaveType |-> LeaveTypeRead(text),
         conditions |->
            (words \cap ({"it", "majorProject", "overStandard", "overseas", "advance",
                          "departmentHead", "balanceDisputed", "materialsConflict"}
                         \cup SpecialExpenses \cup PreapprovedExpenses))
            \cup {c \in {"emergency"} : type = "purchase" /\ "urgent" \in words}
            \cup {c \in {"claim"} : type = "travel" /\ "claim" \in words}]

-----------------------------------------------------------------------------
Step(approver, action) == [approver |-> approver, action |-> action]
When(condition, approver, action) ==
    IF condition THEN <<Step(approver, action)>> ELSE <<>>

NoAnswer(type, question, articles) ==
    [type |-> type, level |-> None, steps |-> <<>>, question |-> question,
     articles |-> articles]
Answer(type, level, steps, articles) ==
    [type |-> type, level |-> level, steps |-> steps, question |-> None,
     articles |-> articles]

EmergencySteps(r) ==
    <<Step("departmentHead", "approve")>>
    \o When("it" \in r.conditions, "it", "technicalReview")
    \o <<Step("procurement", "confirm"), Step("finance", "confirm")>>
    \o When(r.amount > 50000, "vicePresident", "approve")
    \o When(r.amount > 200000, "generalManager", "approve")
    \o When(r.amount > 1000000 \/ "majorProject" \in r.conditions,
            "committee", "deliberate")

\* Mutant: the technical review is asked for after the procurement department.
PurchaseStepsReviewLate(r) ==
    <<Step("directManager", "approve")>>
    \o When(r.amount > 5000, "departmentHead", "approve")
    \o When(r.amount > 5000, "procurement", "approve")
    \o When("it" \in r.conditions, "it", "technicalReview")
    \o When(r.amount > 50000, "finance", "approve")
    \o When(r.amount > 50000, "vicePresident", "approve")
    \o When(r.amount > 200000, "generalManager", "approve")
    \o When(r.amount > 1000000 \/ "majorProject" \in r.conditions,
            "committee", "deliberate")

PurchaseSteps(r) ==
    <<Step("directManager", "approve")>>
    \o When(r.amount > 5000, "departmentHead", "approve")
    \o When("it" \in r.conditions, "it", "technicalReview")
    \o When(r.amount > 5000, "procurement", "approve")
    \o When(r.amount > 50000, "finance", "approve")
    \o When(r.amount > 50000, "vicePresident", "approve")
    \o When(r.amount > 200000, "generalManager", "approve")
    \o When(r.amount > 1000000 \/ "majorProject" \in r.conditions,
            "committee", "deliberate")

PurchaseLevel(amount) ==
    CASE amount <= 5000 -> [level |-> "small", article |-> "procurement.11"]
      [] amount > 5000 /\ amount <= 50000
            -> [level |-> "general", article |-> "procurement.12"]
      [] amount > 50000 /\ amount <= 200000
            -> [level |-> "important", article |-> "procurement.13"]
      [] amount > 200000 -> [level |-> "major", article |-> "procurement.14"]

PurchaseDecision(r) ==
    LET it == {a \in {"procurement.7"} : "it" \in r.conditions}
        tier == PurchaseLevel(r.amount)
        committee == r.amount > 1000000 \/ "majorProject" \in r.conditions
    IN  IF r.amount = None
        THEN NoAnswer("purchase", "amount",
                it \cup {"procurement.11", "procurement.12", "procurement.13",
                         "procurement.14"})
        ELSE IF "emergency" \in r.conditions
        THEN Answer("purchase", "emergency", EmergencySteps(r),
                {"procurement.31"} \cup it \cup {a \in {"procurement.14"} : committee})
        ELSE Answer("purchase", tier.level, PurchaseSteps(r), {tier.article} \cup it)

-----------------------------------------------------------------------------
TravelReviewed(r) ==
    \/ r.amount > 30000
    \/ r.travelDays # None /\ r.travelDays > 30
    \/ r.conditions \cap {"overStandard", "overseas", "advance"} # {}

\* The finance review goes before the vice president, or last.
TravelSteps(r) ==
    <<Step("directManager", "approve")>>
    \o When(r.amount > 5000, "departmentHead", "approve")
    \o When(TravelReviewed(r), "finance", "review")
    \o When(r.amount > 20000, "vicePresident", "approve")

TravelDecision(r) ==
    IF "claim" \in r.conditions
    THEN Answer("travel", "reimbursement",
            <<Step("directManager", "approve"), Step("departmentHead", "approve"),
              Step("finance", "review")>>, {"travel.20"})
    ELSE IF r.amount = None
    THEN NoAnswer("travel", "amount", {"travel.5", "travel.6"})
    ELSE Answer("travel",
            IF r.amount <= 5000 THEN "small"
            ELSE IF r.amount <= 20000 THEN "general" ELSE "large",
            TravelSteps(r),
            {"travel.5"} \cup {a \in {"travel.6"} : TravelReviewed(r)})

-----------------------------------------------------------------------------
ExpenseSteps(r) ==
    <<Step("directManager", "approve")>>
    \o When(r.amount > 1000, "departmentHead", "approve")
    \o <<Step("finance", IF r.amount <= 5000 THEN "review" ELSE "approve")>>
    \o When(r.amount > 20000, "vicePresident", "approve")
    \o When(r.amount > 100000, "generalManager", "approve")

ExpenseLevel(amount) ==
    CASE amount <= 1000 -> [level |-> "small", article |-> "expense.21"]
      [] amount > 1000 /\ amount <= 5000
            -> [level |-> "general", article |-> "expense.22"]
      [] amount > 5000 /\ amount <= 20000
            -> [level |-> "large", article |-> "expense.23"]
      [] amount > 20000 -> [level |-> "major", article |-> "expense.24"]

ExpenseDecision(r) ==
    LET tier == ExpenseLevel(r.amount)
        special == r.conditions \cap SpecialExpenses # {}
        preapproved == r.conditions \cap PreapprovedExpenses # {}
    IN  IF r.amount = None
        THEN NoAnswer("expense", "amount", {"expense.21", "expense.22", "expense.23",
                                            "expense.24", "expense.25"})
        ELSE Answer("expense", tier.level, ExpenseSteps(r),
                {tier.article} \cup {a \in {"expense.25"} : special}
                               \cup {a \in {"expense.11"} : preapproved})

-----------------------------------------------------------------------------
LeaveReviewed(r) ==
    \/ r.leaveDays > 6
    \/ r.leaveType = "sick" /\ r.leaveDays > 2
    \/ r.leaveType \in {"marriage", "bereavement", "parental", "work_injury"}
    \/ r.conditions \cap {"balanceDisputed", "materialsConflict"} # {}

HeadLeaveSteps(r) ==
    When(LeaveReviewed(r), "humanResources", "review")
    \o <<Step("vicePresident", "approve")>>
    \o When(r.leaveDays > 30, "generalManager", "approve")

LeaveSteps(r) ==
    <<Step("directManager", "approve")>>
    \o When(r.leaveDays > 2, "departmentHead", "approve")
    \o When(LeaveReviewed(r), "humanResources", "review")
    \o When(r.leaveDays > 10, "vicePresident", "approve")
    \o When(r.leaveDays > 30, "generalManager", "approve")

LeaveLevel(days) ==
    CASE days <= 2 -> "short"
      [] days > 2 /\ days <= 6 -> "medium"
      [] days > 6 /\ days <= 10 -> "extended"
      [] days > 10 -> "longTerm"

LeaveDecision(r) ==
    LET reviewed == {a \in {"leave.23"} : LeaveReviewed(r)}
        level == LeaveLevel(r.leaveDays)
    IN  IF r.leaveDays = None
        THEN NoAnswer("leave", "days", {"leave.20", "leave.21", "leave.22", "leave.23"})
        ELSE IF "departmentHead" \in r.conditions
        THEN Answer("leave", "departmentHead", HeadLeaveSteps(r), {"leave.22"} \cup reviewed)
        ELSE Answer("leave", level, LeaveSteps(r),
                {IF level = "longTerm" THEN "leave.21" ELSE "leave.20"} \cup reviewed)

-----------------------------------------------------------------------------
DecisionFor(r) ==
    CASE r.type = "purchase" -> PurchaseDecision(r)
      [] r.type = "travel" -> TravelDecision(r)
      [] r.type = "expense" -> ExpenseDecision(r)
      [] r.type = "leave" -> LeaveDecision(r)
      [] OTHER -> NoAnswer(None, "type", {})

CheckApproval(text) ==
    LET r == Resolved(text)
    IN  [request |-> r, decision |-> DecisionFor(r)]
===============================================================================
