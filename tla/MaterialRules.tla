----------------------------- MODULE MaterialRules -----------------------------
(***************************************************************************)
(* RequiredMaterialsChecker: what it reads in a text, the materials it      *)
(* requires with their counts, and its comparison with those listed.        *)
(***************************************************************************)
EXTENDS RequestText

MaterialType(text) ==
    FirstKind(<< <<"travel", Says(text, "trip") /\ SaysAny(text, {"claim", "tripPapers"})>>,
                 <<"expense", \/ Says(text, "expenseClaim")
                              \/ Says(text, "claim") /\ Says(text, "feeName")>>,
                 <<"purchase", Says(text, "buy")>>,
                 <<"leave", Says(text, "leave")>> >>)

\* No pattern of this reader takes thousands separators, or a duration that is
\* not written with the character for a day.
MaterialAmount(text) == AmountRead(text, FALSE)
LeaveDaysRead(text) ==
    First(text, {i \in DOMAIN text : /\ text[i].days # None
                                      /\ text[i].dayWord = "tian"}).days

ExpenseCategory(text) ==
    FirstKind(<< <<"meeting", Says(text, "meeting")>>,
                 <<"training", Says(text, "training")>>,
                 <<"entertainment", Says(text, "hosting")>> >>)

\* The first mention of a material decides whether it counts as provided.
Mentioned(text) == UNION {text[i].has \cup text[i].lacks : i \in DOMAIN text}
Provided(text) ==
    {m \in Mentioned(text) :
        m \in First(text, {i \in DOMAIN text :
                            m \in text[i].has \cup text[i].lacks}).has}
Quoted(text) ==
    LET counted == First(text, {i \in DOMAIN text : text[i].quotes > 0}).quotes
    IN  IF counted = 0 THEN 1 ELSE counted
ProvidedCounts(text) ==
    [m \in Provided(text) |-> IF m = "quotation" THEN Quoted(text) ELSE 1]

-----------------------------------------------------------------------------
OneOfEach(materials) == [m \in materials |-> 1]
Needs(requirements, question) == [requirements |-> requirements, question |-> question]

TravelMaterials == {"approvedTravel", "itinerary", "transportReceipts",
                    "hotelInvoice", "hotelDetail", "paymentRecords", "tripResult"}
ExpenseMaterials == {"reimbursementForm", "invoice", "paymentRecords", "details",
                     "purpose", "priorApproval", "budgetReference"}
CategoryMaterials ==
    [meeting |-> {"meetingNotice", "attendeeList", "venueOrder"},
     training |-> {"trainingNotice", "registration", "completionProof"},
     entertainment |-> {"entertainmentParties", "diningInvoice"}]

PurchaseAttachments(text) ==
    {m \in {"technicalRequirement", "itReview"} : Says(text, "it")}
    \cup {m \in {"productSpecification"} : Says(text, "goods")}
    \cup {m \in {"serviceScope"} : Says(text, "service") /\ ~Says(text, "goods")}
    \cup {m \in {"emergencyExplanation"} : Says(text, "urgent")}

PurchaseNeeds(text) ==
    LET amount == MaterialAmount(text)
        attached == PurchaseAttachments(text)
        WithQuotes(more, n) == [m \in attached \cup more \cup {"quotation"} |->
                                    IF m = "quotation" THEN n ELSE 1]
    IN  IF amount = None THEN Needs(OneOfEach(attached), "amount")
        ELSE CASE amount > 200000 -> Needs(OneOfEach(attached \cup {"tender"}), None)
               [] amount > 50000 /\ amount <= 200000
                     -> Needs(WithQuotes({"comparisonRecord"}, 3), None)
               [] amount > 5000 /\ amount <= 50000 -> Needs(WithQuotes({}, 2), None)
               [] amount <= 5000 -> Needs(OneOfEach(attached), None)

LeaveNeeds(text) ==
    LET type == LeaveTypeRead(text)
        days == LeaveDaysRead(text)
    IN  CASE type = None -> Needs(<<>>, "leaveType")
          [] type = "sick" /\ days = None -> Needs(<<>>, "days")
          [] type = "sick" /\ days # None
                -> Needs(OneOfEach({m \in {"medicalProof"} : days > 2}), None)
          [] type = "marriage" -> Needs(OneOfEach({"marriageCertificate"}), None)
          [] type = "work_injury" -> Needs(OneOfEach({"medicalProof"}), None)
          [] type \in {"bereavement", "parental", "annual", "compensatory", "personal"}
                -> Needs(<<>>, None)

RequirementsFor(text) ==
    LET type == MaterialType(text)
        category == ExpenseCategory(text)
    IN  CASE type = "travel" -> Needs(OneOfEach(TravelMaterials), None)
          [] type = "purchase" -> PurchaseNeeds(text)
          [] type = "expense"
                -> Needs(OneOfEach(ExpenseMaterials \cup
                            IF category = None THEN {} ELSE CategoryMaterials[category]),
                         None)
          [] type = "leave" -> LeaveNeeds(text)
          [] OTHER -> Needs(<<>>, "type")

\* How many are still missing of each material that is short.
MissingMaterials(requirements, provided) ==
    LET given(m) == IF m \in DOMAIN provided THEN provided[m] ELSE 0
        short == {m \in DOMAIN requirements : requirements[m] > given(m)}
    IN  [m \in short |-> requirements[m] - given(m)]

\* check: comparison when the text says what is ready or asks what is missing.
Compared(text, type, needs, provided) ==
    LET compared == Says(text, "compares") /\ type # None /\ needs.question = None
        unlisted == provided = <<>> /\ ~Says(text, "noMaterials") /\ Mentioned(text) = {}
        missing == MissingMaterials(needs.requirements, provided)
    IN  [type |-> type, required |-> needs.requirements, provided |-> provided,
         missing |-> IF compared /\ ~unlisted THEN missing ELSE <<>>,
         complete |-> IF compared /\ ~unlisted THEN DOMAIN missing = {} ELSE None,
         question |-> IF compared /\ unlisted THEN "materials" ELSE needs.question]

CheckMaterials(text) ==
    Compared(text, MaterialType(text), RequirementsFor(text),
             IF Says(text, "compares") THEN ProvidedCounts(text) ELSE <<>>)
===============================================================================
