------------------------------ MODULE DraftRules ------------------------------
(***************************************************************************)
(* ApplicationDraftGenerator over the two rule checkers: a question to the  *)
(* approval tool, a draft generated from a request, and its revisions, each *)
(* of which is generated anew from the merged fields followed by all the    *)
(* messages of the draft.                                                   *)
(***************************************************************************)
EXTENDS ApprovalRules, MaterialRules, SequencesExt

CONSTANTS
    Questions,     \* messages put to the approval tool
    Requests,      \* messages that ask for a draft
    Amendments,    \* messages that revise a draft
    MaxRevisions   \* bound: revisions of a draft

ASSUME RulesAssumption ==
    /\ MaxRevisions \in Nat
    /\ \A m \in Questions \cup Requests \cup Amendments : IsMessage(m)

VARIABLES
    approval,   \* the last answer of the approval tool
    draft,      \* the active draft
    messages    \* draft_messages: the request and the amendments of the draft

vars == <<approval, draft, messages>>

Policy == INSTANCE ApprovalPolicy

-----------------------------------------------------------------------------
DraftType(text) ==
    FirstKind(<< <<"travel", Says(text, "tripClaim")>>,
                 <<"expense", Says(text, "expenseClaim")>>,
                 <<"purchase", SaysAny(text, {"buy", "acquire"})>>,
                 <<"leave", Says(text, "leave")>> >>)

\* The word that says all the other mandatory fields of a type are stated.
Details == [purchase |-> "purchaseDetails", travel |-> "travelDetails",
            leave |-> "leaveDetails", expense |-> "expenseDetails"]

\* total: as the user stated it.  it, emergency: TRUE, FALSE or not stated.
NoFields == [quantity |-> None, unit |-> None, total |-> None, category |-> None,
             it |-> None, emergency |-> None, leave |-> None, days |-> None,
             dates |-> None, filled |-> FALSE]

CategoryRead(text) ==
    FirstKind(<< <<"it", Says(text, "it")>>, <<"service", Says(text, "service")>>,
                 <<"goods", Says(text, "goods")>> >>)
ITFlag(text) ==
    FirstKind(<< <<TRUE, Says(text, "it")>>, <<FALSE, Says(text, "noData")>>,
                 <<TRUE, Says(text, "data")>> >>)
EmergencyFlag(text) ==
    FirstKind(<< <<FALSE, SaysAny(text, {"notUrgentPurchase", "plainPurchase"})>>,
                 <<TRUE, Says(text, "urgentPurchase")>> >>)
DatesRead(text) == First(text, {i \in DOMAIN text : text[i].dates # None}).dates
StatedTotal(text) == First(text, {i \in DOMAIN text : TotalRead(text[i])}).total

Filled(type, text) == [NoFields EXCEPT !.filled = Says(text, Details[type])]
Claimed(text, request) == IF request.amount # None THEN request.amount ELSE StatedTotal(text)

PurchaseFields(text) ==
    [Filled("purchase", text) EXCEPT
        !.quantity = First(text, {i \in DOMAIN text : QuantityRead(text[i])}).quantity,
        !.unit = First(text, {i \in DOMAIN text : UnitRead(text[i])}).unit,
        !.total = StatedTotal(text),
        !.category = CategoryRead(text),
        !.it = ITFlag(text),
        !.emergency = EmergencyFlag(text)]
TravelFields(text, request) ==
    [Filled("travel", text) EXCEPT !.total = Claimed(text, request),
                                   !.dates = DatesRead(text)]
LeaveFields(text, request) ==
    [Filled("leave", text) EXCEPT !.leave = LeaveTypeRead(text),
                                  !.days = request.leaveDays,
                                  !.dates = DatesRead(text)]
ExpenseFields(text, request) ==
    [Filled("expense", text) EXCEPT !.total = Claimed(text, request)]

ExtractedFields(type, text, request) ==
    CASE type = "purchase" -> PurchaseFields(text)
      [] type = "travel" -> TravelFields(text, request)
      [] type = "leave" -> LeaveFields(text, request)
      [] type = "expense" -> ExpenseFields(text, request)

Calculated(f) ==
    IF f.quantity # None /\ f.unit # None THEN f.quantity * f.unit ELSE None
TotalOf(f) == IF f.total # None THEN f.total ELSE Calculated(f)

Mandatory(type) ==
    CASE type = "purchase" -> {"quantity", "unit", "category", "it", "emergency"}
      [] type = "travel" -> {"dates"}
      [] type = "leave" -> {"leave", "days", "dates"}
      [] type = "expense" -> {}
MissingFields(type, f) ==
    {name \in Mandatory(type) : f[name] = None}
    \cup {name \in {"total"} : type # "leave" /\ TotalOf(f) = None}
    \cup {name \in {"details"} : ~f.filled}

Issues(type, f, request) ==
    {i \in {"totalMismatch"} : /\ type = "purchase"
                               /\ f.total # None /\ Calculated(f) # None
                               /\ f.total # Calculated(f)}
    \cup {i \in {"approvalMismatch"} : /\ type = "purchase"
                                       /\ request.amount # None /\ TotalOf(f) # None
                                       /\ request.amount # TotalOf(f)}
    \cup {i \in {"dateOrder"} : type \in {"travel", "leave"} /\ f.dates = "reversed"}

-----------------------------------------------------------------------------
MaterialsReady(m) == m.question = None /\ (DOMAIN m.required = {} \/ m.complete = TRUE)

StatusOf(missing, issues, route, materials) ==
    CASE missing # {} \/ issues # {} \/ route.question # None -> "waitingForInformation"
      [] /\ missing = {} /\ issues = {} /\ route.question = None
         /\ ~MaterialsReady(materials) -> "waitingForMaterials"
      [] /\ missing = {} /\ issues = {} /\ route.question = None
         /\ MaterialsReady(materials) -> "waitingForConfirmation"

\* Mutant: nothing is asked when the user has not said which materials are ready.
QuestionWithoutList(missing, issues, route, materials) ==
    FirstKind(<< <<"issues", issues # {}>>,
                 <<"fields", missing # {}>>,
                 <<"approval", route.question # None>>,
                 <<"material", materials.question # None>>,
                 <<"missing", DOMAIN materials.missing # {}>> >>)

\* _build_clarification_question: the first thing that is asked for.
QuestionOf(missing, issues, route, materials) ==
    FirstKind(<< <<"issues", issues # {}>>,
                 <<"fields", missing # {}>>,
                 <<"approval", route.question # None>>,
                 <<"material", materials.question # None>>,
                 <<"missing", DOMAIN materials.missing # {}>>,
                 <<"list", DOMAIN materials.required # {} /\ materials.complete # TRUE>> >>)

\* _build_draft: what the draft says of the fields and of the two answers.
Assembled(type, fields, approved, materials, revision) ==
    LET missing == MissingFields(type, fields)
        issues == Issues(type, fields, approved.request)
        route == approved.decision
    IN  [type |-> type, fields |-> fields, missing |-> missing, issues |-> issues,
         approval |-> approved, materials |-> materials,
         status |-> StatusOf(missing, issues, route, materials),
         ready |-> /\ missing = {} /\ issues = {} /\ route.question = None
                   /\ MaterialsReady(materials),
         question |-> QuestionOf(missing, issues, route, materials),
         revision |-> revision]

DraftedAs(type, text, approved, materials, revision) ==
    IF type = None THEN None
    ELSE Assembled(type, ExtractedFields(type, text, approved.request),
                   approved, materials, revision)

\* generate: both checkers and the extractor read the same text.
Drafted(text, revision) ==
    DraftedAs(DraftType(text), text, CheckApproval(text), CheckMaterials(text), revision)

-----------------------------------------------------------------------------
Cue == [purchase |-> {"buy"}, travel |-> {"tripClaim"}, leave |-> {"leave"},
        expense |-> {"expenseClaim"}]

\* The quantity the amendment states as a change, where the draft has an item.
Override(d, m) ==
    IF d.type = "purchase" /\ m.changes /\ d.fields.quantity # None
    THEN m.quantity ELSE None

\* The amendment alone, behind the cue of the draft and the item it is about.
Probe(d, m) ==
    LET shown == IF Override(d, m) # None THEN Override(d, m) ELSE d.fields.quantity
        own == IF m.changes THEN None ELSE m.quantity
    IN  [m EXCEPT !.says = @ \cup Words(Cue[d.type]),
                  !.changes = FALSE,
                  !.quantity = IF d.type = "purchase" /\ shown # None THEN shown ELSE own]

\* A field the probe shows replaces that of the draft.  A total the probe only
\* calculates leaves no stated total.
Merged(d, override, read) ==
    LET shown == [name \in DOMAIN NoFields |->
                     IF read[name] # None THEN read[name] ELSE d.fields[name]]
    IN  [shown EXCEPT
            !.filled = read.filled \/ d.fields.filled,
            !.quantity = IF override # None THEN override ELSE @,
            !.total = IF read.total = None /\ Calculated(read) # None THEN None ELSE @]

\* An amendment may ask for something of another type: only the fields that both types
\* have, under one name, are then read from it.
NamedFields(type) == Mandatory(type) \cup {name \in {"emergency"} : type = "leave"}
FieldsRead(d, text) ==
    LET read == Drafted(text, 0)
        shared == NamedFields(read.type) \cap NamedFields(d.type)
    IN  IF read.type = d.type THEN read.fields
        ELSE [name \in DOMAIN NoFields |->
                 IF name \in shared THEN read.fields[name] ELSE NoFields[name]]

MergedFields(d, m) == Merged(d, Override(d, m), FieldsRead(d, <<Probe(d, m)>>))

\* _render_revision_request: the fields as the text a user could have written.
RenderedWords(type, f) ==
    LET Given(condition, words) == IF condition THEN words ELSE {}
    IN  CASE type = "purchase" ->
               Given(f.category = "it", {"it", "goods"})
               \cup Given(f.category = "service", {"service"})
               \cup Given(f.it # None, {"it"})
               \cup Given(f.it = TRUE, {"data"})
               \cup Given(f.it = FALSE, {"noData"})
               \cup Given(f.emergency = TRUE, {"urgentPurchase"})
               \cup Given(f.emergency = FALSE, {"plainPurchase"})
          [] type = "leave" -> Given(f.emergency = TRUE \/ (f.filled /\ f.emergency = None), {"urgent"})
          [] type = "expense" -> Given(f.filled, {"buy"})
          [] type = "travel" -> {}

Rendered(type, f) ==
    LET thousands == {n \in {"unit", "total"} : f[n] # None /\ f[n] >= 1000}
    IN  [NoMessage EXCEPT
            !.says = Words(Cue[type] \cup RenderedWords(type, f))
                     \cup {w \in {Details[type]} : f.filled},
            !.quantity = f.quantity, !.unit = f.unit, !.total = f.total,
            !.grouped = thousands,
            !.leave = {f.leave} \ {None},
            !.days = IF f.leave # None THEN f.days ELSE None,
            !.dates = f.dates]

\* Mutant: the merged fields come after the messages they were merged from.
RevisionTextLast(d, m) == Append(messages, m) \o <<Rendered(d.type, MergedFields(d, m))>>

RevisionText(d, m) == <<Rendered(d.type, MergedFields(d, m))>> \o Append(messages, m)

-----------------------------------------------------------------------------
Init ==
    /\ approval = None
    /\ draft = None
    /\ messages = <<>>

Ask(m) ==
    /\ draft = None /\ approval = None
    /\ approval' = CheckApproval(<<m>>)
    /\ UNCHANGED <<draft, messages>>

Generate(m) ==
    /\ draft = None /\ approval = None
    /\ draft' = Drafted(<<m>>, 1)
    /\ IF draft' = None THEN UNCHANGED <<approval, messages>>
       ELSE approval' = draft'.approval /\ messages' = <<m>>

Revise(m) ==
    /\ draft # None
    /\ draft.revision <= MaxRevisions
    /\ draft' = Drafted(RevisionText(draft, m), draft.revision + 1)
    /\ approval' = draft'.approval
    /\ messages' = Append(messages, m)

Next ==
    \/ \E m \in Questions : Ask(m)
    \/ \E m \in Requests : Generate(m)
    \/ \E m \in Amendments : Revise(m)

Spec == Init /\ [][Next]_vars

-----------------------------------------------------------------------------
\* Whatever was asked, with every number on either side of every threshold, the
\* answer names exactly the approvers the policy documents require, once each
\* and in their order, and cites the article that decides.
\* (ApprovalRuleChecker against data/policies.)
RouteFollowsPolicy ==
    approval # None /\ approval.decision.question = None =>
        LET steps == approval.decision.steps
        IN  /\ Policy!Follows(approval.request, [i \in DOMAIN steps |-> steps[i].approver])
            /\ Policy!TierOf(approval.request).article \in approval.decision.articles

\* Status, readiness and the question to the user are three computations over the
\* same answers: a draft that waits for confirmation is ready, asks for nothing,
\* has no contradiction, and has every required material in the required number.
\* A purchase that waits has its route computed for the total it shows, although the
\* checker reads the amount from a text that also holds all the earlier amounts.
ReadyIsComplete ==
    draft # None =>
        /\ draft.ready <=> draft.status = "waitingForConfirmation"
        /\ draft.ready <=> draft.question = None
        /\ draft.ready =>
              \A m \in DOMAIN draft.materials.required :
                 /\ m \in DOMAIN draft.materials.provided
                 /\ draft.materials.provided[m] >= draft.materials.required[m]
        /\ draft.ready /\ draft.type = "purchase" /\ approval.request.type = "purchase"
              => approval.request.amount = TotalOf(draft.fields)

\* A number that an amendment changes is the number the purchase then has,
\* whatever the request and the earlier amendments said.
LastChangeWins ==
    [][LET m == Last(messages')
       IN  draft # None /\ draft.type = "purchase" /\ draft'.type = "purchase"
             /\ messages' # messages /\ m.changes
           => /\ m.quantity # None /\ draft.fields.quantity # None
                   => draft'.fields.quantity = m.quantity
              /\ m.unit # None => draft'.fields.unit = m.unit
              /\ m.total # None => draft'.fields.total = m.total]_vars

\* A purchase above 50,000 that waits for confirmation was asked for at least
\* three quotations and a comparison record.  (procurement policy, article 18.)
ReadyHasItsQuotations ==
    draft # None /\ draft.ready /\ draft.type = "purchase"
        /\ TotalOf(draft.fields) > 50000 /\ TotalOf(draft.fields) <= 200000
        => /\ {"quotation", "comparisonRecord"} \subseteq DOMAIN draft.materials.provided
           /\ draft.materials.provided["quotation"] >= 3
===============================================================================
