----------------------------- MODULE AgentRequests -----------------------------
(***************************************************************************)
(* What a running application is asked: a message to the agent, which the    *)
(* prompt guard and the intent classifier let through to one of the tools,   *)
(* or a question to the research assistant, which uses the same policy       *)
(* answer.  The drafts of DraftRules and the answers of PolicyAnswers are    *)
(* made in one application.                                                  *)
(***************************************************************************)
EXTENDS DraftRules, PolicyAnswers

CONSTANTS
    Messages(_),      \* what the users of an application with a given directory write
    ResearchQuestions(_),   \* what they ask the research assistant
    Replies(_),       \* what the classifying model may make of a message
    MinIntentConfidence

ASSUME RequestAssumption ==
    \A directory \in {Absent} \cup {d.files : d \in Deployments} :
        /\ \A m \in Messages(directory) : IsMessage(m.text) /\ IsFiniteSet(m.query.terms)
        /\ \A query \in ResearchQuestions(directory) : IsFiniteSet(query.terms)

VARIABLES
    message,    \* the message to the agent that is being worked on
    intent,     \* what it was classified as
    materials   \* the last answer of the material checker

requestVars == <<answerVars, vars, message, intent, materials>>

\* text: what the application tools see of a message; query: what the policy search
\* sees of it.
Intents == {"policyQuery", "materialCheck", "approvalQuery", "draftGeneration", "unknown"}

\* A reply that is not one JSON object (in a fence or not), names an intent only the
\* session decides on, or is unsure of it, is no classification.
Classified(reply) ==
    IF \/ reply.form = "other"
       \/ reply.intent \notin Intents
       \/ reply.confidence < MinIntentConfidence
    THEN "unknown" ELSE reply.intent

RequestInit ==
    /\ Init
    /\ AnswerInit
    /\ message = None
    /\ intent = None
    /\ materials = None

\* One message, or one question, is put to an application.
Free == corpus # Absent /\ message = None /\ InPhase("idle")

\* The guard of the router; no tool, and no model, sees a message it refuses.
Receive(m) ==
    /\ Free
    /\ ~m.query.instructs
    /\ message' = m
    /\ UNCHANGED <<answerVars, vars, intent, materials>>

Classify(reply) ==
    /\ message # None /\ intent = None
    /\ intent' = Classified(reply)
    /\ UNCHANGED <<answerVars, vars, message, materials>>

\* The classifier is a tool like the others: when it fails nothing else runs.
ClassifierFails ==
    /\ message # None /\ intent = None
    /\ intent' = "unavailable"
    /\ UNCHANGED <<answerVars, vars, message, materials>>

AskApproval ==
    /\ intent = "approvalQuery"
    /\ Ask(message.text)
    /\ UNCHANGED <<answerVars, message, intent, materials>>

AskMaterials ==
    /\ intent = "materialCheck"
    /\ materials = None
    /\ materials' = CheckMaterials(<<message.text>>)
    /\ UNCHANGED <<answerVars, vars, message, intent>>

GenerateDraft ==
    /\ intent = "draftGeneration"
    /\ Generate(message.text)
    /\ UNCHANGED <<answerVars, message, intent, materials>>

\* The turns of a session with a draft are not classified.
UpdateDraft ==
    /\ \E m \in Amendments : Revise(m)
    /\ UNCHANGED <<answerVars, message, intent, materials>>

AnswerPolicy(who) ==
    /\ intent = "policyQuery"
    /\ AskPolicy(who, message.query, "agent")
    /\ UNCHANGED <<vars, message, intent, materials>>

\* An answer that found nothing is an answer of the agent.
PolicyAnswered ==
    /\ InPhase("replied")
    /\ request.by = "agent"
    /\ request' = [request EXCEPT !.phase = "done",
                       !.status = IF request.policy = "failed" THEN "unavailable"
                                                               ELSE "completed"]
    /\ UNCHANGED <<files, ocr, corpus, rows, today, vars, message, intent, materials>>

\* The research endpoint is not classified either.
Research(who, query) ==
    /\ Free
    /\ AskPolicy(who, query, "research")
    /\ UNCHANGED <<vars, message, intent, materials>>

Answering == AnswerNext /\ UNCHANGED <<vars, message, intent, materials>>

RequestNext ==
    \/ Answering
    \/ Free /\ \E m \in Messages(files) : Receive(m)
    \/ message # None /\ \E reply \in Replies(message) : Classify(reply)
    \/ ClassifierFails
    \/ AskApproval
    \/ AskMaterials
    \/ GenerateDraft
    \/ UpdateDraft
    \/ PolicyAnswered
    \/ \E who \in Askers :
          \/ AnswerPolicy(who)
          \/ Free /\ \E query \in ResearchQuestions(files) : Research(who, query)

RequestSpec == RequestInit /\ [][RequestNext]_requestVars
================================================================================
