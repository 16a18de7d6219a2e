---------------------------- MODULE AgentSessionsMC ----------------------------
(* Five things one process does for the sessions of the agent, one of them in   *)
(* each behaviour: the turns of a session with its workflow; the stores they    *)
(* rely on - messages, checkpoints and receipts - in more detail than the       *)
(* workflow shows them; and the calls of the model with their cache.            *)
EXTENDS ApprovalWorkflow, ConversationMemory, CheckpointSaver, LocalSubmission, LLMCache, TLC

VARIABLE part

Parts == {"turns", "messages", "checkpoints", "submissions", "chats"}

sessionVars == <<part, vars, memoryVars, saverVars, localSubmissionVars, cacheVars>>

-----------------------------------------------------------------------------
TestUtterances ==
    {[pieces |-> <<"word">>, cues |-> {"command"}],
     [pieces |-> <<"word", "secret", "secret">>, cues |-> {"refers"}],
     [pieces |-> <<"word", "secret", "secret", "word">>, cues |-> {"asks", "topic"}]}
TestReplies == {<<"word", "secret", "secret", "secret", "word", "word">>}

\* Every node writes the number of its turn.
TestNodeWrites == {{"turn"}, {"draft", "turn"}}

Sound == [id |-> 1, applicant |-> "a", creator |-> "a", session |-> "s", status |-> "confirmed",
          confirmed |-> TRUE, submitted |-> FALSE, defects |-> {}]
TestDrafts ==
    {Sound, [Sound EXCEPT !.id = 2], [Sound EXCEPT !.status = "submitted", !.submitted = TRUE],
     [Sound EXCEPT !.defects = {"missing_materials"}], [Sound EXCEPT !.session = "t"]}
TestCalls ==
    {[command |-> c, caller |-> "a", session |-> "s", key |-> k, draft |-> d] :
        c \in {"submit", "confirm"}, k \in {"k1", "k2"}, d \in TestDrafts}

\* Requests, callers, runs and keys may be swapped, and the chats permuted.
AnyOrder == Permutations(Requests) \cup Permutations(Chats)

-----------------------------------------------------------------------------
\* A thread whose turns so far have left it with draft d; they leave room for
\* MaxArrivals - 1 more.
SeededInit(d, turns, submitted) ==
    /\ turn = [r \in Requests |-> IdleTurn]
    /\ lock = 0
    /\ threads = {}
    /\ checkpoint = [turn |-> turns, phase |-> d.status, draft |-> d, gate |-> FALSE]
    /\ head = HeadOf(checkpoint)
    /\ snapshots = {d}
    /\ receipts = submitted
    /\ approved = {ReceiptOf(d)}
    /\ arrivals = 1

\* Generated and confirmed; perhaps submitted too, by a transaction whose turn had
\* stopped waiting for it.
ConfirmedInit ==
    \E t \in Complete :
        LET d == [FirstDraft(t) EXCEPT !.status = "confirmed"]
        IN SeededInit(d, 2, {}) \/ SeededInit(d, 3, {ReceiptOf(d)})

SessionsInit ==
    /\ part \in Parts
    /\ Init \/ (part = "turns" /\ ConfirmedInit)
    /\ MemoryInit
    /\ part # "messages" => backend = "sqlite"
    /\ SaverInit
    /\ LocalSubmissionInit
    /\ CacheInit

SessionsNext ==
    /\ UNCHANGED part
    /\ \/ /\ part = "turns"
          /\ Next
          /\ UNCHANGED <<memoryVars, saverVars, localSubmissionVars, cacheVars>>
       \/ /\ part = "messages"
          /\ MemoryNext
          /\ UNCHANGED <<vars, saverVars, localSubmissionVars, cacheVars>>
       \/ /\ part = "checkpoints"
          /\ SaverNext
          /\ UNCHANGED <<vars, memoryVars, localSubmissionVars, cacheVars>>
       \/ /\ part = "submissions"
          /\ LocalSubmissionNext
          /\ UNCHANGED <<vars, memoryVars, saverVars, cacheVars>>
       \/ /\ part = "chats"
          /\ CacheNext
          /\ UNCHANGED <<vars, memoryVars, saverVars, localSubmissionVars>>

SessionsSpec == SessionsInit /\ [][SessionsNext]_sessionVars
================================================================================
