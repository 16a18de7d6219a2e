--------------------------- MODULE ConversationMemory ---------------------------
(***************************************************************************)
(* What the agent remembers of one session in its own process or its       *)
(* SQLite file: turns are appended when their reply is known, the newest   *)
(* are kept, and a request that leaves something out reads them.  Requests *)
(* overlap here: a cancelled one leaves its database thread behind, and    *)
(* clear_session forgets the lock of the session.                          *)
(***************************************************************************)
EXTENDS Integers, Sequences, SequencesExt, FiniteSetsExt

CONSTANTS
    Callers,         \* callers of the workflow on the session
    Utterances,           \* what users write
    Replies,         \* what the agent answers, as pieces
    MaxStoredTurns,  \* max_stored_turns
    MessageLimit,    \* messages a request may read
    PieceLimit,      \* pieces of history a request may read (character_limit)
    MaxContent,      \* pieces of one stored message (MAX_MEMORY_CONTENT_CHARACTERS)
    MaxRequest,      \* a longer request stands alone
    MaxTurns         \* bound: turns in one behaviour

\* What is said is a sequence of pieces; a piece is secret as part of a credential, and
\* a pattern recognises a credential of at least two pieces.
ASSUME MemoryAssumption ==
    /\ \A said \in {text.pieces : text \in Utterances} \cup Replies :
          /\ Len(said) \in Nat
          /\ DOMAIN said = 1..Len(said)
          /\ \A i \in DOMAIN said : said[i] = "secret" =>
                \E j \in {i - 1, i + 1} \cap DOMAIN said : said[j] = "secret"
    /\ MaxStoredTurns \in Nat \ {0} /\ MessageLimit \in Nat \ {0}
    /\ PieceLimit \in Nat \ {0} /\ MaxContent \in Nat \ {0}
    /\ MaxRequest \in Nat /\ MaxTurns \in Nat

VARIABLES
    backend,   \* "in_memory" or "sqlite"
    messages,  \* the stored messages, oldest first
    client,    \* what each caller is doing
    told       \* history: the turns appended since the memory was last empty

memoryVars == <<backend, messages, client, told>>

-----------------------------------------------------------------------------
(* Content: words, and the pieces of credentials.                            *)

Redacted == "[REDACTED]"
Ellipsis == "[cut]"

\* Each run of two or more pieces of a credential becomes one mark.
Redact(pieces) ==
    LET Secret(i) == i \in DOMAIN pieces /\ pieces[i] = "secret"
        InRun(i) == Secret(i) /\ (Secret(i - 1) \/ Secret(i + 1))
        kept == {i \in DOMAIN pieces : ~(Secret(i - 1) /\ Secret(i))}
        Place(k) == CHOOSE i \in kept : Cardinality({j \in kept : j <= i}) = k
    IN  [k \in 1..Cardinality(kept) |-> IF InRun(Place(k)) THEN Redacted ELSE pieces[Place(k)]]

Truncate(pieces) ==
    IF Len(pieces) > MaxContent THEN Append(SubSeq(pieces, 1, MaxContent - 1), Ellipsis)
    ELSE pieces

\* Mutant: long messages are cut first.
SanitizedLate(pieces) == Redact(Truncate(pieces))

Sanitized(pieces) == Truncate(Redact(pieces))

-----------------------------------------------------------------------------
(* Context                                                                   *)

\* A text has pieces and cues: "command", "refers" (a prefix or marker of a follow-up),
\* "asks" (a question that needs a subject) and "topic" (which names one).
RequiresContext(text) ==
    /\ "command" \notin text.cues
    /\ Len(text.pieces) <= MaxRequest
    /\ \/ "refers" \in text.cues
       \/ "asks" \in text.cues /\ "topic" \notin text.cues

Least(a, b) == IF a < b THEN a ELSE b

\* The pieces of a list of messages, and how many there are behind a message.
PiecesOf(list) == UNION {{i} \X DOMAIN list[i].content : i \in DOMAIN list}
PiecesAfter(list, i) == Cardinality({p \in PiecesOf(list) : p[1] > i})

\* The newest messages, as far as the later ones leave something of the budget; the
\* oldest of them may be cut.
Selected(history, limit, budget) ==
    LET Rest(i) == budget - PiecesAfter(history, i)
        read == {i \in DOMAIN history : i > Len(history) - limit /\ Rest(i) > 0}
        skipped == Len(history) - Cardinality(read)
    IN  [k \in 1..Cardinality(read) |->
            LET message == history[skipped + k]
            IN  [message EXCEPT !.content = SubSeq(@, 1, Least(Rest(skipped + k), Len(@)))]]

\* The gate passes a confirmation on as it is.
Contextualized(text, history, waiting) ==
    IF waiting \/ ~RequiresContext(text) THEN <<>>
    ELSE Selected(history, MessageLimit, PieceLimit)

-----------------------------------------------------------------------------
Message(number, role, content) == [number |-> number, role |-> role, content |-> content]

NextNumber == IF messages = <<>> THEN 1 ELSE Last(messages).number + 1

\* A list is cut to its last messages; of a table, which is read in the order of the
\* turns, the rows of old turns are deleted.
Trimmed(list, number) ==
    LET kept == IF backend = "sqlite"
                THEN Cardinality({i \in DOMAIN list : list[i].number >= number + 1 - MaxStoredTurns})
                ELSE Least(2 * MaxStoredTurns, Len(list))
    IN  SubSeq(list, Len(list) - kept + 1, Len(list))

Idle == [at |-> "idle"]

MemoryInit ==
    /\ backend \in {"in_memory", "sqlite"}
    /\ messages = <<>>
    /\ client = [c \in Callers |-> Idle]
    /\ told = <<>>

\* run: the snapshot is taken before the graph runs.
Read(c, text, waiting) ==
    /\ client[c] = Idle
    /\ Len(told) < MaxTurns
    /\ client' = [client EXCEPT ![c] =
           [at |-> "answering", text |-> text, waiting |-> waiting, read |-> messages,
            context |-> Contextualized(text, messages, waiting)]]
    /\ UNCHANGED <<backend, messages, told>>

\* _record_memory; also the thread of a caller that was cancelled meanwhile.
AppendTurn(c, reply) ==
    LET turn == [number |-> NextNumber, user |-> client[c].text.pieces, assistant |-> reply]
    IN  /\ client[c].at = "answering"
        /\ Len(told) < MaxTurns
        /\ messages' = Trimmed(messages
               \o <<Message(NextNumber, "user", Sanitized(client[c].text.pieces)),
                    Message(NextNumber, "assistant", Sanitized(reply))>>, NextNumber)
        /\ told' = Append(told, turn)
        /\ client' = [client EXCEPT ![c] = Idle]
        /\ UNCHANGED backend

\* The graph or a store raised: nothing is appended.
Abandon(c) ==
    /\ client[c].at = "answering"
    /\ client' = [client EXCEPT ![c] = Idle]
    /\ UNCHANGED <<backend, messages, told>>

Clear(c) ==
    /\ client[c] = Idle
    /\ messages # <<>>
    /\ messages' = <<>>
    /\ told' = <<>>
    /\ UNCHANGED <<backend, client>>

\* A table is read again; what was in memory only is gone.
Restart ==
    /\ client' = [c \in Callers |-> Idle]
    /\ messages' = IF backend = "sqlite" THEN messages ELSE <<>>
    /\ told' = IF backend = "sqlite" THEN told ELSE <<>>
    /\ UNCHANGED backend

MemoryNext ==
    \/ \E c \in Callers :
          \/ \E text \in Utterances, waiting \in BOOLEAN : Read(c, text, waiting)
          \/ \E reply \in Replies : AppendTurn(c, reply)
          \/ Abandon(c)
          \/ Clear(c)
    \/ Restart

MemorySpec == MemoryInit /\ [][MemoryNext]_memoryVars

-----------------------------------------------------------------------------
(* Properties                                                                *)

\* Whatever the backend and whoever overlaps: what is stored is the newest turns, whole,
\* in order and numbered without a gap (append_turn of both stores).
RemembersNewestTurns ==
    LET kept == Least(MaxStoredTurns, Len(told))
        first == Len(told) - kept
    IN  /\ Len(messages) = 2 * kept
        /\ \A i \in 1..kept :
              LET user == messages[2 * i - 1]
                  assistant == messages[2 * i]
                  turn == told[first + i]
              IN  /\ user = Message(first + i, "user", Sanitized(turn.user))
                  /\ assistant = Message(first + i, "assistant", Sanitized(turn.assistant))

\* What a tool reads of the past holds no piece of a credential, however messages and
\* history were cut; it is the end of what was stored, whole but for its oldest message,
\* as long as the limits allow; a command, a complete question and an answer to the
\* confirmation gate come with nothing (sanitize_memory_content, build, run).
HistoryIsRecentAndClean ==
    \A c \in {d \in Callers : client[d].at = "answering"} :
        LET context == client[c].context
            past == client[c].read
            skipped == Len(past) - Len(context)
        IN  /\ context # <<>> => RequiresContext(client[c].text) /\ ~client[c].waiting
            /\ \A m \in ToSet(context) : "secret" \notin ToSet(m.content)
            /\ Len(context) <= MessageLimit
            /\ PiecesAfter(context, 0) <= PieceLimit
            /\ \A i \in 2..Len(context) : context[i] = past[skipped + i]
            /\ context # <<>> =>
                  /\ IsPrefix(context[1].content, past[skipped + 1].content)
                  /\ \/ PiecesAfter(context, 0) = PieceLimit
                     \/ /\ context[1] = past[skipped + 1]
                        /\ skipped = 0 \/ Len(context) = MessageLimit

\* What is kept of a conversation and what is told of it agree with what was said.
MemoryIsFaithful == RemembersNewestTurns /\ HistoryIsRecentAndClean
=================================================================================
