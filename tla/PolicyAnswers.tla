----------------------------- MODULE PolicyAnswers -----------------------------
(***************************************************************************)
(* A question to the policy answer service of a running application, from    *)
(* the agent or from the research assistant: the guard, the search within    *)
(* what the asker may see today, the evidence that is put into the prompt,   *)
(* the model's reply and the test of what it cites, the repeated attempt,    *)
(* and the web search that may follow.                                       *)
(*                                                                           *)
(* The question is searched and prompted in one go; the model's reply, the   *)
(* next day and another process that rewrites the shared vector table come   *)
(* in between.                                                               *)
(***************************************************************************)
EXTENDS PolicySearch

CONSTANTS
    Deployments,    \* policy directories, each with or without an engine for scans
    Askers,         \* identities the server trusts
    Payloads,       \* answers of the web search, Absent: it failed
    Relevances,     \* judgements of the reranking model, Absent: there is none
    MaxContext,     \* chunks in a prompt
    MaxSources,     \* external sources of an answer
    MaxAttempts,    \* of one tool call
    LastDay

VARIABLES
    files,      \* the directory the application was started with
    ocr,        \* whether it has an engine that recognises scans
    corpus,     \* its chunks, Absent when they were refused
    rows,       \* the vector table: the lines each id was embedded from
    today,
    request     \* the question being answered

answerVars == <<files, ocr, corpus, rows, today, request>>

NoRequest == [phase |-> "idle", by |-> Absent, who |-> Absent, query |-> Absent, attempts |-> 0, day |-> 0,
              vector |-> <<>>, fused |-> <<>>, found |-> <<>>, context |-> <<>>, cited |-> {},
              markers |-> {}, policy |-> Absent, sources |-> <<>>, status |-> Absent]

AnswerInit ==
    /\ files = Absent
    /\ ocr = FALSE
    /\ corpus = Absent
    /\ rows = <<>>
    /\ today = 1
    /\ request = NoRequest

Ids(chunks) == {chunks[c].id : c \in DOMAIN chunks}

\* What a search relies on: a directory that is not refused is cut into a sequence of
\* chunks of finitely many lines, no more than there are logarithms for; a judgement
\* of the reranking model is one of every chunk.
ASSUME AnswerAssumption ==
    /\ {RerankK, TopK, MaxContext} \subseteq Nat
    /\ RerankK <= 900
    /\ \A n \in DOMAIN Ln : Ln[n] \in Int
    /\ Absent # "completed"
    /\ \A d \in Deployments :
          LET chunks == ChunkDirectory(d.files, d.ocr)
          IN  /\ d.files # Absent
              /\ chunks # Absent =>
                    /\ Len(chunks) \in Nat
                    /\ DOMAIN chunks = 1..Len(chunks)
                    /\ 1..(2 * Len(chunks) + 2) \subseteq DOMAIN Ln
                    /\ \A c \in DOMAIN chunks :
                          /\ chunks[c].id \in Int \X Int
                          /\ Len(chunks[c].lines) \in Nat
                          /\ DOMAIN chunks[c].lines = 1..Len(chunks[c].lines)
                          /\ \A relevance \in Relevances \ {Absent} : relevance[chunks[c].id] \in Int

ChunkOf(id) == CHOOSE c \in Range(corpus) : c.id = id

\* The synchronisation has put the corpus into the table before anyone asks.
Start(directory, engine) ==
    LET chunks == ChunkDirectory(directory, engine)
    IN  /\ files = Absent
        /\ files' = directory
        /\ ocr' = engine
        /\ corpus' = chunks
        /\ rows' = IF chunks = Absent THEN <<>> ELSE TextsOf(chunks, Ids(chunks))
        /\ UNCHANGED <<today, request>>

\* Nothing reads the day or the table before a search and after the last one.
Searching == request.phase \in {"asked", "prompted"}

\* A process of another version deletes an article, or embeds another text under
\* its id, which counts the articles of a document.  One change at most.
OtherProcessWrites ==
    /\ Searching
    /\ rows = TextsOf(corpus, Ids(corpus))
    /\ \E id \in DOMAIN rows :
          \/ rows' = [other \in DOMAIN rows \ {id} |-> rows[other]]
          \/ \E other \in DOMAIN rows \ {id} : rows' = [rows EXCEPT ![id] = rows[other]]
    /\ UNCHANGED <<files, ocr, corpus, today, request>>

NextDay ==
    /\ Searching
    /\ today < LastDay
    /\ today' = today + 1
    /\ UNCHANGED <<files, ocr, corpus, rows, request>>

-----------------------------------------------------------------------------
(* The policy answer                                                        *)

InPhase(phase) == request.phase = phase

\* A question that tries to instruct the model is turned away before anything runs.
AskPolicy(who, query, by) ==
    /\ corpus # Absent
    /\ InPhase("idle")
    /\ request' = [NoRequest EXCEPT !.phase = IF query.instructs THEN "rejected" ELSE "asked",
                                    !.by = by, !.who = who, !.query = query,
                                    !.attempts = 1]
    /\ UNCHANGED <<files, ocr, corpus, rows, today>>

Instructs(chunk) == \E i \in DOMAIN chunk.lines : chunk.lines[i].instructs

\* Mutant: evidence is numbered before the quarantine.
ContextNumberedEarly(found) ==
    Cut(SelectSeq([i \in DOMAIN found |-> [source |-> i, id |-> found[i]]],
                  LAMBDA e : ~Instructs(ChunkOf(e.id))), MaxContext)

\* Chunks that give instructions are quarantined; the others are numbered.
Context(found) ==
    LET harmless == {i \in DOMAIN found : ~Instructs(ChunkOf(found[i]))}
        order == InOrder(harmless, {p \in harmless \X harmless : p[1] < p[2]})
        kept == Cut([i \in DOMAIN order |-> found[order[i]]], MaxContext)
    IN  [i \in DOMAIN kept |-> [source |-> i, id |-> kept[i]]]

\* Without a reranking model the search asks for no more than it returns.
Found(fused, relevance) ==
    IF relevance = Absent THEN Cut(fused, TopK) ELSE Reranked(Cut(fused, RerankK), relevance)

\* An answer that needs no model: nothing was found that may be shown.
Prompted(searched, context) ==
    IF context = <<>>
    THEN [searched EXCEPT !.phase = "replied", !.policy = "noEvidence"]
    ELSE [searched EXCEPT !.phase = "prompted", !.context = context]

SearchPolicy(scope) ==
    /\ InPhase("asked")
    /\ Searchable(request.query)
    /\ \E vector \in VectorRankings(rows, request.query, scope), relevance \in Relevances :
          LET fused == Fused(vector, KeywordRanking(corpus, request.query, scope))
              found == Found(fused, relevance)
          IN  request' = Prompted([request EXCEPT !.vector = vector, !.fused = fused,
                                                  !.found = found, !.day = today,
                                                  !.context = <<>>],
                                  Context(found))
    /\ UNCHANGED <<files, ocr, corpus, rows, today>>

\* What the asker may see is computed anew for every search.
Search == InPhase("asked") /\ SearchPolicy(Authorized(corpus, request.who, today))

Failed == [request EXCEPT !.phase = "replied", !.policy = "failed"]

\* Too many terms: an error no attempt is repeated for.
SearchRefused ==
    /\ InPhase("asked")
    /\ ~Searchable(request.query)
    /\ request' = Failed
    /\ UNCHANGED <<files, ocr, corpus, rows, today>>

\* A timeout or a transient error of the embedding, the table or the model: the
\* whole call is repeated, the search with it.  Other errors are final.
AttemptFails ==
    /\ Searching
    /\ \/ /\ request.attempts < MaxAttempts
          /\ request' = [request EXCEPT !.phase = "asked", !.attempts = @ + 1]
       \/ request' = Failed
    /\ UNCHANGED <<files, ocr, corpus, rows, today>>

Sources(context) == {context[i].source : i \in DOMAIN context}

\* An answer cites at least one source, and only sources of the prompt.
Cites(markers, context) == markers # {} /\ markers \subseteq Sources(context)

\* markers: the source numbers in the reply; none also stands for a blank reply.
Reply(markers) ==
    /\ InPhase("prompted")
    /\ request' =
          IF Cites(markers, request.context)
          THEN [request EXCEPT !.phase = "replied", !.policy = "answered",
                               !.markers = markers,
                               !.cited = {e \in Range(request.context) : e.source \in markers}]
          ELSE Failed
    /\ UNCHANGED <<files, ocr, corpus, rows, today>>

-----------------------------------------------------------------------------
(* The web search and the research answer                                   *)

\* One source per URL, up to the limit.
ExternalSources(payload) ==
    Cut(FoldLeft(LAMBDA seen, url : IF url \in Range(seen) THEN seen ELSE Append(seen, url),
                 <<>>, payload), MaxSources)

StatusFor(policy, web, sources) ==
    IF policy = "answered" /\ web \in {"notRequested", "completed"} THEN "completed"
    ELSE IF policy # "failed" \/ sources # <<>> THEN "partial" ELSE "unavailable"

Concluded(web, sources) ==
    request' = [request EXCEPT !.phase = "done", !.sources = sources,
                               !.status = StatusFor(request.policy, web, sources)]

AnswerWithoutWeb ==
    /\ InPhase("replied")
    /\ request.by = "research"
    /\ ~request.query.web
    /\ Concluded("notRequested", <<>>)
    /\ UNCHANGED <<files, ocr, corpus, rows, today>>

\* payload: the URLs found; a disabled provider and a failed search give none.
SearchWeb(payload) ==
    /\ InPhase("replied")
    /\ request.by = "research"
    /\ request.query.web
    /\ LET sources == IF payload = Absent THEN <<>> ELSE ExternalSources(payload)
       IN  Concluded(IF sources = <<>> THEN "none" ELSE "completed", sources)
    /\ UNCHANGED <<files, ocr, corpus, rows, today>>

AnswerNext ==
    \/ files = Absent /\ \E d \in Deployments : Start(d.files, d.ocr)
    \/ OtherProcessWrites
    \/ NextDay
    \/ Search
    \/ SearchRefused
    \/ AttemptFails
    \/ \E markers \in SUBSET (1..(MaxContext + 1)) : Reply(markers)
    \/ AnswerWithoutWeb
    \/ \E payload \in Payloads : SearchWeb(payload)

-----------------------------------------------------------------------------
(* Properties                                                               *)

\* Whatever the pages or blocks of a policy file look like and whichever of them had
\* to be recognised, its chunks are its articles, each with the range of pages or
\* blocks it was written on, the recognised ones among them, and their confidence.
\* (document_loader, policy_parser, policy_chunker.)
ChunksAreArticles ==
    corpus # Absent =>
        \A f \in DOMAIN files :
            AreItsArticles(SelectSeq(corpus, LAMBDA c : c.id[1] = files[f].document), files[f], ocr)

\* What the search fuses could have been fused from the chunks the asker may see alone.
FusedFromVisible ==
    LET visible == [c \in {d \in DOMAIN corpus : MaySee(request.who, corpus[d].meta, today)}
                       |-> corpus[c]]
        ids == Ids(visible)
        seen == [id \in DOMAIN rows \cap ids |-> rows[id]]
    IN  \E vector \in VectorRankings(seen, request.query, ids) :
           request'.fused = Fused(vector, KeywordRanking(visible, request.query, ids))

\* A search finds what it would find if nothing but the chunks its asker may see on
\* that day existed: neither another's chunk nor its number, length or terms shows.
\* (authorized_chunk_ids, allowed_record_ids.)
RestrictionIsInvisible ==
    [][request.phase = "asked" /\ request'.phase # "asked" /\ request'.policy # "failed" =>
          FusedFromVisible]_answerVars

Position(ranking, id) ==
    IF \E i \in DOMAIN ranking : ranking[i] = id
    THEN CHOOSE i \in DOMAIN ranking : ranking[i] = id ELSE Len(ranking) + 1

\* A chunk that no channel of a search puts below another and one puts above it is
\* fused before the other.  (reciprocal_rank_fusion.)
FusionIsFair ==
    request.day > 0 =>
        LET scope == Authorized(corpus, request.who, request.day)
            keyword == KeywordRanking(corpus, request.query, scope)
        IN  \A a \in scope : \A b \in scope :
               /\ Position(request.vector, a) <= Position(request.vector, b)
               /\ Position(keyword, a) <= Position(keyword, b)
               /\ \/ Position(request.vector, a) < Position(request.vector, b)
                  \/ Position(keyword, a) < Position(keyword, b)
               => Position(request.fused, a) < Position(request.fused, b)

\* What an answer cites was in force and visible to its asker on the day of the
\* search that put it into the prompt, gives no instructions, and stands in the prompt
\* under the number the answer cites; an answer is complete only with citations.
\* (build_policy_context, PolicyAnswerService.answer, _status_for.)
CitationsAreEvidence ==
    /\ \A e \in request.cited :
          LET chunk == ChunkOf(e.id)
          IN  /\ MaySee(request.who, chunk.meta, request.day)
              /\ ~Instructs(chunk)
    /\ {e.source : e \in request.cited} = request.markers
    /\ \A e \in request.cited :
          e.source \in DOMAIN request.context /\ request.context[e.source].id = e.id
    /\ request.by = "research" /\ request.status = "completed" => request.cited # {}
================================================================================
