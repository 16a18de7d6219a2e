------------------------------ MODULE PolicySearch ------------------------------
(***************************************************************************)
(* Retrieval over the chunks of one application: who may see which chunk on  *)
(* which day, the vector and the keyword ranking within that scope, their    *)
(* reciprocal rank fusion, and the optional reranking of what was fused.     *)
(*                                                                           *)
(* Scores are integers: a similarity is what the embedding model says, a     *)
(* keyword score is computed in thousandths, with the logarithms the index   *)
(* needs given by a table, Ln.                                               *)
(***************************************************************************)
EXTENDS PolicyDocuments

CONSTANTS
    Similarity(_, _),   \* of a query to the lines of a stored row
    RerankK,            \* how many results each channel contributes, and are fused
    TopK,               \* how many results a search returns
    MaxQueryTerms,      \* of a keyword search
    Ln                  \* 1000 * ln(n), for as many n as a corpus needs

-----------------------------------------------------------------------------
(* Access                                                                   *)

Rank == [public |-> 0, internal |-> 1, sensitive |-> 2, core |-> 3]

InForce(meta, day) ==
    /\ meta.status = "effective"
    /\ meta.from <= day
    /\ meta.until # Absent => day <= meta.until

\* An empty scope and one that names everybody are open.
InScope(scope, own) == scope = {} \/ "ALL" \in scope \/ scope \cap own # {}

MaySee(who, meta, day) ==
    /\ InForce(meta, day)
    /\ Rank[meta.level] <= Rank[who.clearance]
    /\ InScope(meta.departments, {who.department})
    /\ InScope(meta.roles, who.roles)
    /\ meta.region \in {Absent, who.region}

Authorized(chunks, who, day) ==
    {chunks[c].id : c \in {d \in DOMAIN chunks : MaySee(who, chunks[d].meta, day)}}

-----------------------------------------------------------------------------
(* Ranking                                                                  *)

\* Ids order the way their strings do: by document, then by position.
Precedes(id, other) == id[1] < other[1] \/ (id[1] = other[1] /\ id[2] < other[2])

Cut(ranking, k) == SubSeq(ranking, 1, IF Len(ranking) < k THEN Len(ranking) ELSE k)

\* rows: what the vector table holds, which another process may have written.  The
\* table says nothing of the order of equal similarities.
VectorRankings(rows, query, scope) ==
    LET found == DOMAIN rows \cap scope
        score == [id \in found |-> Similarity(query, rows[id])]
    IN  {Cut(ranking, RerankK) : ranking \in
            {r \in SetToSeqs(found) : \A i \in 1..(Len(r) - 1) : score[r[i]] >= score[r[i + 1]]}}

\* A written line is a word: the one it is about.
WordsOf(lines) == {i \in DOMAIN lines : lines[i].kind # "blank"}
Frequency(lines, term) == Cardinality({i \in WordsOf(lines) : lines[i].what = term})
WordCount(lines) == Cardinality(WordsOf(lines))

\* ln(1 + (n - d + 1/2) / (d + 1/2)) = ln(2n + 2) - ln(2d + 1), and
\* f * 2.2 / (f + 1.2 * (1/4 + 3/4 * length / average)), with average = total / n.
TermScore(f, d, n, length, total) ==
    IF f = 0 THEN 0
    ELSE ((Ln[2 * n + 2] - Ln[2 * d + 1]) * 22 * f * total)
            \div (10 * f * total + 3 * total + 9 * length * n)

Total(numbers) ==
    LET Sum[S \in SUBSET DOMAIN numbers] ==
            IF S = {} THEN 0
            ELSE LET x == CHOOSE x \in S : TRUE IN numbers[x] + Sum[S \ {x}]
    IN  Sum[DOMAIN numbers]

\* texts: the lines of the records the statistics are taken over.
KeywordScore(lines, terms, texts) ==
    Total([t \in terms |-> TermScore(Frequency(lines, t),
                                     Cardinality({r \in DOMAIN texts : Frequency(texts[r], t) > 0}),
                                     Cardinality(DOMAIN texts), WordCount(lines),
                                     Total([r \in DOMAIN texts |-> WordCount(texts[r])]))])

TextsOf(chunks, scope) ==
    [id \in {chunks[c].id : c \in DOMAIN chunks} \cap scope |->
        (CHOOSE c \in Range(chunks) : c.id = id).lines]

\* Mutant: the statistics are those of all records, not of the authorized ones.
KeywordScoresOverall(chunks, query, scope) ==
    LET all == TextsOf(chunks, {chunks[c].id : c \in DOMAIN chunks})
    IN  [id \in DOMAIN all \cap scope |-> KeywordScore(all[id], query.terms, all)]

KeywordScores(chunks, query, scope) ==
    LET texts == TextsOf(chunks, scope)
    IN  [id \in DOMAIN texts |-> KeywordScore(texts[id], query.terms, texts)]

\* The place of an element is given by the number of those before it.
InOrder(S, before) ==
    LET place == [b \in S |-> Cardinality({a \in S : <<a, b>> \in before}) + 1]
    IN  [i \in 1..Cardinality(S) |-> CHOOSE x \in S : place[x] = i]

\* The higher score first, and of equal ones the earlier id.
ByScore(scores) ==
    LET found == {id \in DOMAIN scores : scores[id] > 0}
    IN  InOrder(found, {p \in found \X found :
                           \/ scores[p[1]] > scores[p[2]]
                           \/ scores[p[1]] = scores[p[2]] /\ Precedes(p[1], p[2])})

\* A query without searchable terms finds nothing.
KeywordRanking(chunks, query, scope) ==
    Cut(ByScore(KeywordScores(chunks, query, scope)), RerankK)

-----------------------------------------------------------------------------
(* Fusion and reranking                                                     *)

RankConstant == 60

\* Millionths: the ranks of the model are few enough for no two sums to collide.
Contribution(ranking, id) ==
    Total([i \in {j \in DOMAIN ranking : ranking[j] = id} |-> 1000000 \div (RankConstant + i)])

\* Mutant: a record found twice keeps its last contribution only.
FusedLast(vector, keyword) ==
    ByScore([id \in Range(vector) \cup Range(keyword) |->
        IF id \in Range(keyword) THEN Contribution(keyword, id) ELSE Contribution(vector, id)])

Fused(vector, keyword) ==
    ByScore([id \in Range(vector) \cup Range(keyword) |->
        Contribution(vector, id) + Contribution(keyword, id)])

\* A query above the token limit fails the search, and both rankings with it.
Searchable(query) == Cardinality(query.terms) <= MaxQueryTerms

\* Equal scores keep their order.  relevance: what the reranking model says.
Reranked(ids, relevance) ==
    LET positions == DOMAIN ids
        order == InOrder(positions, {p \in positions \X positions :
                            \/ relevance[ids[p[1]]] > relevance[ids[p[2]]]
                            \/ relevance[ids[p[1]]] = relevance[ids[p[2]]] /\ p[1] < p[2]})
    IN  Cut([i \in DOMAIN ids |-> ids[order[i]]], TopK)

=================================================================================
