------------------------------ MODULE Ranking ------------------------------
(***************************************************************************)
(* One run of the search pipeline (_run_search_pipeline): the ranked lists *)
(* of the vector and the lexical branch, their fusion by reciprocal rank,  *)
(* and the mapping of the reranker's answer back to the fused hits.        *)
(*                                                                         *)
(* What the database and the reranker answer is arbitrary.  All hits of a  *)
(* request are of one collection; a document is its id, and ids compare as *)
(* numbers.  Scores are exact fractions <<numerator, denominator>>.        *)
(***************************************************************************)
EXTENDS Naturals, Sequences, SequencesExt

CONSTANTS
    NDocs,          \* documents that match a query at all
    FusionK,        \* RRF_K and LEXICAL_FUSION_K
    Limits,         \* values a request may give its limits
    MaxReply        \* bound: results the reranker answers with

Docs == 1..NDocs
Lists == SetToAllKPermutations(Docs)

ASSUME DocsAssumption == NDocs \in Nat
ASSUME FusionAssumption == FusionK \in Nat \ {0}
ASSUME LimitsAssumption == Limits \subseteq Nat \ {0}
ASSUME ReplyAssumption == MaxReply \in Nat

VARIABLES
    stage,      \* the step of the pipeline that comes next
    want,       \* the limits and switches of the request
    vector,     \* hits of the vector branch
    primary,    \* hits of the configured lexical backend
    fuzzy,      \* hits of the trigram query
    lexical,    \* hits of the lexical branch
    fused,      \* the rerank candidates
    scored,     \* history: the documents the reranker meant, best first
    hits        \* what the request is answered with

vars == <<stage, want, vector, primary, fuzzy, lexical, fused, scored, hits>>

Init ==
    /\ stage = "vector"
    /\ want \in [lexical_top_k : Limits, rrf_top_k : Limits, rerank_top_n : Limits,
                 use_fuzzy : BOOLEAN]
    /\ vector = << >> /\ primary = << >> /\ fuzzy = << >> /\ lexical = << >>
    /\ fused = << >> /\ scored = << >> /\ hits = << >>

----------------------------------------------------------------------------
(* Reciprocal rank fusion *)

Position(list, d) == SelectInSeq(list, LAMBDA e : e = d)

(* The contribution of one list, and the sum over two. *)
Part(list, d) == IF Contains(list, d) THEN <<1, FusionK + Position(list, d)>> ELSE <<0, 1>>
Score(l1, l2, d) ==
    LET p == Part(l1, d)
        q == Part(l2, d)
    IN <<p[1] * q[2] + q[1] * p[2], p[2] * q[2]>>
Above(s, t) == s[1] * t[2] > t[1] * s[2]
Same(s, t) == s[1] * t[2] = t[1] * s[2]

Head1(list, n) == SubSeq(list, 1, IF n < Len(list) THEN n ELSE Len(list))

(* The elements of S, each once, in the order before. *)
Sorted(S, before(_, _)) ==
    CHOOSE s \in SetToSeqs(S) : \A i, j \in DOMAIN s : i < j => before(s[i], s[j])

(* A dict keeps the order in which it first sees the documents. *)
SeenBefore(l1, l2, d, e) == Position(l1 \o l2, d) < Position(l1 \o l2, e)

(* Mutant of LexicalBefore: equal scores stay in the order of insertion. *)
LexicalBeforeStable(l1, l2, d, e) ==
    LET s == Score(l1, l2, d)
        t == Score(l1, l2, e)
    IN Above(s, t) \/ (Same(s, t) /\ SeenBefore(l1, l2, d, e))

(* The sort key of _fuse_lexical_hits: score, best rank, id. *)
BestRank(l1, l2, d) ==
    LET ranks == {Position(l1, d), Position(l2, d)} \ {0}
    IN CHOOSE r \in ranks : \A q \in ranks : r <= q
LexicalBefore(l1, l2, d, e) ==
    LET s == Score(l1, l2, d)
        t == Score(l1, l2, e)
        r == BestRank(l1, l2, d)
        q == BestRank(l1, l2, e)
    IN \/ Above(s, t)
       \/ Same(s, t) /\ r < q
       \/ Same(s, t) /\ r = q /\ d < e

(* Mutant of FuseLexical: each query has had the limit, the sum has not. *)
FuseLexicalUncut(l1, l2, limit) ==
    Sorted(ToSet(l1 \o l2), LAMBDA d, e : LexicalBefore(l1, l2, d, e))

FuseLexical(l1, l2, limit) ==
    Head1(Sorted(ToSet(l1 \o l2), LAMBDA d, e : LexicalBefore(l1, l2, d, e)), limit)

(* sorted() by score alone is stable.                                      *)
RRFBefore(l1, l2, d, e) ==
    LET s == Score(l1, l2, d)
        t == Score(l1, l2, e)
    IN Above(s, t) \/ (Same(s, t) /\ SeenBefore(l1, l2, d, e))

(* Mutants of FuseRRF: ranks are added instead of their reciprocals, and a *)
(* list without the document adds nothing; the cut comes before the sort.  *)
FuseRRFRanks(l1, l2, k) ==
    LET sum(d) == Position(l1, d) + Position(l2, d)
        before(d, e) == sum(d) < sum(e) \/ (sum(d) = sum(e) /\ SeenBefore(l1, l2, d, e))
    IN Head1(Sorted(ToSet(l1 \o l2), before), k)
FuseRRFCut(l1, l2, k) ==
    Sorted(ToSet(Head1(l1 \o l2, k)), LAMBDA d, e : RRFBefore(l1, l2, d, e))

(* fuse_hits_with_rrf, which fuse_search_hits cuts. *)
FuseRRF(l1, l2, k) ==
    Head1(Sorted(ToSet(l1 \o l2), LAMBDA d, e : RRFBefore(l1, l2, d, e)), k)

----------------------------------------------------------------------------
(* The pipeline *)

FetchVector ==
    /\ stage = "vector" /\ stage' = "primary"
    /\ vector' \in Lists
    /\ UNCHANGED <<want, primary, fuzzy, lexical, fused, scored, hits>>

(* The query is shorter than min_query_length. *)
SkipLexical ==
    /\ stage = "primary" /\ stage' = "fuse"
    /\ UNCHANGED <<want, vector, primary, fuzzy, lexical, fused, scored, hits>>

FetchPrimary ==
    /\ stage = "primary"
    /\ \E list \in Lists :
          /\ Len(list) <= want.lexical_top_k
          /\ primary' = list
          /\ IF want.use_fuzzy
             THEN stage' = "fuzzy" /\ UNCHANGED lexical
             ELSE stage' = "fuse" /\ lexical' = list
    /\ UNCHANGED <<want, vector, fuzzy, fused, scored, hits>>

FetchFuzzy ==
    /\ stage = "fuzzy" /\ stage' = "fuse"
    /\ \E list \in Lists :
          /\ Len(list) <= want.lexical_top_k
          /\ fuzzy' = list
          /\ lexical' = FuseLexical(primary, list, want.lexical_top_k)
    /\ UNCHANGED <<want, vector, primary, fused, scored, hits>>

Fuse ==
    /\ stage = "fuse" /\ stage' = "rerank"
    /\ fused' = FuseRRF(vector, lexical, want.rrf_top_k)
    /\ UNCHANGED <<want, vector, primary, fuzzy, lexical, scored, hits>>

(* The embedding service or a query raises, and so does the request. *)
FetchFails ==
    /\ stage \in {"vector", "primary", "fuzzy"} /\ stage' = "failed"
    /\ UNCHANGED <<want, vector, primary, fuzzy, lexical, fused, scored, hits>>

TopN == IF want.rerank_top_n < Len(fused) THEN want.rerank_top_n ELSE Len(fused)

(* What list has at the places in K, in its order. *)
AtPlaces(list, K) ==
    LET place == Sorted(K, <)
    IN [n \in DOMAIN place |-> list[place[n]]]

(* apply_rerank_scores: results without an index of a candidate are left   *)
(* out.  Indexes count from 0.                                             *)
Mapped(reply) ==
    LET known == AtPlaces(reply, {k \in DOMAIN reply : reply[k] \in 0..(Len(fused) - 1)})
    IN [k \in DOMAIN known |-> fused[known[k] + 1]]

(* Mutant of Rerank: the indexes count from 1. *)
RerankFromOne ==
    /\ stage = "rerank" /\ stage' = "done"
    /\ \E order \in SeqOf(ToSet(fused), MaxReply) :
          /\ LET reply == [k \in 1..Len(order) |-> Position(fused, order[k])]
             IN hits' = IF Mapped(reply) = << >> THEN Head1(fused, TopN) ELSE Mapped(reply)
          /\ scored' = order
    /\ UNCHANGED <<want, vector, primary, fuzzy, lexical, fused>>

(* The service is asked for TopN results and may answer with any number,   *)
(* with the same candidate again and again, and with results that lack an  *)
(* index or have a wrong one, here Len(fused): none of it is checked.      *)
Rerank ==
    /\ stage = "rerank" /\ stage' = "done"
    /\ \E order \in SeqOf(ToSet(fused), MaxReply), broken \in SUBSET (1..MaxReply) :
          /\ LET reply == [k \in 1..Len(order) |->
                             IF k \in broken THEN Len(fused) ELSE Position(fused, order[k]) - 1]
             IN hits' = IF Mapped(reply) = << >> THEN Head1(fused, TopN) ELSE Mapped(reply)
          /\ scored' = AtPlaces(order, (1..Len(order)) \ broken)
    /\ UNCHANGED <<want, vector, primary, fuzzy, lexical, fused>>

(* Reranking is disabled, unreachable, or raises. *)
RerankFails ==
    /\ stage = "rerank" /\ stage' = "done"
    /\ hits' = Head1(fused, TopN)
    /\ UNCHANGED <<want, vector, primary, fuzzy, lexical, fused, scored>>

Next ==
    \/ FetchVector \/ SkipLexical \/ FetchPrimary \/ FetchFuzzy \/ FetchFails
    \/ Fuse \/ Rerank \/ RerankFails

Spec == Init /\ [][Next]_vars

----------------------------------------------------------------------------
(* Properties *)

(* Every variable has its type: the lists up to the candidates repeat      *)
(* nothing and keep their limits, and the answer is made of candidates, as *)
(* many and as often as the reranker names them.                           *)
TypeOK ==
    /\ stage \in {"vector", "primary", "fuzzy", "fuse", "rerank", "done", "failed"}
    /\ {vector, primary, fuzzy, lexical, fused} \subseteq Lists
    /\ {scored, hits} \subseteq Seq(ToSet(fused))
    /\ Len(lexical) <= want.lexical_top_k
    /\ Len(fused) <= want.rrf_top_k

(* d is in the list before e, or e is not in it. *)
Ahead(list, d, e) ==
    Contains(list, d) /\ (Contains(list, e) => Position(list, d) < Position(list, e))
NotBehind(list, d, e) == Ahead(list, d, e) \/ (~Contains(list, d) /\ ~Contains(list, e))

(* Fusion respects agreement: a document that one branch puts ahead of     *)
(* another, and the other branch not behind it, is a candidate whenever    *)
(* the other one is, and comes first (docs: the sum over both lists).      *)
FusionAgrees ==
    stage = "rerank" =>
        \A d, e \in Docs :
            \/ Ahead(vector, d, e) /\ NotBehind(lexical, d, e)
            \/ NotBehind(vector, d, e) /\ Ahead(lexical, d, e)
            => NotBehind(fused, d, e)

(* The cut drops only what scores no better than everything it keeps.      *)
CutKeepsBest ==
    stage = "rerank" =>
        \A d \in ToSet(fused), e \in ToSet(vector \o lexical) \ ToSet(fused) :
            ~Above(Score(vector, lexical, e), Score(vector, lexical, d))

(* The lexical branch does not depend on which of its two queries is       *)
(* called the first: equal scores are ordered by the documents alone.      *)
LexicalSymmetric ==
    stage = "fuse" /\ fuzzy # << >> =>
        lexical = FuseLexical(fuzzy, primary, want.lexical_top_k)

(* The answer is what the reranker meant, in its order, or the head of the *)
(* fused list when it meant nothing that can be used: never empty next to  *)
(* candidates, and never the wrong document under a score.                 *)
AnswerIsMeant ==
    stage = "done" => hits = IF scored = << >> THEN Head1(fused, TopN) ELSE scored
=============================================================================
