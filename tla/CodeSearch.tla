------------------------------ MODULE CodeSearch ------------------------------
(***************************************************************************)
(* The search of a code base by words and by vectors, and how the two are  *)
(* put together (src/context/codebase/search.go).                          *)
(*                                                                         *)
(* rows are records [id, words, bm25, dist]: the words FTS5 finds in a row,*)
(* how it ranks it (negative; the lower the better) and how far its vector *)
(* is from the query's, or NoVector.  Scores are kept as fractions of ten  *)
(* (weights) over common denominators.                                     *)
(***************************************************************************)
EXTENDS Integers, Sequences, FiniteSets, SequencesExt

CONSTANTS StopWords, NoVector

Least(S)    == CHOOSE n \in S : \A k \in S : n <= k
Greatest(S) == CHOOSE n \in S : \A k \in S : k <= n

\* extractKeywords: the words that say something, each once.
Keywords(query) ==
  LET Says(i) == query[i] \notin StopWords /\ \A k \in 1..(i - 1) : query[k] # query[i]
  IN  [i \in 1..Len(SelectSeq([n \in 1..Len(query) |-> n], Says)) |->
         query[SelectSeq([n \in 1..Len(query) |-> n], Says)[i]]]

\* The first of them in an order, as many as asked for; which of two equals is left out
\* is the database's choice.
Nearest(rows, count, key) ==
  {best \in SUBSET rows :
     /\ Cardinality(best) = Least({count, Cardinality(rows)})
     /\ \A r \in best, s \in rows \ best : r[key] <= s[key]}

\* The query is all the words; without one there is nothing to look for.
BM25Search(rows, query, limit) ==
  LET keywords == Keywords(query)
  IN  IF keywords = <<>> THEN {{}}
      ELSE Nearest({r \in rows : ToSet(keywords) \subseteq r.words}, limit, "bm25")

VectorSearch(rows, limit) ==
  Nearest({r \in rows : r.dist # NoVector}, limit, "dist")

\* What the thresholds let through (0: no threshold).
WordsKept(hits, retention) == {r \in hits : retention > 0 => r.bm25 <= retention}
NearKept(hits, threshold)  == {r \in hits : threshold > 0 => r.dist <= threshold}

\* Mutant of Fused: what no vector found is not held back for it.
FusedKindly(r, byWords, byVector, weight) ==
  LET maxDist == Greatest({0} \cup {s.dist : s \in byVector})
  IN  IF r \in byVector /\ maxDist > 0 THEN (10 - weight) * r.dist ELSE 0

\* The fused score: a normalised rank where the row was found by words, a normalised
\* distance where it was found by its vector, the worst where it was not.
Fused(r, byWords, byVector, weight) ==
  LET maxScore == Greatest({0} \cup {s.bm25 : s \in byWords})
      maxDist  == Greatest({0} \cup {s.dist : s \in byVector})
      ofWords  == IF maxScore > 0 THEN maxScore ELSE 1
      ofVector == IF maxDist > 0 THEN maxDist ELSE 1
      words == CASE r \notin byWords -> ofWords [] maxScore > 0 -> r.bm25 [] OTHER -> 0
      near  == CASE r \notin byVector -> ofVector [] maxDist > 0 -> r.dist [] OTHER -> 0
  IN  weight * words * ofVector + (10 - weight) * near * ofWords

\* A group by its scores; the rows come out of a map, equals in any order.
Sorted(rows, score) ==
  {s \in [1..Cardinality(rows) -> rows] :
     /\ \A i, k \in DOMAIN s : i < k => s[i] # s[k] /\ score[s[i]] <= score[s[k]]}

First(s, limit) == SubSeq(s, 1, Least({limit, Len(s)}))

\* Both sides answered: what words found, then what only vectors found.
Merge(byWords, byVector, weight, limit) ==
  LET score == [r \in byWords \cup byVector |-> Fused(r, byWords, byVector, weight)]
  IN  {First(a \o b, limit) : a \in Sorted(byWords, score), b \in Sorted(byVector \ byWords, score)}

\* searchHybrid: each side is asked for twice the limit.  One that fails leaves the answer
\* to the other, in its own order and of its own length; both are an error.
SearchHybrid(rows, query, config, failed) ==
  LET words(hits) == WordsKept(hits, config.retention)
      near(hits)  == NearKept(hits, config.threshold)
      W == BM25Search(rows, query, 2 * config.limit)
      V == VectorSearch(rows, 2 * config.limit)
  IN  CASE failed = {"words", "vector"} -> {}
        [] failed = {"words"}  -> UNION {Sorted(near(v), [r \in rows |-> r.dist]) : v \in V}
        [] failed = {"vector"} -> UNION {Sorted(words(w), [r \in rows |-> r.bm25]) : w \in W}
        [] failed = {} -> UNION {Merge(words(w), near(v), config.weight, config.limit) : w \in W, v \in V}
=============================================================================
