------------------------- MODULE RetrievalRound_proofs -------------------------
(***************************************************************************)
(* Proofs about a round of retrieval, for any number of sub-queries, legs, *)
(* chunks and rounds, and any cache: what sorting, cutting, fusing and     *)
(* merging lists keep; what the scores of the fusion say; that a partial   *)
(* failure of the search degrades while a total one is an outage; and,     *)
(* from an inductive invariant over the sub-queries, the candidates, the   *)
(* cache of the reranker and the evidence, the invariants of the runs.     *)
(***************************************************************************)
EXTENDS RetrievalRound, FiniteSetTheorems, TLAPS

-----------------------------------------------------------------------------
(* Finite sets in order.                                                        *)

Ordered(S, R) ==
  /\ \A x \in S : <<x, x>> \notin R
  /\ \A x, y \in S : x # y => <<x, y>> \in R \/ <<y, x>> \in R
  /\ \A x, y, z \in S : <<x, y>> \in R /\ <<y, z>> \in R => <<x, z>> \in R

(* A finite set put in order has each member once, at a place that follows      *)
(* those of the members before it.                                              *)
LEMMA ListedOnce ==
  ASSUME NEW S, IsFiniteSet(S), NEW R, Ordered(S, R)
  PROVE  /\ Cardinality(S) \in Nat
         /\ Listed(S, R) \in [1..Cardinality(S) -> S]
         /\ \A x \in S : \E k \in 1..Cardinality(S) : Listed(S, R)[k] = x
         /\ \A i, j \in 1..Cardinality(S) : i < j => <<Listed(S, R)[i], Listed(S, R)[j]>> \in R
<1> DEFINE n == Cardinality(S)
           Below(x) == {y \in S : <<y, x>> \in R}
           list == Listed(S, R)
<1>1. n \in Nat
  BY FS_CardinalityType
<1>2. \A x, y \in S : y \in Below(x) <=> <<y, x>> \in R
  OBVIOUS
<1>3. \A x : Below(x) \in SUBSET S
  OBVIOUS
<1>4. list = [k \in 1..n |-> CHOOSE x \in S : Cardinality(Below(x)) = k - 1]
  BY DEF Listed
<1> HIDE DEF n, Below, list
<1>5. ASSUME NEW x \in S
      PROVE  IsFiniteSet(Below(x)) /\ Cardinality(Below(x)) \in 0..(n - 1)
  <2>1. Below(x) \in SUBSET S /\ x \notin Below(x)
    BY <1>2, <1>3 DEF Ordered
  <2>2. IsFiniteSet(Below(x)) /\ Cardinality(Below(x)) <= n /\ Cardinality(Below(x)) # n
    BY <2>1, FS_Subset DEF n
  <2>3. Cardinality(Below(x)) \in Nat
    BY <2>2, FS_CardinalityType
  <2> QED BY <1>1, <2>2, <2>3
<1> DEFINE c == [x \in S |-> Cardinality(Below(x))]
<1>6. c \in [S -> 0..(n - 1)]
  BY <1>5
<1>7. ASSUME NEW x \in S, NEW y \in S, <<x, y>> \in R
      PROVE  c[x] < c[y]
  <2>1. Below(x) \in SUBSET Below(y) /\ x \in Below(y) /\ x \notin Below(x)
    BY <1>2, <1>3, <1>7 DEF Ordered
  <2>2. Cardinality(Below(x)) <= Cardinality(Below(y)) /\ Cardinality(Below(x)) # Cardinality(Below(y))
    BY <1>5, <2>1, FS_Subset
  <2>3. c[x] <= c[y] /\ c[x] # c[y] /\ c[x] \in 0..(n - 1) /\ c[y] \in 0..(n - 1)
    BY <1>6, <2>2
  <2> QED BY <1>1, <2>3
<1>8. \A k \in 1..n : list[k] = CHOOSE x \in S : c[x] = k - 1
  BY <1>4
<1> HIDE DEF c
<1>9. ASSUME NEW x \in S, NEW y \in S, c[x] = c[y]
      PROVE  x = y
  <2>1. c[x] \in 0..(n - 1) /\ c[y] \in 0..(n - 1)
    BY <1>6
  <2>2. ~(c[x] < c[y]) /\ ~(c[y] < c[x])
    BY <1>1, <1>9, <2>1
  <2>3. <<x, y>> \notin R /\ <<y, x>> \notin R
    BY <1>7, <2>2
  <2> QED BY <2>3 DEF Ordered
<1> DEFINE rank == [x \in S |-> c[x] + 1]
<1>10. rank \in Injection(S, 1..n)
  <2>1. rank \in [S -> 1..n]
    BY <1>1, <1>6
  <2>2. \A x, y \in S : rank[x] = rank[y] => x = y
    <3> SUFFICES ASSUME NEW x \in S, NEW y \in S, rank[x] = rank[y] PROVE x = y
      OBVIOUS
    <3>1. c[x] \in 0..(n - 1) /\ c[y] \in 0..(n - 1) /\ c[x] + 1 = c[y] + 1
      BY <1>6
    <3> QED BY <1>1, <1>9, <3>1
  <2> QED BY <2>1, <2>2 DEF Injection, IsInjective
<1>11. IsFiniteSet(1..n) /\ Cardinality(1..n) = n
  BY <1>1, FS_Interval
<1>12. rank \in Surjection(S, 1..n)
  BY <1>10, <1>11, FS_Injection DEF n
<1>13. \A k \in 1..n : \E x \in S : c[x] + 1 = k
  BY <1>12 DEF Surjection
<1>14. ASSUME NEW k \in 1..n
       PROVE  list[k] \in S /\ c[list[k]] = k - 1
  <2>1. PICK x \in S : c[x] + 1 = k
    BY <1>13
  <2>2. c[x] = k - 1
    BY <1>1, <1>6, <2>1
  <2> QED BY <1>8, <2>2
<1>15. list \in [1..n -> S]
  BY <1>4, <1>14
<1>16. ASSUME NEW x \in S
       PROVE  \E k \in 1..n : list[k] = x
  <2>1. c[x] \in 0..(n - 1)
    BY <1>6
  <2>2. c[x] + 1 \in 1..n
    BY <1>1, <2>1
  <2>3. list[c[x] + 1] \in S /\ c[list[c[x] + 1]] = c[x]
    BY <1>1, <1>14, <2>1, <2>2
  <2> QED BY <1>9, <2>2, <2>3
<1>17. ASSUME NEW i \in 1..n, NEW j \in 1..n, i < j
       PROVE  <<list[i], list[j]>> \in R
  <2>1. list[i] \in S /\ list[j] \in S /\ c[list[i]] = i - 1 /\ c[list[j]] = j - 1
    BY <1>14
  <2>2. list[i] # list[j] /\ ~ (c[list[j]] < c[list[i]])
    BY <1>1, <1>17, <2>1
  <2> QED BY <1>7, <2>1, <2>2 DEF Ordered
<1> QED BY <1>1, <1>15, <1>16, <1>17 DEF n, list

(* The least of a finite set in order.                                          *)
LEMMA LeastExists ==
  ASSUME NEW S, IsFiniteSet(S), NEW R, Ordered(S, R), S # {}
  PROVE  \E x \in S : \A y \in S : y # x => <<x, y>> \in R
<1> DEFINE list == Listed(S, R)
<1>1. /\ Cardinality(S) \in Nat /\ list \in [1..Cardinality(S) -> S]
      /\ \A x \in S : \E k \in 1..Cardinality(S) : list[k] = x
      /\ \A i, j \in 1..Cardinality(S) : i < j => <<list[i], list[j]>> \in R
  BY ListedOnce
<1> HIDE DEF list
<1>2. 1 \in 1..Cardinality(S)
  BY <1>1, FS_EmptySet
<1>3. list[1] \in S
  BY <1>1, <1>2
<1>4. ASSUME NEW y \in S, y # list[1]
      PROVE  <<list[1], y>> \in R
  <2>1. PICK k \in 1..Cardinality(S) : list[k] = y
    BY <1>1
  <2>2. 1 < k
    BY <1>1, <1>4, <2>1
  <2> QED BY <1>1, <1>2, <2>1, <2>2
<1> QED BY <1>3, <1>4

(* Numbers in order.                                                            *)
LEMMA AscendingOnce ==
  ASSUME NEW S \in SUBSET Nat, IsFiniteSet(S)
  PROVE  /\ Cardinality(S) \in Nat /\ Ascending(S) \in [1..Cardinality(S) -> S]
         /\ \A x \in S : \E k \in 1..Cardinality(S) : Ascending(S)[k] = x
         /\ \A i, j \in 1..Cardinality(S) : i < j => Ascending(S)[i] < Ascending(S)[j]
<1> DEFINE R == {p \in Pairs(S) : p[1] < p[2]}
<1>1. \A x, y \in S : <<x, y>> \in R <=> x < y
  BY DEF Pairs
<1>2. Ordered(S, R)
  BY <1>1 DEF Ordered
<1>3. Ascending(S) = Listed(S, R)
  BY DEF Ascending
<1> HIDE DEF R
<1>4. /\ Cardinality(S) \in Nat
      /\ Listed(S, R) \in [1..Cardinality(S) -> S]
      /\ \A x \in S : \E k \in 1..Cardinality(S) : Listed(S, R)[k] = x
      /\ \A i, j \in 1..Cardinality(S) : i < j => <<Listed(S, R)[i], Listed(S, R)[j]>> \in R
  BY <1>2, ListedOnce
<1> QED BY <1>1, <1>3, <1>4

LEMMA PlacesFinite ==
  ASSUME NEW T, NEW list \in Seq(T), NEW P \in SUBSET DOMAIN list
  PROVE  /\ Len(list) \in Nat /\ DOMAIN list = 1..Len(list) /\ P \in SUBSET Nat /\ IsFiniteSet(P)
         /\ Cardinality(P) \in Nat /\ Cardinality(P) <= Len(list)
<1> DEFINE n == Len(list)
<1>1. n \in Nat /\ DOMAIN list = 1..n
  OBVIOUS
<1> HIDE DEF n
<1>2. IsFiniteSet(1..n) /\ Cardinality(1..n) = n
  BY <1>1, FS_Interval
<1>3. P \in SUBSET (1..n)
  BY <1>1
<1>4. IsFiniteSet(P) /\ Cardinality(P) <= n
  BY <1>2, <1>3, FS_Subset
<1>5. Cardinality(P) \in Nat
  BY <1>4, FS_CardinalityType
<1> QED BY <1>1, <1>3, <1>4, <1>5 DEF n

(* What a filter leaves: the rows at the places kept, in their order.           *)
LEMMA KeepOf ==
  ASSUME NEW T, NEW list \in Seq(T), NEW P \in SUBSET DOMAIN list
  PROVE  /\ Keep(list, P) \in Seq(T) /\ Len(Keep(list, P)) = Cardinality(P) /\ Cardinality(P) \in 0..Len(list)
         /\ Ascending(P) \in [1..Cardinality(P) -> P]
         /\ Keep(list, P) = [k \in 1..Cardinality(P) |-> list[Ascending(P)[k]]]
         /\ \A i \in P : \E k \in 1..Cardinality(P) : Ascending(P)[k] = i
         /\ \A i, j \in 1..Cardinality(P) : i < j => Ascending(P)[i] < Ascending(P)[j]
<1>1. /\ Len(list) \in Nat /\ DOMAIN list = 1..Len(list) /\ P \in SUBSET Nat /\ IsFiniteSet(P)
      /\ Cardinality(P) \in Nat /\ Cardinality(P) <= Len(list)
  BY PlacesFinite
<1>2. /\ Ascending(P) \in [1..Cardinality(P) -> P]
      /\ \A i \in P : \E k \in 1..Cardinality(P) : Ascending(P)[k] = i
      /\ \A i, j \in 1..Cardinality(P) : i < j => Ascending(P)[i] < Ascending(P)[j]
  BY <1>1, AscendingOnce
<1>3. Keep(list, P) = [k \in 1..Cardinality(P) |-> list[Ascending(P)[k]]]
  BY <1>2 DEF Keep
<1>4. \A k \in 1..Cardinality(P) : list[Ascending(P)[k]] \in T
  BY <1>1, <1>2
<1>5. Keep(list, P) \in Seq(T) /\ Len(Keep(list, P)) = Cardinality(P)
  BY <1>1, <1>3, <1>4
<1> QED BY <1>1, <1>2, <1>3, <1>5

LEMMA FirstOf ==
  ASSUME NEW T, NEW list \in Seq(T), NEW n \in Nat
  PROVE  /\ First(n, list) \in Seq(T) /\ Len(First(n, list)) = Smaller(n, Len(list))
         /\ Smaller(n, Len(list)) \in 0..Len(list) /\ Smaller(n, Len(list)) <= n
         /\ \A i \in 1..Smaller(n, Len(list)) : First(n, list)[i] = list[i]
<1>1. Len(list) \in Nat /\ DOMAIN list = 1..Len(list)
  OBVIOUS
<1>2. Smaller(n, Len(list)) \in 0..Len(list) /\ Smaller(n, Len(list)) <= n
  BY <1>1 DEF Smaller
<1>3. First(n, list) = [i \in 1..Smaller(n, Len(list)) |-> list[i]]
  BY DEF First
<1>4. \A i \in 1..Smaller(n, Len(list)) : list[i] \in T
  BY <1>1, <1>2
<1> QED BY <1>1, <1>2, <1>3, <1>4

(* The least number of a finite set.                                            *)
LEMMA MinOf ==
  ASSUME NEW S \in SUBSET Nat, IsFiniteSet(S), S # {}
  PROVE  Min(S) \in S /\ \A y \in S : Min(S) <= y
<1> DEFINE R == {p \in Pairs(S) : p[1] < p[2]}
<1>1. \A x, y \in S : <<x, y>> \in R <=> x < y
  BY DEF Pairs
<1>2. Ordered(S, R)
  BY <1>1 DEF Ordered
<1> HIDE DEF R
<1>3. \E x \in S : \A y \in S : y # x => <<x, y>> \in R
  BY <1>2, LeastExists
<1>4. PICK x \in S : \A y \in S : y # x => <<x, y>> \in R
  BY <1>3
<1>5. \A y \in S : x <= y
  <2> TAKE y \in S
  <2>1. x \in Nat /\ y \in Nat /\ (y # x => x < y)
    BY <1>1, <1>4
  <2> QED BY <2>1
<1> QED BY <1>5 DEF Min

(* What is said of the places of a list that are sorted: nothing of both of two *)
(* places, and something of two apart where there is something of them and of   *)
(* a third.                                                                     *)
Weak(S, above) ==
  /\ \A x, y \in S : ~(<<x, y>> \in above /\ <<y, x>> \in above)
  /\ \A x, y, z \in S : <<x, z>> \in above => <<x, y>> \in above \/ <<y, z>> \in above

(* Places that nothing is said of may be put in any order.                      *)
LEMMA TiesInOrder ==
  ASSUME NEW S, NEW above, Weak(S, above), NEW R, Ordered(S, R)
  PROVE  Ordered(S, {p \in Pairs(S) : p \in above \/ (<<p[2], p[1]>> \notin above /\ p \in R)})
<1> DEFINE before == {p \in Pairs(S) : p \in above \/ (<<p[2], p[1]>> \notin above /\ p \in R)}
<1>1. \A x, y \in S : <<x, y>> \in before <=> (<<x, y>> \in above \/ (<<y, x>> \notin above /\ <<x, y>> \in R))
  BY DEF Pairs
<1> HIDE DEF before
<1>2. \A x \in S : <<x, x>> \notin before
  BY <1>1 DEF Weak, Ordered
<1>3. \A x, y \in S : x # y => <<x, y>> \in before \/ <<y, x>> \in before
  BY <1>1 DEF Ordered
<1>4. ASSUME NEW x \in S, NEW y \in S, NEW z \in S, <<x, y>> \in before, <<y, z>> \in before
      PROVE  <<x, z>> \in before
  <2>1. CASE <<x, z>> \in above
    BY <1>1, <2>1
  <2>2. CASE <<x, z>> \notin above
    <3>1. <<y, x>> \notin above /\ <<z, y>> \notin above
      BY <1>1, <1>4 DEF Weak
    <3>2. <<z, x>> \notin above
      BY <3>1 DEF Weak
    <3>3. <<x, y>> \notin above
      BY <2>2, <3>1 DEF Weak
    <3>4. <<y, z>> \notin above
      BY <2>2, <3>1 DEF Weak
    <3>5. <<x, y>> \in R /\ <<y, z>> \in R
      BY <1>1, <1>4, <3>3, <3>4
    <3>6. <<x, z>> \in R
      BY <3>5 DEF Ordered
    <3> QED BY <1>1, <3>2, <3>6
  <2> QED BY <2>1, <2>2
<1> QED BY <1>2, <1>3, <1>4 DEF Ordered, before

(* A sorted list has the rows of the list, each once, none behind one it is     *)
(* above.                                                                       *)
LEMMA SortedOf ==
  ASSUME NEW T, NEW list \in Seq(T), NEW above, Weak(1..Len(list), above)
  PROVE  /\ Sorted(list, above) \in Seq(T) /\ Len(Sorted(list, above)) = Len(list)
         /\ \E order \in [1..Len(list) -> 1..Len(list)] :
              /\ Sorted(list, above) = [k \in 1..Len(list) |-> list[order[k]]]
              /\ \A i \in 1..Len(list) : \E k \in 1..Len(list) : order[k] = i
              /\ \A i, j \in 1..Len(list) : i < j => order[i] # order[j] /\ <<order[j], order[i]>> \notin above
<1> DEFINE n == Len(list)
           S == 1..n
           before == {p \in Pairs(S) : p \in above \/ (<<p[2], p[1]>> \notin above /\ p[1] < p[2])}
<1>1. n \in Nat /\ DOMAIN list = S /\ \A i \in S : list[i] \in T
  OBVIOUS
<1>2. \A x, y \in S : <<x, y>> \in before <=> (<<x, y>> \in above \/ (<<y, x>> \notin above /\ x < y))
  BY DEF Pairs
<1>3. Sorted(list, above) = [k \in DOMAIN Listed(S, before) |-> list[Listed(S, before)[k]]]
  BY <1>1 DEF Sorted
<1>4. Weak(S, above)
  OBVIOUS
<1> HIDE DEF n
<1>5. S \in SUBSET Int /\ IsFiniteSet(S) /\ Cardinality(S) = n
  <2>1. IsFiniteSet(1..n) /\ Cardinality(1..n) = n
    BY <1>1, FS_Interval
  <2> QED BY <1>1, <2>1
<1> HIDE DEF S, before
<1>6. Ordered(S, before)
  <2> DEFINE upwards == {p \in Pairs(S) : p[1] < p[2]}
             tied == {p \in Pairs(S) : p \in above \/ (<<p[2], p[1]>> \notin above /\ p \in upwards)}
  <2>1. \A x, y \in S : <<x, y>> \in upwards <=> x < y
    BY DEF Pairs
  <2> HIDE DEF upwards
  <2>2. Ordered(S, upwards)
    BY <1>5, <2>1 DEF Ordered
  <2>3. Ordered(S, tied)
    BY <1>4, <2>2, TiesInOrder
  <2>4. \A x, y \in S : <<x, y>> \in tied <=> <<x, y>> \in before
    BY <1>2, <2>1 DEF Pairs
  <2> HIDE DEF tied
  <2> QED BY <2>3, <2>4 DEF Ordered
<1> DEFINE order == Listed(S, before)
<1>7. /\ order \in [1..n -> S]
      /\ \A x \in S : \E k \in 1..n : order[k] = x
      /\ \A i, j \in 1..n : i < j => <<order[i], order[j]>> \in before
  BY <1>5, <1>6, ListedOnce
<1>8. Sorted(list, above) = [k \in DOMAIN order |-> list[order[k]]]
  BY <1>3
<1> HIDE DEF order
<1>9. Sorted(list, above) = [k \in 1..n |-> list[order[k]]]
  BY <1>7, <1>8
<1>10. \A i, j \in 1..n : i < j => order[i] # order[j] /\ <<order[j], order[i]>> \notin above
  <2> SUFFICES ASSUME NEW i \in 1..n, NEW j \in 1..n, i < j
               PROVE  order[i] # order[j] /\ <<order[j], order[i]>> \notin above
    OBVIOUS
  <2>1. order[i] \in S /\ order[j] \in S /\ <<order[i], order[j]>> \in before
    BY <1>7
  <2>2. order[i] # order[j]
    BY <1>6, <2>1 DEF Ordered
  <2>3. <<order[j], order[i]>> \notin above
    BY <1>2, <1>4, <2>1 DEF Weak
  <2> QED BY <2>2, <2>3
<1>11. \A k \in 1..n : list[order[k]] \in T
  BY <1>1, <1>7
<1>12. Sorted(list, above) \in Seq(T) /\ Len(Sorted(list, above)) = n
  BY <1>1, <1>9, <1>11
<1>13. order \in [S -> S] /\ S = 1..n
  BY <1>7 DEF S
<1> QED BY <1>7, <1>9, <1>10, <1>12, <1>13 DEF n

-----------------------------------------------------------------------------
(* Fractions.                                                                   *)

Scores == [num : Nat, den : Nat \ {0}]

LEMMA HigherIsWeak ==
  ASSUME NEW x \in Scores, NEW y \in Scores, NEW z \in Scores
  PROVE  ~(Higher(x, y) /\ Higher(y, x)) /\ (Higher(x, z) => Higher(x, y) \/ Higher(y, z))
<1>1. /\ x.num \in Nat /\ y.num \in Nat /\ z.num \in Nat
      /\ x.den \in Nat \ {0} /\ y.den \in Nat \ {0} /\ z.den \in Nat \ {0}
  BY DEF Scores
<1>2. ASSUME NEW p \in Nat, NEW q \in Nat, NEW r \in Nat, NEW a1 \in Nat \ {0}, NEW b1 \in Nat \ {0}, NEW c1 \in Nat \ {0},
             p * b1 <= q * a1, q * c1 <= r * b1
      PROVE  p * c1 <= r * a1
  <2>1. (p * b1) * c1 <= (q * a1) * c1
    <3> DEFINE m == p * b1
               k == q * a1
    <3>1. m \in Nat /\ k \in Nat /\ m <= k
      BY <1>2
    <3> HIDE DEF m, k
    <3>2. m * c1 <= k * c1
      BY <3>1
    <3> QED BY <3>2 DEF m, k
  <2>2. (q * c1) * a1 <= (r * b1) * a1
    <3> DEFINE m == q * c1
               k == r * b1
    <3>1. m \in Nat /\ k \in Nat /\ m <= k
      BY <1>2
    <3> HIDE DEF m, k
    <3>2. m * a1 <= k * a1
      BY <3>1
    <3> QED BY <3>2 DEF m, k
  <2>3. (q * a1) * c1 = (q * c1) * a1 /\ (p * b1) * c1 = (p * c1) * b1 /\ (r * b1) * a1 = (r * a1) * b1
    OBVIOUS
  <2> DEFINE u1 == p * c1
             v1 == r * a1
  <2>4. u1 \in Nat /\ v1 \in Nat /\ u1 * b1 <= v1 * b1
    <3>1. (p * c1) * b1 \in Nat /\ (q * c1) * a1 \in Nat /\ (r * a1) * b1 \in Nat /\ p * c1 \in Nat /\ r * a1 \in Nat
      OBVIOUS
    <3> QED BY <2>1, <2>2, <2>3, <3>1
  <2> HIDE DEF u1, v1
  <2>5. u1 <= v1
    <3> SUFFICES ASSUME v1 < u1 PROVE FALSE
      BY <2>4
    <3>1. v1 * b1 < u1 * b1
      BY <2>4
    <3>2. v1 * b1 \in Nat /\ u1 * b1 \in Nat
      BY <2>4
    <3> QED BY <2>4, <3>1, <3>2
  <2> QED BY <2>5 DEF u1, v1
<1>3. x.num * y.den \in Nat /\ y.num * x.den \in Nat /\ x.num * z.den \in Nat /\ z.num * x.den \in Nat
      /\ y.num * z.den \in Nat /\ z.num * y.den \in Nat
  BY <1>1
<1>4. ~Higher(x, y) /\ ~Higher(y, z) => ~Higher(x, z)
  <2>1. x.num * y.den <= y.num * x.den /\ y.num * z.den <= z.num * y.den => x.num * z.den <= z.num * x.den
    BY <1>1, <1>2
  <2> QED BY <1>3, <2>1 DEF Higher
<1> QED BY <1>3, <1>4 DEF Higher

-----------------------------------------------------------------------------
(* Fused lists of chunks.                                                       *)

FusedRow == [chunk : Chunks, rrf : Scores]
Distinct(list) == \A i, j \in DOMAIN list : list[i].chunk = list[j].chunk => i = j
In(list, c) == \E i \in DOMAIN list : list[i].chunk = c

LEMMA ByFusionOf ==
  ASSUME NEW list \in Seq(FusedRow)
  PROVE  /\ ByFusion(list) \in Seq(FusedRow) /\ Len(ByFusion(list)) = Len(list)
         /\ Distinct(list) => Distinct(ByFusion(list))
         /\ \A c : In(list, c) => In(ByFusion(list), c)
<1> DEFINE n == Len(list)
           above == {p \in Pairs(DOMAIN list) : Higher(list[p[1]].rrf, list[p[2]].rrf)}
           out == ByFusion(list)
<1>1. n \in Nat /\ DOMAIN list = 1..n /\ \A i \in 1..n : list[i] \in FusedRow
  OBVIOUS
<1>2. \A i, j \in 1..n : <<i, j>> \in above <=> Higher(list[i].rrf, list[j].rrf)
  BY <1>1 DEF Pairs
<1>3. \A i \in 1..n : list[i].rrf \in Scores
  BY <1>1 DEF FusedRow
<1>4. out = Sorted(list, above)
  BY DEF ByFusion
<1> HIDE DEF above, n, out
<1>5. Weak(1..n, above)
  <2>1. \A x, y \in 1..n : ~(<<x, y>> \in above /\ <<y, x>> \in above)
    BY <1>2, <1>3, HigherIsWeak
  <2>2. \A x, y, z \in 1..n : <<x, z>> \in above => <<x, y>> \in above \/ <<y, z>> \in above
    BY <1>2, <1>3, HigherIsWeak
  <2> QED BY <2>1, <2>2 DEF Weak
<1>6. /\ out \in Seq(FusedRow) /\ Len(out) = n
      /\ \E order \in [1..n -> 1..n] :
              /\ out = [k \in 1..n |-> list[order[k]]]
              /\ \A i \in 1..n : \E k \in 1..n : order[k] = i
              /\ \A i, j \in 1..n : i < j => order[i] # order[j] /\ <<order[j], order[i]>> \notin above
  BY <1>4, <1>5, SortedOf DEF n
<1>7. PICK order \in [1..n -> 1..n] :
              /\ out = [k \in 1..n |-> list[order[k]]]
              /\ \A i \in 1..n : \E k \in 1..n : order[k] = i
              /\ \A i, j \in 1..n : i < j => order[i] # order[j] /\ <<order[j], order[i]>> \notin above
  BY <1>6
<1>8. DOMAIN out = 1..n /\ \A k \in 1..n : out[k] = list[order[k]] /\ order[k] \in 1..n
  BY <1>7
<1>9. \A i, j \in 1..n : order[i] = order[j] => i = j
  <2> SUFFICES ASSUME NEW i \in 1..n, NEW j \in 1..n, i # j PROVE order[i] # order[j]
    OBVIOUS
  <2>1. i < j \/ j < i
    BY <1>1
  <2> QED BY <1>7, <2>1
<1>10. Distinct(list) => Distinct(out)
  <2> SUFFICES ASSUME Distinct(list), NEW i \in 1..n, NEW j \in 1..n, out[i].chunk = out[j].chunk
               PROVE  i = j
    BY <1>8 DEF Distinct
  <2>1. order[i] \in DOMAIN list /\ order[j] \in DOMAIN list /\ list[order[i]].chunk = list[order[j]].chunk
    BY <1>1, <1>8
  <2>2. order[i] = order[j]
    BY <2>1 DEF Distinct
  <2> QED BY <1>9, <2>2
<1>11. ASSUME NEW c, In(list, c) PROVE In(out, c)
  <2>1. PICK i \in 1..n : list[i].chunk = c
    BY <1>1, <1>11 DEF In
  <2>2. PICK k \in 1..n : order[k] = i
    BY <1>7
  <2> QED BY <1>8, <2>1, <2>2 DEF In
<1> QED BY <1>6, <1>10, <1>11 DEF n, out

LEMMA RankOf ==
  ASSUME NEW list \in Seq(Chunks), NEW c
  PROVE  /\ RankIn(list, c) \in Nat
         /\ RankIn(list, c) = 0 <=> \A i \in DOMAIN list : list[i] # c
<1>1. DOMAIN list \in SUBSET (Nat \ {0})
  OBVIOUS
<1>2. CASE \E i \in DOMAIN list : list[i] = c
  <2>1. RankIn(list, c) \in DOMAIN list
    BY <1>2 DEF RankIn
  <2> QED BY <1>1, <1>2, <2>1
<1>3. CASE ~ \E i \in DOMAIN list : list[i] = c
  BY <1>3 DEF RankIn
<1> QED BY <1>2, <1>3

LEMMA ScoreType ==
  ASSUME NEW d \in Nat, NEW s \in Nat, d # 0 \/ s # 0
  PROVE  Score(d, s) \in Scores
<1>1. K \in Nat
  BY FusionAssumption
<1>2. CASE d = 0 \/ s = 0
  BY <1>1, <1>2 DEF Score, Scores
<1>3. CASE d # 0 /\ s # 0
  <2>1. d + K \in Nat \ {0} /\ s + K \in Nat \ {0}
    BY <1>1, <1>3
  <2>2. (d + K) * (s + K) \in Nat \ {0}
    <3> DEFINE x == d + K
               y == s + K
    <3>1. x \in Nat \ {0} /\ y \in Nat \ {0}
      BY <2>1
    <3> HIDE DEF x, y
    <3>2. x * y \in Nat /\ x * y # 0
      BY <3>1
    <3> QED BY <3>2 DEF x, y
  <2>3. d + s + 2 * K \in Nat
    BY <1>1
  <2>4. Score(d, s) = [num |-> d + s + 2 * K, den |-> (d + K) * (s + K)]
    BY <1>3 DEF Score
  <2> QED BY <2>2, <2>3, <2>4 DEF Scores
<1> QED BY <1>2, <1>3

(* The fusion of two lists has each of their chunks, and once.                  *)
LEMMA FuseOf ==
  ASSUME NEW dense \in Seq(Chunks), NEW sparse \in Seq(Chunks), Once(dense), Once(sparse)
  PROVE  /\ Fuse(dense, sparse) \in Seq(FusedRow)
         /\ Distinct(Fuse(dense, sparse))
         /\ \A c \in Range(dense) \cup Range(sparse) : In(Fuse(dense, sparse), c)
<1> DEFINE P == {i \in DOMAIN sparse : RankIn(dense, sparse[i]) = 0}
           kept1 == Keep(sparse, P)
           at == Ascending(P)
           m == Cardinality(P)
           n == Len(dense)
           all == dense \o kept1
           scores1 == [i \in DOMAIN all |-> Score(RankIn(dense, all[i]), RankIn(sparse, all[i]))]
           fused == [i \in DOMAIN all |-> [chunk |-> all[i], rrf |-> scores1[i]]]
<1>1. P \in SUBSET DOMAIN sparse
  OBVIOUS
<1>2. /\ kept1 \in Seq(Chunks) /\ Len(kept1) = m /\ m \in Nat
      /\ at \in [1..m -> P]
      /\ kept1 = [k \in 1..m |-> sparse[at[k]]]
      /\ \A i \in P : \E k \in 1..m : at[k] = i
      /\ \A i, j \in 1..m : i < j => at[i] < at[j]
  <2> HIDE DEF P
  <2>1. /\ Keep(sparse, P) \in Seq(Chunks) /\ Len(Keep(sparse, P)) = Cardinality(P) /\ Cardinality(P) \in 0..Len(sparse)
        /\ Ascending(P) \in [1..Cardinality(P) -> P]
        /\ Keep(sparse, P) = [k \in 1..Cardinality(P) |-> sparse[Ascending(P)[k]]]
        /\ \A i \in P : \E k \in 1..Cardinality(P) : Ascending(P)[k] = i
        /\ \A i, j \in 1..Cardinality(P) : i < j => Ascending(P)[i] < Ascending(P)[j]
    BY <1>1, KeepOf
  <2>2. Cardinality(P) \in Nat
    BY <2>1
  <2> QED BY <2>1, <2>2
<1>3. n \in Nat /\ DOMAIN dense = 1..n /\ DOMAIN sparse \in SUBSET Nat
  OBVIOUS
<1>4. Fuse(dense, sparse) = ByFusion(fused)
  BY DEF Fuse
<1>5. \A i \in P : sparse[i] \in Chunks /\ \A k \in 1..n : dense[k] # sparse[i]
  BY <1>3, RankOf
<1>6. \A i \in DOMAIN sparse : i \notin P => \E k \in 1..n : dense[k] = sparse[i]
  BY <1>3, RankOf
<1> HIDE DEF P, kept1, at, m, n
<1>7. all \in Seq(Chunks) /\ DOMAIN all = 1..(n + m) /\ \A i \in 1..(n + m) : all[i] \in Chunks
  <2>1. kept1 \in Seq(Chunks) /\ dense \in Seq(Chunks) /\ Len(kept1) = m /\ Len(dense) = n
    BY <1>2 DEF n
  <2>2. all \in Seq(Chunks) /\ Len(all) = n + m
    BY <2>1
  <2> HIDE DEF all
  <2> QED BY <2>2
<1>8. \A i \in 1..n : all[i] = dense[i]
  BY <1>2, <1>3 DEF n
<1>9. \A k \in 1..m : all[n + k] = kept1[k] /\ n + k \in 1..(n + m)
  BY <1>2, <1>3 DEF n
<1>10. \A k \in 1..m : kept1[k] = sparse[at[k]] /\ at[k] \in P
  BY <1>2
<1> HIDE DEF all
<1>11. \A i \in 1..(n + m) : i \in 1..n \/ \E k \in 1..m : i = n + k
  <2> SUFFICES ASSUME NEW i \in 1..(n + m), ~(i \in 1..n) PROVE \E k \in 1..m : i = n + k
    OBVIOUS
  <2>1. i - n \in 1..m /\ i = n + (i - n)
    BY <1>2, <1>3
  <2> QED BY <2>1
<1>12. \A i, j \in 1..m : at[i] = at[j] => i = j
  <2> SUFFICES ASSUME NEW i \in 1..m, NEW j \in 1..m, i # j PROVE at[i] # at[j]
    OBVIOUS
  <2>1. (i < j \/ j < i) /\ at[i] \in Nat /\ at[j] \in Nat
    BY <1>1, <1>2, <1>3
  <2> QED BY <1>2, <2>1
<1>13. \A i, j \in 1..n : dense[i] = dense[j] => i = j
  BY <1>3 DEF Once
<1>14. \A i, j \in 1..m : kept1[i] = kept1[j] => i = j
  <2> SUFFICES ASSUME NEW i \in 1..m, NEW j \in 1..m, kept1[i] = kept1[j] PROVE i = j
    OBVIOUS
  <2>1. at[i] \in DOMAIN sparse /\ at[j] \in DOMAIN sparse /\ sparse[at[i]] = sparse[at[j]]
    BY <1>1, <1>10
  <2>2. at[i] = at[j]
    BY <2>1 DEF Once
  <2> QED BY <1>12, <2>2
<1>15. \A i, j \in 1..(n + m) : all[i] = all[j] => i = j
  <2> SUFFICES ASSUME NEW i \in 1..(n + m), NEW j \in 1..(n + m), all[i] = all[j] PROVE i = j
    OBVIOUS
  <2>1. CASE i \in 1..n /\ j \in 1..n
    BY <1>8, <1>13, <2>1
  <2>2. CASE i \in 1..n /\ j \notin 1..n
    <3>1. PICK k \in 1..m : j = n + k
      BY <1>11, <2>2
    <3> QED BY <1>5, <1>8, <1>9, <1>10, <2>2, <3>1
  <2>3. CASE i \notin 1..n /\ j \in 1..n
    <3>1. PICK k \in 1..m : i = n + k
      BY <1>11, <2>3
    <3> QED BY <1>5, <1>8, <1>9, <1>10, <2>3, <3>1
  <2>4. CASE i \notin 1..n /\ j \notin 1..n
    <3>1. PICK k \in 1..m : i = n + k
      BY <1>11, <2>4
    <3>2. PICK l \in 1..m : j = n + l
      BY <1>11, <2>4
    <3>3. kept1[k] = kept1[l]
      BY <1>9, <3>1, <3>2
    <3> QED BY <1>14, <3>1, <3>2, <3>3
  <2> QED BY <2>1, <2>2, <2>3, <2>4
<1>16. \A c \in Range(dense) \cup Range(sparse) : \E i \in 1..(n + m) : all[i] = c
  <2>1. ASSUME NEW i \in 1..n PROVE \E j \in 1..(n + m) : all[j] = dense[i]
    <3>1. i \in 1..(n + m)
      BY <1>2, <1>3
    <3> QED BY <1>8, <3>1
  <2>2. ASSUME NEW i \in DOMAIN sparse PROVE \E j \in 1..(n + m) : all[j] = sparse[i]
    <3>1. CASE i \in P
      <4>1. PICK k \in 1..m : at[k] = i
        BY <1>2, <3>1
      <4> QED BY <1>9, <1>10, <4>1
    <3>2. CASE i \notin P
      BY <1>6, <2>1, <3>2
    <3> QED BY <3>1, <3>2
  <2> QED BY <1>3, <2>1, <2>2 DEF Range
<1>17. \A i \in 1..(n + m) : (\E j \in DOMAIN dense : dense[j] = all[i]) \/ (\E j \in DOMAIN sparse : sparse[j] = all[i])
  <2> TAKE i \in 1..(n + m)
  <2>1. CASE i \in 1..n
    BY <1>3, <1>8, <2>1
  <2>2. CASE i \notin 1..n
    <3>1. PICK k \in 1..m : i = n + k
      BY <1>11, <2>2
    <3>2. all[i] = sparse[at[k]] /\ at[k] \in DOMAIN sparse
      BY <1>1, <1>9, <1>10, <3>1
    <3> QED BY <3>2
  <2> QED BY <2>1, <2>2
<1>18. \A i \in 1..(n + m) : Score(RankIn(dense, all[i]), RankIn(sparse, all[i])) \in Scores
  <2> TAKE i \in 1..(n + m)
  <2>1. RankIn(dense, all[i]) \in Nat /\ RankIn(sparse, all[i]) \in Nat
    BY RankOf
  <2>2. RankIn(dense, all[i]) # 0 \/ RankIn(sparse, all[i]) # 0
    BY <1>17, RankOf
  <2> QED BY <2>1, <2>2, ScoreType
<1>19. fused = [i \in 1..(n + m) |-> [chunk |-> all[i], rrf |-> scores1[i]]] /\ \A i \in 1..(n + m) : scores1[i] \in Scores
  BY <1>7, <1>18
<1>20. n + m \in Nat
  BY <1>2, <1>3
<1> HIDE DEF scores1, fused
<1>21. \A i \in 1..(n + m) : [chunk |-> all[i], rrf |-> scores1[i]] \in FusedRow
  BY <1>7, <1>19 DEF FusedRow
<1>22. fused \in Seq(FusedRow) /\ DOMAIN fused = 1..(n + m)
  BY <1>19, <1>20, <1>21
<1>23. Distinct(fused)
  BY <1>15, <1>19, <1>22 DEF Distinct
<1>24. \A c \in Range(dense) \cup Range(sparse) : In(fused, c)
  BY <1>16, <1>19, <1>22 DEF In
<1> QED BY <1>4, <1>22, <1>23, <1>24, ByFusionOf

(* A filter of a list leaves its rows, each once where the list has each once.  *)
LEMMA KeepOnce ==
  ASSUME NEW T, NEW list \in Seq(T), NEW P \in SUBSET DOMAIN list
  PROVE  /\ Keep(list, P) \in Seq(T)
         /\ \A k \in DOMAIN Keep(list, P) : \E i \in P : Keep(list, P)[k] = list[i]
         /\ \A i \in P : \E k \in DOMAIN Keep(list, P) : Keep(list, P)[k] = list[i]
         /\ Once(list) => Once(Keep(list, P))
         /\ Distinct(list) => Distinct(Keep(list, P))
<1> DEFINE at == Ascending(P)
           m == Cardinality(P)
           out == Keep(list, P)
<1>1. /\ out \in Seq(T) /\ at \in [1..m -> P]
      /\ out = [k \in 1..m |-> list[at[k]]]
      /\ \A i \in P : \E k \in 1..m : at[k] = i
      /\ \A i, j \in 1..m : i < j => at[i] < at[j]
  BY KeepOf
<1>2. m \in 0..Len(list) /\ Len(list) \in Nat
  BY KeepOf
<1> HIDE DEF at, m, out
<1>3. m \in Nat /\ P \in SUBSET Nat
  BY <1>2
<1>4. DOMAIN out = 1..m /\ \A k \in 1..m : out[k] = list[at[k]] /\ at[k] \in P
  BY <1>1
<1>5. ASSUME NEW i \in 1..m, NEW j \in 1..m, at[i] = at[j] PROVE i = j
  <2>1. at[i] \in Nat /\ at[j] \in Nat
    BY <1>3, <1>4
  <2>2. ~(i < j) /\ ~(j < i)
    BY <1>1, <1>5, <2>1
  <2> QED BY <1>3, <2>2
<1>6. Once(list) => Once(out)
  BY <1>4, <1>5 DEF Once
<1>7. Distinct(list) => Distinct(out)
  BY <1>4, <1>5 DEF Distinct
<1>8. ASSUME NEW i \in P PROVE \E k \in DOMAIN out : out[k] = list[i]
  <2>1. PICK k \in 1..m : at[k] = i
    BY <1>1
  <2> QED BY <1>4, <2>1
<1>9. \A k \in DOMAIN out : \E i \in P : out[k] = list[i]
  BY <1>4
<1> QED BY <1>1, <1>6, <1>7, <1>8, <1>9 DEF out

LEMMA KeepRows ==
  ASSUME NEW list \in Seq(FusedRow), NEW P \in SUBSET DOMAIN list
  PROVE  /\ Keep(list, P) \in Seq(FusedRow)
         /\ Distinct(list) => Distinct(Keep(list, P))
         /\ \A i \in P : In(Keep(list, P), list[i].chunk)
<1>1. /\ Keep(list, P) \in Seq(FusedRow)
      /\ \A i \in P : \E k \in DOMAIN Keep(list, P) : Keep(list, P)[k] = list[i]
      /\ Distinct(list) => Distinct(Keep(list, P))
  BY KeepOnce
<1>2. \A i \in P : In(Keep(list, P), list[i].chunk)
  BY <1>1 DEF In
<1> QED BY <1>1, <1>2

LEMMA FirstRows ==
  ASSUME NEW list \in Seq(FusedRow), NEW n \in Nat
  PROVE  /\ First(n, list) \in Seq(FusedRow)
         /\ Distinct(list) => Distinct(First(n, list))
         /\ \A c : In(list, c) => In(First(n, list), c) \/ Len(First(n, list)) = n
<1> DEFINE m == Smaller(n, Len(list))
           out == First(n, list)
<1>1. /\ out \in Seq(FusedRow) /\ Len(out) = m /\ m \in 0..Len(list) /\ \A i \in 1..m : out[i] = list[i]
  BY FirstOf
<1>2. Len(list) \in Nat /\ DOMAIN list = 1..Len(list)
  OBVIOUS
<1>3. m = IF n < Len(list) THEN n ELSE Len(list)
  BY DEF Smaller
<1> HIDE DEF m, out
<1>4. DOMAIN out = 1..m /\ 1..m \subseteq DOMAIN list
  BY <1>1, <1>2
<1>5. Distinct(list) => Distinct(out)
  BY <1>1, <1>4 DEF Distinct
<1>6. ASSUME NEW c, In(list, c), ~(Len(out) = n) PROVE In(out, c)
  <2>1. m = Len(list)
    BY <1>1, <1>3, <1>6
  <2> QED BY <1>1, <1>2, <1>4, <1>6, <2>1 DEF In
<1> QED BY <1>1, <1>5, <1>6 DEF out

(* What a sub-query returns has each chunk once, and each that is live of both  *)
(* lists, unless it fills the smallest budget.                                  *)
LEMMA FilterThenCutOf ==
  ASSUME NEW dense \in Seq(Chunks), NEW sparse \in Seq(Chunks), Once(dense), Once(sparse)
  PROVE  /\ FilterThenCut(dense, sparse) \in Seq(FusedRow)
         /\ Distinct(FilterThenCut(dense, sparse))
         /\ \A c \in (Range(dense) \cup Range(sparse)) \cap Live :
              \/ In(FilterThenCut(dense, sparse), c)
              \/ Len(FilterThenCut(dense, sparse)) >= Smaller(Window, FusionTopK)
<1> DEFINE fused == Fuse(dense, sparse)
           P == {i \in DOMAIN fused : fused[i].chunk \in Live}
           served == Keep(fused, P)
           b == Budget(served)
           out == First(b, served)
<1>1. /\ fused \in Seq(FusedRow) /\ Distinct(fused)
      /\ \A c \in Range(dense) \cup Range(sparse) : In(fused, c)
  BY FuseOf
<1>2. FilterThenCut(dense, sparse) = out
  BY DEF FilterThenCut, Served
<1>3. b \in Nat /\ b >= Smaller(Window, FusionTopK)
  <2>1. Window \in Nat /\ FusionTopK \in Nat
    BY FusionAssumption, RoundAssumption
  <2>2. b = FusionTopK \/ b = Smaller(Window, FusionTopK)
    BY DEF Budget
  <2> QED BY <2>1, <2>2 DEF Smaller
<1>4. P \in SUBSET DOMAIN fused /\ \A i \in DOMAIN fused : i \in P <=> fused[i].chunk \in Live
  OBVIOUS
<1> HIDE DEF fused, P
<1>5. /\ served \in Seq(FusedRow) /\ Distinct(served)
      /\ \A i \in P : In(served, fused[i].chunk)
  BY <1>1, <1>4, KeepRows
<1> HIDE DEF served, b
<1>6. /\ out \in Seq(FusedRow) /\ Distinct(out)
      /\ \A c : In(served, c) => In(out, c) \/ Len(out) = b
  BY <1>3, <1>5, FirstRows
<1>7. ASSUME NEW c \in (Range(dense) \cup Range(sparse)) \cap Live
      PROVE  In(out, c) \/ Len(out) >= Smaller(Window, FusionTopK)
  <2>1. PICK i \in DOMAIN fused : fused[i].chunk = c
    BY <1>1 DEF In
  <2>2. In(served, c)
    BY <1>4, <1>5, <2>1
  <2> HIDE DEF out
  <2> QED BY <1>3, <1>6, <2>2
<1> QED BY <1>2, <1>6, <1>7

-----------------------------------------------------------------------------
(* The merge of the lists of several sub-queries.                               *)

LEMMA PlacesOf ==
  ASSUME NEW n \in Nat, NEW lists \in [1..n -> Seq(FusedRow)]
  PROVE  /\ IsFiniteSet(Places(lists))
         /\ \A p \in Places(lists) : /\ p = <<p[1], p[2]>> /\ p[1] \in 1..n /\ p[2] \in DOMAIN lists[p[1]]
                                     /\ p[1] \in Nat /\ p[2] \in Nat /\ Row(lists, p) \in FusedRow
         /\ \A s \in 1..n : \A i \in DOMAIN lists[s] : <<s, i>> \in Places(lists)
<1> DEFINE block == [s \in 1..n |-> {s} \X (DOMAIN lists[s])]
           blocks == {block[s] : s \in 1..n}
<1>1. Places(lists) = UNION blocks
  BY DEF Places
<1>2. \A s \in 1..n : DOMAIN lists[s] = 1..Len(lists[s]) /\ Len(lists[s]) \in Nat
  OBVIOUS
<1>3. \A s \in 1..n : IsFiniteSet(block[s])
  <2> TAKE s \in 1..n
  <2> DEFINE m == Len(lists[s])
  <2>1. m \in Nat /\ DOMAIN lists[s] = 1..m
    BY <1>2
  <2> HIDE DEF m
  <2>2. IsFiniteSet(1..m)
    BY <2>1, FS_Interval
  <2>3. IsFiniteSet({s})
    BY FS_Singleton
  <2>4. IsFiniteSet({s} \X (1..m))
    BY <2>2, <2>3, FS_Product
  <2> QED BY <2>1, <2>4
<1>4. block \in Surjection(1..n, blocks)
  BY DEF Surjection
<1>5. IsFiniteSet(1..n)
  BY FS_Interval
<1>6. IsFiniteSet(blocks)
  <2> HIDE DEF block, blocks
  <2> QED BY <1>4, <1>5, FS_Surjection
<1>7. \A T \in blocks : IsFiniteSet(T)
  BY <1>3
<1>8. IsFiniteSet(UNION blocks)
  <2> HIDE DEF block, blocks
  <2> QED BY <1>6, <1>7, FS_UNION
<1>9. ASSUME NEW p \in Places(lists)
      PROVE  /\ p = <<p[1], p[2]>> /\ p[1] \in 1..n /\ p[2] \in DOMAIN lists[p[1]]
             /\ p[1] \in Nat /\ p[2] \in Nat /\ Row(lists, p) \in FusedRow
  <2>1. PICK s \in 1..n : p \in {s} \X (DOMAIN lists[s])
    BY DEF Places
  <2>2. p = <<p[1], p[2]>> /\ p[1] = s /\ p[2] \in DOMAIN lists[s]
    BY <2>1
  <2>3. lists[s] \in Seq(FusedRow)
    OBVIOUS
  <2>4. lists[s][p[2]] \in FusedRow /\ p[2] \in Nat /\ p[1] \in Nat
    BY <2>2, <2>3
  <2> QED BY <2>2, <2>4 DEF Row
<1>10. \A s \in 1..n : \A i \in DOMAIN lists[s] : <<s, i>> \in Places(lists)
  BY DEF Places
<1> QED BY <1>1, <1>8, <1>9, <1>10

LEMMA EarlierOrder ==
  ASSUME NEW S, \A p \in S : p = <<p[1], p[2]>> /\ p[1] \in Nat /\ p[2] \in Nat
  PROVE  /\ Ordered(S, {p \in Pairs(S) : Earlier(p[1], p[2])})
         /\ \A p, q \in S : <<p, q>> \in {r \in Pairs(S) : Earlier(r[1], r[2])} <=> Earlier(p, q)
<1> DEFINE R == {p \in Pairs(S) : Earlier(p[1], p[2])}
<1>1. \A p, q \in S : <<p, q>> \in R <=> Earlier(p, q)
  BY DEF Pairs
<1> HIDE DEF R
<1>2. \A p \in S : ~Earlier(p, p)
  BY DEF Earlier
<1>3. \A p, q \in S : p # q => Earlier(p, q) \/ Earlier(q, p)
  <2> SUFFICES ASSUME NEW p \in S, NEW q \in S, ~Earlier(p, q), ~Earlier(q, p) PROVE p = q
    OBVIOUS
  <2>1. p[1] = q[1] /\ p[2] = q[2]
    BY DEF Earlier
  <2> QED BY <2>1
<1>4. \A p, q, r \in S : Earlier(p, q) /\ Earlier(q, r) => Earlier(p, r)
  BY DEF Earlier
<1>5. Ordered(S, R)
  BY <1>1, <1>2, <1>3, <1>4 DEF Ordered
<1> QED BY <1>1, <1>5 DEF R

(* Of the places of a chunk one is first, and one has the best score.           *)
LEMMA FirstAndBest ==
  ASSUME NEW n \in Nat, NEW lists \in [1..n -> Seq(FusedRow)], NEW p \in Places(lists)
  PROVE  /\ \E q \in Firsts(lists) : Row(lists, q).chunk = Row(lists, p).chunk
         /\ Best(lists, p) \in Places(lists) /\ Row(lists, Best(lists, p)).chunk = Row(lists, p).chunk
<1> DEFINE S == Same(lists, p)
           R == {q \in Pairs(S) : Earlier(q[1], q[2])}
           above == {q \in Pairs(S) : Higher(Row(lists, q[1]).rrf, Row(lists, q[2]).rrf)}
           tied == {q \in Pairs(S) : q \in above \/ (<<q[2], q[1]>> \notin above /\ q \in R)}
<1>1. \A q : q \in S <=> q \in Places(lists) /\ Row(lists, q).chunk = Row(lists, p).chunk
  BY DEF Same
<1>2. p \in S /\ S \subseteq Places(lists)
  BY <1>1
<1>3. IsFiniteSet(S)
  <2>1. IsFiniteSet(Places(lists)) /\ S \in SUBSET Places(lists)
    BY <1>2, PlacesOf
  <2> HIDE DEF S
  <2> QED BY <2>1, FS_Subset
<1>4. \A q \in S : q = <<q[1], q[2]>> /\ q[1] \in Nat /\ q[2] \in Nat /\ Row(lists, q).rrf \in Scores
  BY <1>2, PlacesOf DEF FusedRow
<1>5. \A q, r \in S : <<q, r>> \in above <=> Higher(Row(lists, q).rrf, Row(lists, r).rrf)
  BY DEF Pairs
<1>6. \A q, r \in S : <<q, r>> \in tied <=> <<q, r>> \in above \/ (<<r, q>> \notin above /\ <<q, r>> \in R)
  BY DEF Pairs
<1> HIDE DEF S
<1>7. Ordered(S, R) /\ \A q, r \in S : <<q, r>> \in R <=> Earlier(q, r)
  BY <1>4, EarlierOrder
<1> HIDE DEF R, above
<1>8. Weak(S, above)
  <2>1. \A x, y \in S : ~(<<x, y>> \in above /\ <<y, x>> \in above)
    BY <1>4, <1>5, HigherIsWeak
  <2>2. \A x, y, z \in S : <<x, z>> \in above => <<x, y>> \in above \/ <<y, z>> \in above
    BY <1>4, <1>5, HigherIsWeak
  <2> QED BY <2>1, <2>2 DEF Weak
<1>9. Ordered(S, tied)
  BY <1>7, <1>8, TiesInOrder
<1> HIDE DEF tied
<1>10. \E q \in Firsts(lists) : Row(lists, q).chunk = Row(lists, p).chunk
  <2>1. \E x \in S : \A y \in S : y # x => <<x, y>> \in R
    BY <1>2, <1>3, <1>7, LeastExists
  <2>2. PICK q \in S : \A r \in S : r # q => <<q, r>> \in R
    BY <2>1
  <2>3. \A r \in S : <<r, q>> \notin R
    BY <1>7, <2>2 DEF Ordered
  <2>4. \A r \in S : ~Earlier(r, q)
    BY <1>7, <2>3
  <2>5. \A r \in Same(lists, q) : r \in S
    BY <1>1 DEF Same
  <2> QED BY <1>1, <2>4, <2>5 DEF Firsts
<1>11. \E x \in S : \A y \in S : y # x => <<x, y>> \in tied
  BY <1>2, <1>3, <1>9, LeastExists
<1>12. PICK q \in S : \A r \in S : r # q => <<q, r>> \in tied
  BY <1>11
<1>13. \A r \in S : /\ ~Higher(Row(lists, r).rrf, Row(lists, q).rrf)
                    /\ Earlier(r, q) => Higher(Row(lists, q).rrf, Row(lists, r).rrf)
  <2> TAKE r \in S
  <2>1. CASE r = q
    <3>1. <<q, q>> \notin above /\ <<q, q>> \notin R
      BY <1>7, <1>8 DEF Weak, Ordered
    <3> QED BY <1>5, <1>7, <2>1, <3>1
  <2>2. CASE r # q
    <3>1. <<q, r>> \in above \/ (<<r, q>> \notin above /\ <<q, r>> \in R)
      BY <1>6, <1>12, <2>2
    <3>2. <<q, r>> \in above => <<r, q>> \notin above
      BY <1>8 DEF Weak
    <3>3. <<q, r>> \in R => <<r, q>> \notin R
      BY <1>7 DEF Ordered
    <3> QED BY <1>5, <1>7, <3>1, <3>2, <3>3
  <2> QED BY <2>1, <2>2
<1>14. Best(lists, p) \in S
  BY <1>13 DEF Best, S
<1> QED BY <1>1, <1>10, <1>14

(* The merge has each chunk of the lists, and once: it is no shorter than any   *)
(* of them.                                                                     *)
LEMMA MergeOf ==
  ASSUME NEW n \in Nat, NEW lists \in [1..n -> Seq(FusedRow)]
  PROVE  /\ MergeFanout(lists) \in Seq(FusedRow) /\ Distinct(MergeFanout(lists))
         /\ \A s \in 1..n : \A c : In(lists[s], c) => In(MergeFanout(lists), c)
         /\ \A s \in 1..n : Distinct(lists[s]) => Len(MergeFanout(lists)) >= Len(lists[s])
<1> DEFINE F == Firsts(lists)
           R == {p \in Pairs(F) : Earlier(p[1], p[2])}
           order == Listed(F, R)
           m == Cardinality(F)
           best == [p \in F |-> Row(lists, Best(lists, p))]
           merged == [k \in 1..m |-> best[order[k]]]
<1>1. /\ IsFiniteSet(Places(lists))
      /\ \A p \in Places(lists) : /\ p = <<p[1], p[2]>> /\ p[1] \in 1..n /\ p[2] \in DOMAIN lists[p[1]]
                                  /\ p[1] \in Nat /\ p[2] \in Nat /\ Row(lists, p) \in FusedRow
      /\ \A s \in 1..n : \A i \in DOMAIN lists[s] : <<s, i>> \in Places(lists)
  BY PlacesOf
<1>2. F \in SUBSET Places(lists)
  BY DEF Firsts
<1>3. \A p, q \in F : Row(lists, p).chunk = Row(lists, q).chunk => ~Earlier(p, q) /\ ~Earlier(q, p)
  BY DEF Firsts, Same
<1>4. \A p \in Places(lists) : \E q \in F : Row(lists, q).chunk = Row(lists, p).chunk
  BY FirstAndBest
<1>5. \A p \in F : best[p] \in FusedRow /\ best[p].chunk = Row(lists, p).chunk
  <2> TAKE p \in F
  <2>1. p \in Places(lists)
    BY <1>2
  <2>2. Best(lists, p) \in Places(lists) /\ Row(lists, Best(lists, p)).chunk = Row(lists, p).chunk
    BY <2>1, FirstAndBest
  <2> QED BY <1>1, <2>2
<1>6. MergeFanout(lists) = ByFusion([k \in DOMAIN order |-> Row(lists, Best(lists, order[k]))])
  BY DEF MergeFanout
<1> HIDE DEF F
<1>7. IsFiniteSet(F)
  BY <1>1, <1>2, FS_Subset
<1>8. Ordered(F, R) /\ \A p, q \in F : <<p, q>> \in R <=> Earlier(p, q)
  BY <1>1, <1>2, EarlierOrder
<1> HIDE DEF R
<1>9. /\ m \in Nat /\ order \in [1..m -> F]
      /\ \A p \in F : \E k \in 1..m : order[k] = p
      /\ \A i, j \in 1..m : i < j => <<order[i], order[j]>> \in R
  BY <1>7, <1>8, ListedOnce
<1> HIDE DEF order, m
<1>10. [k \in DOMAIN order |-> Row(lists, Best(lists, order[k]))] = merged
  BY <1>9
<1>11. merged \in Seq(FusedRow) /\ Len(merged) = m /\ DOMAIN merged = 1..m
  <2>1. \A k \in 1..m : best[order[k]] \in FusedRow
    BY <1>5, <1>9
  <2> HIDE DEF best
  <2> QED BY <1>9, <2>1
<1>12. \A k \in 1..m : merged[k].chunk = Row(lists, order[k]).chunk
  BY <1>5, <1>9
<1> HIDE DEF merged, best
<1>13. \A p, q \in F : Row(lists, p).chunk = Row(lists, q).chunk => p = q
  BY <1>3, <1>8 DEF Ordered
<1>14. \A i, j \in 1..m : i # j => order[i] # order[j]
  <2> SUFFICES ASSUME NEW i \in 1..m, NEW j \in 1..m, i # j PROVE order[i] # order[j]
    OBVIOUS
  <2>1. i < j \/ j < i
    BY <1>9
  <2>2. <<order[i], order[j]>> \in R \/ <<order[j], order[i]>> \in R
    BY <1>9, <2>1
  <2>3. order[i] \in F /\ order[j] \in F
    BY <1>9
  <2> QED BY <1>8, <2>2, <2>3 DEF Ordered
<1>15. Distinct(merged)
  <2> SUFFICES ASSUME NEW i \in 1..m, NEW j \in 1..m, merged[i].chunk = merged[j].chunk PROVE i = j
    BY <1>11 DEF Distinct
  <2>1. order[i] \in F /\ order[j] \in F
    BY <1>9
  <2>2. order[i] = order[j]
    BY <1>12, <1>13, <2>1
  <2> QED BY <1>14, <2>2
<1>16. \A s \in 1..n : \A i \in DOMAIN lists[s] : \E p \in F : Row(lists, p).chunk = lists[s][i].chunk
  <2> TAKE s \in 1..n
  <2> TAKE i \in DOMAIN lists[s]
  <2>1. <<s, i>> \in Places(lists) /\ Row(lists, <<s, i>>) = lists[s][i]
    BY <1>1 DEF Row
  <2> QED BY <1>4, <2>1
<1>17. ASSUME NEW s \in 1..n, NEW c, In(lists[s], c) PROVE In(merged, c)
  <2>1. PICK i \in DOMAIN lists[s] : lists[s][i].chunk = c
    BY <1>17 DEF In
  <2>2. PICK p \in F : Row(lists, p).chunk = c
    BY <1>16, <2>1
  <2>3. PICK k \in 1..m : order[k] = p
    BY <1>9
  <2> QED BY <1>11, <1>12, <2>2, <2>3 DEF In
<1>18. ASSUME NEW s \in 1..n, Distinct(lists[s]) PROVE Len(lists[s]) <= m
  <2> DEFINE l == Len(lists[s])
             first == [i \in 1..l |-> CHOOSE p \in F : Row(lists, p).chunk = lists[s][i].chunk]
  <2>1. l \in Nat /\ DOMAIN lists[s] = 1..l
    OBVIOUS
  <2>2. \A i \in 1..l : first[i] \in F /\ Row(lists, first[i]).chunk = lists[s][i].chunk
    BY <1>16, <2>1
  <2>3. first \in [1..l -> F]
    BY <2>2
  <2> HIDE DEF l, first
  <2>4. \A i, j \in 1..l : first[i] = first[j] => i = j
    BY <1>18, <2>1, <2>2 DEF Distinct
  <2>5. first \in Injection(1..l, F)
    BY <2>3, <2>4 DEF Injection, IsInjective
  <2>6. Cardinality(1..l) <= Cardinality(F)
    BY <1>7, <2>5, FS_Injection
  <2>7. Cardinality(1..l) = l
    BY <2>1, FS_Interval
  <2> QED BY <2>6, <2>7 DEF l, m
<1>19. /\ MergeFanout(lists) \in Seq(FusedRow) /\ Len(MergeFanout(lists)) = m
       /\ Distinct(MergeFanout(lists))
       /\ \A c : In(merged, c) => In(MergeFanout(lists), c)
  BY <1>6, <1>10, <1>11, <1>15, ByFusionOf
<1>20. \A s \in 1..n : Len(lists[s]) \in Nat
  OBVIOUS
<1> QED BY <1>9, <1>17, <1>18, <1>19, <1>20

-----------------------------------------------------------------------------
(* The cache of scores.                                                         *)

Entry == [chunk : Chunks, score : Int]
True(list) == \A i \in DOMAIN list : list[i].score = Relevance[list[i].chunk]
Good(list) == list \in Seq(Entry) /\ Distinct(list) /\ True(list)

LEMMA CachedIn ==
  ASSUME NEW list, NEW c
  PROVE  c \in Cached(list) <=> In(list, c)
  BY DEF Cached, In, Range

(* A cache has as many chunks as entries.                                       *)
LEMMA CachedSize ==
  ASSUME NEW list, Good(list)
  PROVE  Len(list) \in Nat /\ IsFiniteSet(Cached(list)) /\ Cardinality(Cached(list)) = Len(list)
<1> DEFINE n == Len(list)
           chunk == [i \in 1..n |-> list[i].chunk]
<1>1. n \in Nat /\ DOMAIN list = 1..n
  BY DEF Good
<1>2. \A i, j \in 1..n : list[i].chunk = list[j].chunk => i = j
  BY <1>1 DEF Good, Distinct
<1>3. \A c : c \in Cached(list) <=> \E i \in 1..n : list[i].chunk = c
  BY <1>1, CachedIn DEF In
<1> HIDE DEF n
<1>4. chunk \in Surjection(1..n, Cached(list)) /\ chunk \in Injection(1..n, Cached(list))
  BY <1>2, <1>3 DEF Surjection, Injection, IsInjective
<1> HIDE DEF chunk
<1>5. IsFiniteSet(1..n) /\ Cardinality(1..n) = n
  BY <1>1, FS_Interval
<1>6. IsFiniteSet(Cached(list)) /\ Cardinality(Cached(list)) = n
  BY <1>4, <1>5, FS_Surjection
<1> QED BY <1>1, <1>6 DEF n

LEMMA CachedTrue ==
  ASSUME NEW list, Good(list), NEW c \in Cached(list)
  PROVE  c \in Chunks /\ CachedScore(list, c) = Relevance[c] /\ Relevance[c] \in Int
<1>1. \E entry \in Range(list) : entry.chunk = c
  BY DEF Cached
<1>2. \A entry \in Range(list) : entry \in Entry /\ entry.score = Relevance[entry.chunk]
  BY DEF Good, True, Range
<1>3. c \in Chunks
  BY <1>1, <1>2 DEF Entry
<1> QED BY <1>1, <1>2, <1>3, RelevanceAssumption DEF CachedScore

LEMMA KeepEntries ==
  ASSUME NEW list, Good(list), NEW P \in SUBSET DOMAIN list
  PROVE  Good(Keep(list, P)) /\ \A c : In(Keep(list, P), c) <=> \E j \in P : list[j].chunk = c
<1> DEFINE out == Keep(list, P)
<1>1. list \in Seq(Entry) /\ Distinct(list) /\ True(list)
  BY DEF Good
<1>2. /\ out \in Seq(Entry) /\ Distinct(out)
      /\ \A k \in DOMAIN out : \E i \in P : out[k] = list[i]
      /\ \A i \in P : \E k \in DOMAIN out : out[k] = list[i]
  BY <1>1, KeepOnce
<1> HIDE DEF out
<1>3. Good(out)
  BY <1>1, <1>2 DEF Good, True
<1>4. \A c : In(out, c) <=> \E j \in P : list[j].chunk = c
  BY <1>2 DEF In
<1> QED BY <1>3, <1>4 DEF out

LEMMA JoinEntries ==
  ASSUME NEW a1, NEW b1, Good(a1), Good(b1), \A c : ~(In(a1, c) /\ In(b1, c))
  PROVE  Good(a1 \o b1) /\ \A c : In(a1 \o b1, c) <=> In(a1, c) \/ In(b1, c)
<1> DEFINE out == a1 \o b1
           n == Len(a1)
           m == Len(b1)
<1>1. a1 \in Seq(Entry) /\ b1 \in Seq(Entry)
  BY DEF Good
<1>2. n \in Nat /\ m \in Nat /\ DOMAIN a1 = 1..n /\ DOMAIN b1 = 1..m
  BY <1>1
<1>3. out \in Seq(Entry) /\ Len(out) = n + m
  BY <1>1
<1>4. \A i \in 1..n : out[i] = a1[i]
  BY <1>1
<1>5. \A k \in 1..m : out[n + k] = b1[k] /\ n + k \in 1..(n + m)
  BY <1>1
<1> HIDE DEF out, n, m
<1>6. DOMAIN out = 1..(n + m)
  BY <1>3
<1>7. \A i \in 1..(n + m) : i \in 1..n \/ \E k \in 1..m : i = n + k
  <2> SUFFICES ASSUME NEW i \in 1..(n + m), ~(i \in 1..n) PROVE \E k \in 1..m : i = n + k
    OBVIOUS
  <2>1. i - n \in 1..m /\ i = n + (i - n)
    BY <1>2
  <2> QED BY <2>1
<1>8. \A i \in 1..n : i \in 1..(n + m)
  BY <1>2
<1>9. True(out)
  <2> SUFFICES ASSUME NEW i \in 1..(n + m) PROVE out[i].score = Relevance[out[i].chunk]
    BY <1>6 DEF True
  <2>1. CASE i \in 1..n
    BY <1>2, <1>4, <2>1 DEF Good, True
  <2>2. CASE i \notin 1..n
    <3>1. PICK k \in 1..m : i = n + k
      BY <1>7, <2>2
    <3>2. b1[k].score = Relevance[b1[k].chunk]
      BY <1>2 DEF Good, True
    <3> QED BY <1>5, <3>1, <3>2
  <2> QED BY <2>1, <2>2
<1>10. Distinct(out)
  <2> SUFFICES ASSUME NEW i \in 1..(n + m), NEW j \in 1..(n + m), out[i].chunk = out[j].chunk PROVE i = j
    BY <1>6 DEF Distinct
  <2>1. CASE i \in 1..n /\ j \in 1..n
    BY <1>2, <1>4, <2>1 DEF Good, Distinct
  <2>2. CASE i \in 1..n /\ j \notin 1..n
    <3>1. PICK k \in 1..m : j = n + k
      BY <1>7, <2>2
    <3>2. In(a1, out[i].chunk) /\ In(b1, out[j].chunk)
      BY <1>2, <1>4, <1>5, <2>2, <3>1 DEF In
    <3> QED BY <3>2
  <2>3. CASE i \notin 1..n /\ j \in 1..n
    <3>1. PICK k \in 1..m : i = n + k
      BY <1>7, <2>3
    <3>2. In(a1, out[j].chunk) /\ In(b1, out[i].chunk)
      BY <1>2, <1>4, <1>5, <2>3, <3>1 DEF In
    <3> QED BY <3>2
  <2>4. CASE i \notin 1..n /\ j \notin 1..n
    <3>1. PICK k \in 1..m : i = n + k
      BY <1>7, <2>4
    <3>2. PICK l \in 1..m : j = n + l
      BY <1>7, <2>4
    <3>3. b1[k].chunk = b1[l].chunk
      BY <1>5, <3>1, <3>2
    <3>4. k = l
      BY <1>2, <3>3 DEF Good, Distinct
    <3> QED BY <3>1, <3>2, <3>4
  <2> QED BY <2>1, <2>2, <2>3, <2>4
<1>11. ASSUME NEW c PROVE In(out, c) <=> In(a1, c) \/ In(b1, c)
  <2>1. ASSUME In(a1, c) PROVE In(out, c)
    BY <1>2, <1>4, <1>6, <1>8, <2>1 DEF In
  <2>2. ASSUME In(b1, c) PROVE In(out, c)
    <3>1. PICK k \in 1..m : b1[k].chunk = c
      BY <1>2, <2>2 DEF In
    <3> QED BY <1>5, <1>6, <3>1 DEF In
  <2>3. ASSUME In(out, c) PROVE In(a1, c) \/ In(b1, c)
    <3>1. PICK i \in 1..(n + m) : out[i].chunk = c
      BY <1>6, <2>3 DEF In
    <3>2. CASE i \in 1..n
      BY <1>2, <1>4, <3>1, <3>2 DEF In
    <3>3. CASE i \notin 1..n
      <4>1. PICK k \in 1..m : i = n + k
        BY <1>7, <3>3
      <4> QED BY <1>2, <1>5, <3>1, <4>1 DEF In
    <3> QED BY <3>2, <3>3
  <2> QED BY <2>1, <2>2, <2>3
<1> QED BY <1>3, <1>9, <1>10, <1>11 DEF out, Good

LEMMA LatestEntries ==
  ASSUME NEW list, Good(list), NEW size \in Nat
  PROVE  Good(Latest(size, list)) /\ Len(Latest(size, list)) <= size
<1> DEFINE n == Len(list)
           m == Smaller(size, n)
           out == Latest(size, list)
<1>1. n \in Nat /\ DOMAIN list = 1..n /\ \A i \in 1..n : list[i] \in Entry
  BY DEF Good
<1>2. m \in Nat /\ m <= n /\ m <= size
  BY <1>1 DEF Smaller
<1>3. out = [i \in 1..m |-> list[(n - m) + i]]
  BY DEF Latest
<1> HIDE DEF n, m, out
<1>4. \A i \in 1..m : (n - m) + i \in 1..n
  BY <1>1, <1>2
<1>5. out \in Seq(Entry) /\ Len(out) = m /\ DOMAIN out = 1..m /\ \A i \in 1..m : out[i] = list[(n - m) + i]
  BY <1>1, <1>2, <1>3, <1>4
<1>6. True(out)
  BY <1>1, <1>4, <1>5 DEF Good, True
<1>7. Distinct(out)
  <2> SUFFICES ASSUME NEW i \in 1..m, NEW j \in 1..m, out[i].chunk = out[j].chunk PROVE i = j
    BY <1>5 DEF Distinct
  <2>1. (n - m) + i = (n - m) + j
    BY <1>1, <1>4, <1>5 DEF Good, Distinct
  <2> QED BY <1>1, <1>2, <2>1
<1> QED BY <1>2, <1>5, <1>6, <1>7 DEF out, Good

-----------------------------------------------------------------------------
(* The scoring of the candidates.                                               *)

RankedRow == [chunk : Chunks, rrf : Scores, rerank : Int]
ChunksOf(list) == [i \in DOMAIN list |-> list[i].chunk]

LEMMA ChunksOfRows ==
  ASSUME NEW list \in Seq(FusedRow), Distinct(list)
  PROVE  ChunksOf(list) \in Seq(Chunks) /\ Once(ChunksOf(list)) /\ DOMAIN ChunksOf(list) = DOMAIN list
<1>1. \A i \in DOMAIN list : list[i].chunk \in Chunks
  <2>1. \A i \in DOMAIN list : list[i] \in FusedRow
    OBVIOUS
  <2> QED BY <2>1 DEF FusedRow
<1> DEFINE n == Len(list)
<1>2. n \in Nat /\ DOMAIN list = 1..n
  OBVIOUS
<1> HIDE DEF n
<1>3. ChunksOf(list) = [i \in 1..n |-> list[i].chunk]
  BY <1>2 DEF ChunksOf
<1> QED BY <1>1, <1>2, <1>3 DEF Once, Distinct

(* The chunks that the cache knows.                                             *)
LEMMA HitsOf ==
  ASSUME NEW list \in Seq(Chunks), Once(list), NEW known
  PROVE  /\ Hits(list, known) \in Seq(Chunks) /\ Once(Hits(list, known))
         /\ \A k \in DOMAIN Hits(list, known) : Hits(list, known)[k] \in Cached(known)
         /\ \A k \in DOMAIN Hits(list, known) : \E i \in DOMAIN list : Hits(list, known)[k] = list[i]
<1> DEFINE P == {i \in DOMAIN list : list[i] \in Cached(known)}
           hits == Hits(list, known)
<1>1. P \in SUBSET DOMAIN list /\ \A i \in P : list[i] \in Cached(known)
  OBVIOUS
<1>2. hits = Keep(list, P)
  BY DEF Hits
<1> HIDE DEF P, hits
<1>3. /\ Keep(list, P) \in Seq(Chunks) /\ Once(Keep(list, P))
      /\ \A k \in DOMAIN Keep(list, P) : \E i \in P : Keep(list, P)[k] = list[i]
  BY <1>1, KeepOnce
<1>4. hits \in Seq(Chunks) /\ Once(hits)
  BY <1>2, <1>3
<1>5. \A k \in DOMAIN hits : \E i \in P : hits[k] = list[i]
  BY <1>2, <1>3
<1>6. \A k \in DOMAIN hits : hits[k] \in Cached(known) /\ \E i \in DOMAIN list : hits[k] = list[i]
  BY <1>1, <1>5
<1> QED BY <1>4, <1>6 DEF hits

(* A look-up moves entries and changes none.                                    *)
LEMMA TouchOf ==
  ASSUME NEW list, Good(list), NEW hits \in Seq(Chunks), Once(hits), \A k \in DOMAIN hits : hits[k] \in Cached(list)
  PROVE  /\ Good(Touch(list, hits)) /\ \A c : In(Touch(list, hits), c) => In(list, c)
         /\ Len(Touch(list, hits)) \in Nat /\ Len(Touch(list, hits)) <= Len(list)
<1> DEFINE P == {j \in DOMAIN list : \A i \in DOMAIN hits : hits[i] # list[j].chunk}
           old == Keep(list, P)
           new == [i \in DOMAIN hits |-> [chunk |-> hits[i], score |-> CachedScore(list, hits[i])]]
           out == Touch(list, hits)
<1>1. P \in SUBSET DOMAIN list /\ \A j \in P : \A i \in DOMAIN hits : hits[i] # list[j].chunk
  OBVIOUS
<1>2. out = old \o new
  BY DEF Touch
<1> HIDE DEF P
<1>3. Good(old) /\ \A c : In(old, c) <=> \E j \in P : list[j].chunk = c
  BY <1>1, KeepEntries
<1>4. \A i \in DOMAIN hits : hits[i] \in Chunks /\ CachedScore(list, hits[i]) = Relevance[hits[i]] /\ Relevance[hits[i]] \in Int
  BY CachedTrue
<1>5. Good(new) /\ DOMAIN new = DOMAIN hits
  <2> DEFINE n == Len(hits)
  <2>1. n \in Nat /\ DOMAIN hits = 1..n
    OBVIOUS
  <2> HIDE DEF n
  <2>2. \A i \in 1..n : [chunk |-> hits[i], score |-> CachedScore(list, hits[i])] \in Entry
    BY <1>4, <2>1 DEF Entry
  <2>3. new \in Seq(Entry)
    BY <2>1, <2>2
  <2>4. Distinct(new)
    BY DEF Distinct, Once
  <2>5. True(new)
    BY <1>4 DEF True
  <2> QED BY <2>3, <2>4, <2>5 DEF Good
<1>6. \A c : In(new, c) <=> \E i \in DOMAIN hits : hits[i] = c
  BY DEF In
<1> HIDE DEF old, new, out
<1>7. \A c : ~(In(old, c) /\ In(new, c))
  BY <1>1, <1>3, <1>6
<1>8. Good(out) /\ \A c : In(out, c) <=> In(old, c) \/ In(new, c)
  BY <1>2, <1>3, <1>5, <1>7, JoinEntries
<1>9. \A c : In(out, c) => In(list, c)
  <2> SUFFICES ASSUME NEW c, In(out, c) PROVE In(list, c)
    OBVIOUS
  <2>1. CASE In(old, c)
    BY <1>1, <1>3, <2>1 DEF In
  <2>2. CASE In(new, c)
    BY <1>6, <2>2, CachedIn
  <2> QED BY <1>8, <2>1, <2>2
<1>10. Cached(out) \in SUBSET Cached(list)
  BY <1>9, CachedIn
<1>11. /\ IsFiniteSet(Cached(list)) /\ Cardinality(Cached(list)) = Len(list)
       /\ Len(out) \in Nat /\ Cardinality(Cached(out)) = Len(out)
  BY <1>8, CachedSize
<1>12. Cardinality(Cached(out)) <= Cardinality(Cached(list))
  BY <1>10, <1>11, FS_Subset
<1> QED BY <1>8, <1>9, <1>11, <1>12 DEF out

(* The scoring ends when all are scored, or when one is clearly ahead.          *)
LEMMA ScoredOf ==
  ASSUME NEW known \in Seq(Int), NEW fresh \in Seq(Chunks)
  PROVE  /\ ScoredCount(known, fresh) \in 0..Len(fresh)
         /\ ScoredCount(known, fresh) # Len(fresh) =>
              Clear(known \o [i \in 1..ScoredCount(known, fresh) |-> Relevance[fresh[i]]])
<1> DEFINE n == Len(fresh)
           stops == {m \in 1..n : /\ m % Batch = 0 \/ m = n
                                  /\ m >= MinBatch
                                  /\ Clear(known \o [i \in 1..m |-> Relevance[fresh[i]]])}
           count == ScoredCount(known, fresh)
<1>1. n \in Nat
  OBVIOUS
<1>2. count = IF stops = {} THEN n ELSE Min(stops)
  BY DEF ScoredCount
<1>3. stops \in SUBSET (1..n) /\ \A m \in stops : Clear(known \o [i \in 1..m |-> Relevance[fresh[i]]])
  OBVIOUS
<1> HIDE DEF n, stops, count
<1>4. CASE stops = {}
  BY <1>1, <1>2, <1>4 DEF n, count
<1>5. CASE stops # {}
  <2>1. IsFiniteSet(1..n) /\ 1..n \in SUBSET Nat
    BY <1>1, FS_Interval
  <2>2. IsFiniteSet(stops) /\ stops \in SUBSET Nat
    BY <1>3, <2>1, FS_Subset
  <2>3. count \in stops
    BY <1>2, <1>5, <2>2, MinOf
  <2>4. count \in 0..n /\ Clear(known \o [i \in 1..count |-> Relevance[fresh[i]]])
    BY <1>1, <1>3, <2>3
  <2> QED BY <2>4 DEF n, count
<1> QED BY <1>4, <1>5

(* Reranking keeps the cache true and within its size, and what it puts first   *)
(* was scored.                                                                  *)
LEMMA RerankOf ==
  ASSUME NEW list \in Seq(FusedRow), Distinct(list), NEW memory, Good(memory)
  PROVE  /\ Good(Rerank(list, memory).cache) /\ Len(Rerank(list, memory).cache) <= CacheSize
         /\ Rerank(list, memory).rows \in Seq(RankedRow)
         /\ Len(Rerank(list, memory).rows) = Len(list)
         /\ list # <<>> => Rerank(list, memory).rows[1].rerank = Relevance[Rerank(list, memory).rows[1].chunk]
<1> DEFINE chunks == ChunksOf(list)
           hits == Hits(chunks, memory)
           fresh == Keep(chunks, {i \in DOMAIN chunks : chunks[i] \notin Cached(memory)})
           known == [i \in DOMAIN hits |-> CachedScore(memory, hits[i])]
           count == ScoredCount(known, fresh)
           sure == First(count, fresh)
           score == [c \in Chunks |-> IF c \in Cached(memory) THEN CachedScore(memory, c)
                                      ELSE IF c \in Range(sure) THEN Relevance[c] ELSE 0]
           ranked == [i \in DOMAIN list |-> [chunk |-> chunks[i], rrf |-> list[i].rrf, rerank |-> score[chunks[i]]]]
           above == {p \in Pairs(DOMAIN list) : ranked[p[1]].rerank > ranked[p[2]].rerank}
           out == Sorted(ranked, above)
           touched == Touch(memory, hits)
           stored == ToCache(fresh, sure)
           n == Len(list)
<1>1. chunks \in Seq(Chunks) /\ Once(chunks) /\ DOMAIN chunks = DOMAIN list
  BY ChunksOfRows
<1>2. n \in Nat /\ DOMAIN list = 1..n /\ \A i \in 1..n : list[i] \in FusedRow
  OBVIOUS
<1>3. \A i \in 1..n : chunks[i] \in Chunks /\ list[i].rrf \in Scores
  BY <1>1, <1>2 DEF FusedRow
<1>4. Rerank(list, memory).rows = out /\ Rerank(list, memory).cache = Store(touched, stored)
  <2>1. \A i \in DOMAIN list : chunks[i] \in Chunks
    BY <1>2, <1>3
  <2>2. ranked = [i \in DOMAIN list |->
                    [chunk |-> chunks[i], rrf |-> list[i].rrf,
                     rerank |-> IF chunks[i] \in Cached(memory) THEN CachedScore(memory, chunks[i])
                                ELSE IF chunks[i] \in Range(sure) THEN Relevance[chunks[i]] ELSE 0]]
    BY <2>1
  <2>3. chunks = [i \in DOMAIN list |-> list[i].chunk]
    BY DEF ChunksOf
  <2> QED BY <2>2, <2>3 DEF Rerank
<1> HIDE DEF chunks, n
<1>5. /\ hits \in Seq(Chunks) /\ Once(hits) /\ \A k \in DOMAIN hits : hits[k] \in Cached(memory)
      /\ \A k \in DOMAIN hits : \E i \in 1..n : hits[k] = chunks[i]
      /\ fresh \in Seq(Chunks) /\ Once(fresh) /\ \A k \in DOMAIN fresh : fresh[k] \notin Cached(memory)
      /\ \A i \in 1..n : chunks[i] \notin Cached(memory) => \E k \in DOMAIN fresh : fresh[k] = chunks[i]
      /\ \A k \in DOMAIN fresh : \E i \in 1..n : fresh[k] = chunks[i]
  <2> HIDE DEF known, count, sure, score, ranked, above, out, touched, stored
  <2>1. DOMAIN chunks = 1..n
    BY <1>1, <1>2
  <2>2. /\ hits \in Seq(Chunks) /\ Once(hits) /\ \A k \in DOMAIN hits : hits[k] \in Cached(memory)
        /\ \A k \in DOMAIN hits : \E i \in 1..n : hits[k] = chunks[i]
    <3>1. hits = Hits(chunks, memory)
      OBVIOUS
    <3> HIDE DEF hits, fresh
    <3>2. chunks \in Seq(Chunks) /\ Once(chunks)
      BY <1>1
    <3>3. /\ Hits(chunks, memory) \in Seq(Chunks) /\ Once(Hits(chunks, memory))
          /\ \A k \in DOMAIN Hits(chunks, memory) : Hits(chunks, memory)[k] \in Cached(memory)
          /\ \A k \in DOMAIN Hits(chunks, memory) : \E i \in DOMAIN chunks : Hits(chunks, memory)[k] = chunks[i]
      BY <3>2, HitsOf
    <3> QED BY <2>1, <3>1, <3>3
  <2> DEFINE Q == {i \in DOMAIN chunks : chunks[i] \notin Cached(memory)}
  <2>3. Q \in SUBSET DOMAIN chunks /\ \A i \in 1..n : i \in Q <=> chunks[i] \notin Cached(memory)
    BY <2>1
  <2>4. fresh = Keep(chunks, Q)
    OBVIOUS
  <2> HIDE DEF hits, fresh, Q
  <2>5. /\ fresh \in Seq(Chunks) /\ Once(fresh)
        /\ \A k \in DOMAIN fresh : \E i \in Q : fresh[k] = chunks[i]
        /\ \A i \in Q : \E k \in DOMAIN fresh : fresh[k] = chunks[i]
    <3>1. /\ Keep(chunks, Q) \in Seq(Chunks) /\ Once(Keep(chunks, Q))
          /\ \A k \in DOMAIN Keep(chunks, Q) : \E i \in Q : Keep(chunks, Q)[k] = chunks[i]
          /\ \A i \in Q : \E k \in DOMAIN Keep(chunks, Q) : Keep(chunks, Q)[k] = chunks[i]
      BY <1>1, <2>3, KeepOnce
    <3> QED BY <2>4, <3>1
  <2>6. \A k \in DOMAIN fresh : fresh[k] \notin Cached(memory) /\ \E i \in 1..n : fresh[k] = chunks[i]
    BY <2>1, <2>3, <2>5
  <2>7. \A i \in 1..n : chunks[i] \notin Cached(memory) => \E k \in DOMAIN fresh : fresh[k] = chunks[i]
    BY <2>3, <2>5
  <2> QED BY <2>2, <2>5, <2>6, <2>7
<1> HIDE DEF hits, fresh
<1>6. \A c \in Cached(memory) : c \in Chunks /\ CachedScore(memory, c) = Relevance[c] /\ Relevance[c] \in Int
  BY CachedTrue
<1>7. known \in Seq(Int) /\ DOMAIN known = DOMAIN hits /\ \A k \in DOMAIN hits : known[k] = Relevance[hits[k]]
  <2> DEFINE h == Len(hits)
  <2>1. h \in Nat /\ DOMAIN hits = 1..h
    BY <1>5
  <2> HIDE DEF h
  <2>2. \A k \in 1..h : CachedScore(memory, hits[k]) = Relevance[hits[k]] /\ Relevance[hits[k]] \in Int
    BY <1>5, <1>6, <2>1
  <2> QED BY <2>1, <2>2
<1> HIDE DEF known
<1>8. /\ count \in 0..Len(fresh)
      /\ count # Len(fresh) => Clear(known \o [i \in 1..count |-> Relevance[fresh[i]]])
  BY <1>5, <1>7, ScoredOf
<1>9. Len(fresh) \in Nat /\ DOMAIN fresh = 1..Len(fresh)
  BY <1>5
<1> DEFINE f == Len(fresh)
<1> HIDE DEF count
<1>10. sure = [i \in 1..count |-> fresh[i]] /\ count \in Nat /\ \A i \in 1..count : i \in DOMAIN fresh
  <2>1. count \in 0..f /\ f \in Nat /\ DOMAIN fresh = 1..f
    BY <1>8, <1>9
  <2>2. sure = [i \in 1..Smaller(count, f) |-> fresh[i]]
    BY DEF First
  <2> HIDE DEF f, sure
  <2>3. count \in Nat /\ count <= f
    BY <2>1
  <2>4. Smaller(count, f) = count
    BY <2>1, <2>3 DEF Smaller
  <2> QED BY <2>1, <2>2, <2>3, <2>4
<1> HIDE DEF sure
<1>11. \A c : c \in Range(sure) <=> \E i \in 1..count : fresh[i] = c
  BY <1>10 DEF Range
<1>12. \A c \in Chunks : score[c] \in Int /\ (c \in Cached(memory) \/ c \in Range(sure) => score[c] = Relevance[c])
                         /\ (c \notin Cached(memory) /\ c \notin Range(sure) => score[c] = 0)
  BY <1>6, RelevanceAssumption
<1>13. \A i \in 1..n : /\ ranked[i] \in RankedRow
                       /\ ranked[i].chunk = chunks[i] /\ ranked[i].rerank = score[chunks[i]]
                       /\ ranked[i].rerank \in Int
  BY <1>2, <1>3, <1>12 DEF RankedRow
<1>14. ranked \in Seq(RankedRow) /\ Len(ranked) = n
  <2>1. ranked = [i \in 1..n |-> ranked[i]]
    BY <1>2
  <2> HIDE DEF ranked
  <2>2. n \in Nat /\ \A i \in 1..n : ranked[i] \in RankedRow
    BY <1>2, <1>13
  <2> QED BY <2>1, <2>2
<1>15. \A i, j \in 1..n : <<i, j>> \in above <=> ranked[i].rerank > ranked[j].rerank
  BY <1>2 DEF Pairs
<1> HIDE DEF score, ranked, above
<1>16. Weak(1..n, above)
  BY <1>13, <1>15 DEF Weak
<1>17. /\ out \in Seq(RankedRow) /\ Len(out) = n
       /\ \E order \in [1..n -> 1..n] :
              /\ out = [k \in 1..n |-> ranked[order[k]]]
              /\ \A i \in 1..n : \E k \in 1..n : order[k] = i
              /\ \A i, j \in 1..n : i < j => order[i] # order[j] /\ <<order[j], order[i]>> \notin above
  BY <1>14, <1>16, SortedOf
<1> HIDE DEF out
<1>18. ASSUME list # <<>> PROVE out[1].rerank = Relevance[out[1].chunk]
  <2>1. 1 \in 1..n
    BY <1>2, <1>18 DEF n
  <2>2. PICK order \in [1..n -> 1..n] :
              /\ out = [k \in 1..n |-> ranked[order[k]]]
              /\ \A i \in 1..n : \E k \in 1..n : order[k] = i
              /\ \A i, j \in 1..n : i < j => order[i] # order[j] /\ <<order[j], order[i]>> \notin above
    BY <1>17
  <2> DEFINE t == order[1]
  <2>3. t \in 1..n /\ out[1] = ranked[t]
    BY <2>1, <2>2
  <2>4. \A i \in 1..n : ~(ranked[i].rerank > ranked[t].rerank)
    <3> TAKE i \in 1..n
    <3>1. PICK k \in 1..n : order[k] = i
      BY <2>2
    <3>2. CASE k = 1
      BY <1>13, <2>3, <3>1, <3>2
    <3>3. CASE k # 1
      <4>1. 1 < k
        BY <1>2, <3>3
      <4>2. <<i, t>> \notin above
        BY <2>1, <2>2, <3>1, <4>1
      <4> QED BY <1>15, <2>3, <4>2
    <3> QED BY <3>2, <3>3
  <2> HIDE DEF t
  <2>5. CASE chunks[t] \in Cached(memory) \/ chunks[t] \in Range(sure)
    BY <1>3, <1>12, <1>13, <2>3, <2>5
  <2>6. CASE chunks[t] \notin Cached(memory) /\ chunks[t] \notin Range(sure)
    <3>1. ranked[t].rerank = 0
      BY <1>3, <1>12, <1>13, <2>3, <2>6
    <3>2. PICK k \in DOMAIN fresh : fresh[k] = chunks[t]
      BY <1>5, <2>3, <2>6
    <3>3. count # Len(fresh)
      BY <1>9, <1>11, <2>6, <3>2
    <3> DEFINE more == [i \in 1..count |-> Relevance[fresh[i]]]
               all == known \o more
               h == Len(known)
    <3>4. more \in Seq(Int) /\ Len(more) = count
      <4>1. \A i \in 1..count : Relevance[fresh[i]] \in Int
        BY <1>5, <1>10, RelevanceAssumption
      <4> QED BY <1>10, <4>1
    <3>5. h \in Nat /\ DOMAIN known = 1..h /\ \A i \in 1..h : known[i] \in Int
      BY <1>7
    <3>6. \A i \in 1..count : more[i] = Relevance[fresh[i]]
      OBVIOUS
    <3>7. Clear(all)
      BY <1>8, <3>3
    <3> HIDE DEF more
    <3>8. all \in Seq(Int) /\ Len(all) = h + count
      <4>1. known \in Seq(Int) /\ more \in Seq(Int)
        BY <1>7, <3>4
      <4>2. known \o more \in Seq(Int) /\ Len(known \o more) = Len(known) + Len(more)
        BY <4>1
      <4> QED BY <3>4, <4>2
    <3>9. \A i \in 1..(h + count) : all[i] = IF i <= h THEN known[i] ELSE more[i - h]
      BY <1>7, <3>4
    <3> HIDE DEF all, h
    <3>10. DOMAIN all = 1..(h + count)
      BY <3>8
    <3>11. PICK i \in 1..(h + count) : all[i] >= Sure
      BY <3>7, <3>10 DEF Clear
    <3>12. Sure \in Nat \ {0} /\ all[i] \in Int /\ all[i] > 0
      <4>1. Sure \in Nat \ {0}
        BY RerankingAssumption
      <4>2. all[i] \in Int
        BY <3>8, <3>10
      <4> QED BY <3>11, <4>1, <4>2
    <3>13. \A j \in 1..n : ~(ranked[j].rerank > 0)
      BY <2>4, <3>1
    <3>14. CASE i <= h
      <4>1. i \in DOMAIN known /\ all[i] = known[i]
        BY <1>10, <3>5, <3>9, <3>14
      <4>2. PICK j \in 1..n : hits[i] = chunks[j]
        BY <1>5, <1>7, <4>1
      <4>3. all[i] = Relevance[chunks[j]] /\ chunks[j] \in Cached(memory)
        BY <1>5, <1>7, <4>1, <4>2
      <4>4. ranked[j].rerank = all[i]
        BY <1>3, <1>12, <1>13, <4>3
      <4> QED BY <3>12, <3>13, <4>4
    <3>15. CASE ~(i <= h)
      <4>1. i - h \in 1..count /\ all[i] = more[i - h]
        BY <1>10, <3>5, <3>9, <3>15
      <4> DEFINE k1 == i - h
      <4>2. k1 \in 1..count /\ all[i] = Relevance[fresh[k1]] /\ k1 \in DOMAIN fresh
        BY <1>10, <3>6, <4>1
      <4> HIDE DEF k1
      <4>3. PICK j \in 1..n : fresh[k1] = chunks[j]
        BY <1>5, <4>2
      <4>4. chunks[j] \in Range(sure)
        BY <1>11, <4>2, <4>3
      <4>5. ranked[j].rerank = all[i]
        BY <1>3, <1>12, <1>13, <4>2, <4>3, <4>4
      <4> QED BY <3>12, <3>13, <4>5
    <3> QED BY <3>14, <3>15
  <2> QED BY <2>5, <2>6
<1>19. Good(touched) /\ \A c : In(touched, c) => In(memory, c)
  BY <1>5, TouchOf
<1>20. stored = [i \in 1..count |-> [chunk |-> fresh[i], score |-> Relevance[fresh[i]]]]
  BY <1>10 DEF ToCache
<1> HIDE DEF touched, stored
<1>21. Good(stored) /\ \A c : In(stored, c) => c \notin Cached(memory)
  <2>1. \A i \in 1..count : fresh[i] \in Chunks /\ Relevance[fresh[i]] \in Int /\ fresh[i] \notin Cached(memory)
    BY <1>5, <1>10, RelevanceAssumption
  <2>2. \A i \in 1..count : [chunk |-> fresh[i], score |-> Relevance[fresh[i]]] \in Entry
    BY <2>1 DEF Entry
  <2>3. stored \in Seq(Entry) /\ DOMAIN stored = 1..count
    BY <1>10, <1>20, <2>2
  <2>4. True(stored)
    BY <1>20, <2>3 DEF True
  <2>5. Distinct(stored)
    BY <1>5, <1>10, <1>20, <2>3 DEF Distinct, Once
  <2>6. \A c : In(stored, c) => c \notin Cached(memory)
    BY <1>20, <2>1, <2>3 DEF In
  <2> QED BY <2>3, <2>4, <2>5, <2>6 DEF Good
<1>22. \A c : ~(In(touched, c) /\ In(stored, c))
  BY <1>19, <1>21, CachedIn
<1>23. Good(touched \o stored)
  BY <1>19, <1>21, <1>22, JoinEntries
<1>24. CacheSize \in Nat
  BY RerankingAssumption
<1>25. Good(Store(touched, stored)) /\ Len(Store(touched, stored)) <= CacheSize
  BY <1>23, <1>24, LatestEntries DEF Store
<1> QED BY <1>4, <1>17, <1>18, <1>25 DEF n

-----------------------------------------------------------------------------
(* The answers of the web.                                                      *)

Address == Urls \cup {NoUrl}

LEMMA InterleavedType ==
  ASSUME NEW a1 \in Seq(Address), NEW b1 \in Seq(Address)
  PROVE  Interleaved(a1, b1) \in Seq(Address)
<1> DEFINE places == ((DOMAIN a1) \X {1}) \cup ((DOMAIN b1) \X {2})
           at(p) == IF p[2] = 1 THEN a1[p[1]] ELSE b1[p[1]]
           new == {p \in places : at(p) = NoUrl \/ \A q \in places : Earlier(q, p) => at(q) # at(p)}
           R == {p \in Pairs(new) : Earlier(p[1], p[2])}
           order == Listed(new, R)
           m == Cardinality(new)
<1>1. \A p \in places : p = <<p[1], p[2]>> /\ p[1] \in Nat /\ p[2] \in Nat /\ at(p) \in Address
  <2>1. \A i \in DOMAIN a1 : i \in Nat /\ a1[i] \in Address
    OBVIOUS
  <2>2. \A i \in DOMAIN b1 : i \in Nat /\ b1[i] \in Address
    OBVIOUS
  <2>3. ASSUME NEW p \in (DOMAIN a1) \X {1} PROVE p = <<p[1], p[2]>> /\ p[1] \in Nat /\ p[2] \in Nat /\ at(p) \in Address
    <3>1. p = <<p[1], p[2]>> /\ p[1] \in DOMAIN a1 /\ p[2] = 1
      OBVIOUS
    <3> QED BY <2>1, <3>1
  <2>4. ASSUME NEW p \in (DOMAIN b1) \X {2} PROVE p = <<p[1], p[2]>> /\ p[1] \in Nat /\ p[2] \in Nat /\ at(p) \in Address
    <3>1. p = <<p[1], p[2]>> /\ p[1] \in DOMAIN b1 /\ p[2] = 2
      OBVIOUS
    <3> QED BY <2>2, <3>1
  <2> QED BY <2>3, <2>4
<1>2. IsFiniteSet(places)
  <2> DEFINE n == Len(a1)
             l == Len(b1)
  <2>1. n \in Nat /\ l \in Nat /\ DOMAIN a1 = 1..n /\ DOMAIN b1 = 1..l
    OBVIOUS
  <2> HIDE DEF n, l
  <2>2. IsFiniteSet(1..n) /\ IsFiniteSet(1..l)
    BY <2>1, FS_Interval
  <2>3. IsFiniteSet({1}) /\ IsFiniteSet({2})
    BY FS_Singleton
  <2>4. IsFiniteSet((1..n) \X {1}) /\ IsFiniteSet((1..l) \X {2})
    BY <2>2, <2>3, FS_Product
  <2>5. IsFiniteSet(((1..n) \X {1}) \cup ((1..l) \X {2}))
    BY <2>4, FS_Union
  <2> QED BY <2>1, <2>5
<1>3. new \in SUBSET places
  OBVIOUS
<1>4. Interleaved(a1, b1) = [k \in DOMAIN order |-> at(order[k])]
  BY DEF Interleaved
<1>5. \A p \in new : p = <<p[1], p[2]>> /\ p[1] \in Nat /\ p[2] \in Nat
  BY <1>1
<1> DEFINE value == [p \in new |-> at(p)]
<1>6. value \in [new -> Address]
  BY <1>1
<1> HIDE DEF places, new
<1>7. IsFiniteSet(new)
  BY <1>2, <1>3, FS_Subset
<1>8. Ordered(new, R)
  BY <1>5, EarlierOrder
<1> HIDE DEF R
<1>9. m \in Nat /\ order \in [1..m -> new]
  BY <1>7, <1>8, ListedOnce
<1> HIDE DEF order, m
<1>10. [k \in DOMAIN order |-> at(order[k])] = [k \in 1..m |-> value[order[k]]]
  BY <1>9
<1> HIDE DEF at, value
<1>11. [k \in 1..m |-> value[order[k]]] \in Seq(Address)
  BY <1>6, <1>9
<1> QED BY <1>4, <1>10, <1>11

LEMMA WebItemsType ==
  ASSUME NEW items \in WebItems
  PROVE  items \in Seq(Address)
<1>1. CASE items = <<>>
  BY <1>1
<1>2. CASE items # <<>>
  <2>1. PICK p \in Providers, tavily \in WebAnswers, instead \in WebAnswers, duck \in WebAnswers :
          items = Search(p, tavily, instead, duck)
    BY <1>2 DEF WebItems
  <2>2. \A answer \in WebAnswers : answer = Broken \/ answer \in Seq(Address)
    BY WebAssumption DEF Address
  <2>3. DuckDuckGo(instead) \in Seq(Address) /\ DuckDuckGo(duck) \in Seq(Address)
    BY <2>2 DEF DuckDuckGo
  <2>4. Tavily(tavily, DuckDuckGo(instead)) \in Seq(Address)
    BY <2>2, <2>3 DEF Tavily
  <2>5. Interleaved(Tavily(tavily, DuckDuckGo(instead)), DuckDuckGo(duck)) \in Seq(Address)
    BY <2>3, <2>4, InterleavedType
  <2>6. First(MaxResults, Interleaved(Tavily(tavily, DuckDuckGo(instead)), DuckDuckGo(duck))) \in Seq(Address)
    BY <2>5, FirstOf, WebAssumption
  <2>7. p \in {"tavily", "duckduckgo", "both"}
    BY WebAssumption
  <2> QED BY <2>1, <2>3, <2>4, <2>6, <2>7 DEF Search
<1> QED BY <1>1, <1>2

-----------------------------------------------------------------------------
(* The scores of the fusion.                                                    *)

LEMMA MultiplyBounds ==
  ASSUME NEW x \in Nat, NEW y \in Nat, NEW n \in Nat, y <= n
  PROVE  x * y <= x * n
  BY SMT

LEMMA ScoreOfBoth ==
  ASSUME NEW d \in Nat \ {0}, NEW s \in Nat \ {0}
  PROVE  Score(d, s) = [num |-> (d + K) + (s + K), den |-> (d + K) * (s + K)]
<1>1. K \in Nat BY FusionAssumption
<1>2. d + s + 2 * K = (d + K) + (s + K) BY <1>1
<1> QED BY <1>2 DEF Score

(* A chunk that both legs found at a rank of up to 100 - rrf_k is confident: for *)
(* the default of 60, among the first forty of each, where the comments of      *)
(* retrieve_hybrid_chunks and of _is_high_confidence say "near #1".             *)
THEOREM BothLegsAreConfident ==
  ASSUME NEW d \in Nat \ {0}, NEW s \in Nat \ {0}, d + K <= 100, s + K <= 100
  PROVE  Confident(Score(d, s))
<1> DEFINE x == d + K
           y == s + K
<1>1. x \in Nat /\ y \in Nat BY FusionAssumption
<1>2. x <= 100 /\ y <= 100 OBVIOUS
<1> HIDE DEF x, y
<1>3. x * y <= x * 100 BY <1>1, <1>2, MultiplyBounds
<1>4. y * x <= y * 100 BY <1>1, <1>2, MultiplyBounds
<1>5. x * y = y * x BY <1>1, SMT
<1>6. x * y \in Nat BY <1>1, SMT
<1>7. 50 * (x + y) >= x * y
  <2> DEFINE p == x * y
  <2>1. p \in Nat /\ p <= x * 100 /\ p <= y * 100 BY <1>3, <1>4, <1>5, <1>6
  <2> HIDE DEF p
  <2>2. 50 * (x + y) >= p BY <2>1, <1>1
  <2> QED BY <2>2 DEF p
<1>8. Score(d, s) = [num |-> x + y, den |-> x * y] BY ScoreOfBoth DEF x, y
<1> QED BY <1>7, <1>8 DEF Confident

(* A chunk that one leg alone found is never confident, once rrf_k is 50 or     *)
(* more.                                                                        *)
THEOREM OneLegIsNeverConfident ==
  ASSUME NEW r \in Nat \ {0}, K >= 50
  PROVE  ~Confident(Score(r, 0)) /\ ~Confident(Score(0, r))
  BY FusionAssumption DEF Confident, Score

(* With a single leg, as in the configuration that ships, the window of the     *)
(* candidates is never the smaller one: adaptive_top_k has no effect            *)
(* (retrieve_hybrid_chunks).                                                    *)
THEOREM OneLegKeepsTheBudget ==
  ASSUME NEW found, K >= 50,
         found # <<>> => \E r \in Nat \ {0} : found[1].rrf \in {Score(r, 0), Score(0, r)}
  PROVE  Budget(found) = FusionTopK
<1>1. found # <<>> => ~Confident(found[1].rrf) BY OneLegIsNeverConfident
<1> QED BY <1>1 DEF Budget

(* A better rank in one leg scores higher whatever the other leg says, and      *)
(* being found by the other leg too scores higher than not                      *)
(* (reciprocal_rank_fusion).                                                    *)
THEOREM FusionIsMonotone ==
  ASSUME NEW r \in Nat \ {0}, NEW worse \in Nat \ {0}, NEW s \in Nat \ {0}, r < worse
  PROVE  /\ Higher(Score(r, 0), Score(worse, 0))
         /\ Higher(Score(r, s), Score(worse, s))
         /\ Higher(Score(r, s), Score(r, 0))
<1> DEFINE x == r + K
           z == worse + K
           y == s + K
<1>1. x \in Nat \ {0} /\ y \in Nat \ {0} /\ z \in Nat \ {0} /\ x < z BY FusionAssumption
<1>2. Score(r, 0) = [num |-> 1, den |-> x] /\ Score(worse, 0) = [num |-> 1, den |-> z]
  BY DEF Score
<1>3. Score(r, s) = [num |-> x + y, den |-> x * y] BY ScoreOfBoth DEF x, y
<1>4. Score(worse, s) = [num |-> z + y, den |-> z * y] BY ScoreOfBoth DEF z, y
<1> HIDE DEF x, y, z
<1>5. Higher(Score(r, 0), Score(worse, 0)) BY <1>1, <1>2 DEF Higher
<1>6. (x + y) * (z * y) > (z + y) * (x * y)
  <2>1. (x + y) * (z * y) = x * z * y + z * (y * y) BY <1>1, SMT
  <2>2. (z + y) * (x * y) = x * z * y + x * (y * y) BY <1>1, SMT
  <2>3. y * y \in Nat \ {0} BY <1>1, SMT
  <2>4. z * (y * y) > x * (y * y)
    <3> DEFINE q == y * y
    <3>1. q \in Nat \ {0} BY <2>3
    <3> HIDE DEF q
    <3>2. z * q > x * q BY <3>1, <1>1, SMT
    <3> QED BY <3>2 DEF q
  <2>5. x * z * y \in Nat /\ z * (y * y) \in Nat /\ x * (y * y) \in Nat BY <1>1, SMT
  <2> QED BY <2>1, <2>2, <2>4, <2>5
<1>7. (x + y) * x > 1 * (x * y)
  <2>1. (x + y) * x = x * x + x * y BY <1>1, SMT
  <2>2. x * x > 0 /\ x * x \in Nat /\ x * y \in Nat BY <1>1, SMT
  <2> QED BY <2>1, <2>2
<1> QED BY <1>2, <1>3, <1>4, <1>5, <1>6, <1>7 DEF Higher

LEMMA CollectedStage ==
  /\ Collected.stage = "found" <=> Survivors # {}
  /\ Collected.stage = "outage" => Survivors = {}
  /\ Collected.stage \in {"found", "outage", "error"}
  BY DEF Collected

-----------------------------------------------------------------------------
(* While sub-queries are searched each has its legs, and one that survived has  *)
(* a leg that answered and the rows that the fusion of its legs leaves.         *)
Shape(sub) ==
  /\ sub = [leg |-> sub.leg, out |-> sub.out]
  /\ sub.leg = [l \in Legs |-> sub.leg[l]]
  /\ \A l \in Legs : /\ sub.leg[l].is \in {"waiting", "late", "answered"}
                       /\ sub.leg[l].list \in Seq(Chunks) /\ Once(sub.leg[l].list)
  /\ sub.out.is = "rows" => \E l \in Legs : sub.leg[l].is = "answered"
  /\ sub.out.rows = IF sub.out.is = "rows" THEN FilterThenCut(sub.leg["dense"].list, sub.leg["sparse"].list)
                    ELSE <<>>
SearchInv ==
  stage \in {"searching", "found"} =>
    /\ subs = [s \in DOMAIN subs |-> subs[s]] /\ \E n \in Nat : DOMAIN subs = 1..n
    /\ \A s \in DOMAIN subs : Shape(subs[s])
OutageInv == SearchInv /\ OutageIsTotal

LEMMA NewSubs ==
  ASSUME NEW n \in Nat, NEW asWide, NEW heal, SearchAnew(n, asWide, heal)
  PROVE  SearchInv' /\ OutageIsTotal'
<1>1. subs' = [s \in 1..n |-> NewSub(asWide)] /\ stage' = "searching" BY DEF SearchAnew
<1>2. Shape(NewSub(asWide)) /\ NewSub(asWide).out.is = "pending"
  <2>1. <<>> \in Seq(Chunks) /\ Once(<<>>) BY DEF Once
  <2> QED BY <2>1 DEF Shape, NewSub, Waiting, Answered, Pending
<1>3. Survivors' = {} BY <1>1, <1>2 DEF Survivors
<1>4. \A s \in DOMAIN subs' : Shape(subs[s])' BY <1>1, <1>2 DEF Shape
<1>5. subs' = [s \in DOMAIN subs' |-> subs'[s]] /\ DOMAIN subs' = 1..n BY <1>1
<1> QED BY <1>1, <1>3, <1>4, <1>5 DEF SearchInv, OutageIsTotal

(* A step of one sub-query keeps its shape and that of the others.              *)
LEMMA OneSubMoves ==
  ASSUME OutageInv, NEW s \in DOMAIN subs, stage = "searching", stage' = stage, NEW new,
         subs' = [subs EXCEPT ![s] = new], Shape(new)
  PROVE  OutageInv'
<1>1. /\ subs = [t \in DOMAIN subs |-> subs[t]] /\ \A t \in DOMAIN subs : Shape(subs[t])
      /\ \E n \in Nat : DOMAIN subs = 1..n
  BY DEF OutageInv, SearchInv
<1>2. DOMAIN subs' = DOMAIN subs /\ subs' = [t \in DOMAIN subs' |-> subs'[t]] BY <1>1
<1>3. \A t \in DOMAIN subs' : subs'[t] = IF t = s THEN new ELSE subs[t] BY <1>1, <1>2
<1>4. \A t \in DOMAIN subs' : Shape(subs'[t]) BY <1>1, <1>2, <1>3
<1>5. SearchInv'
  <2>1. \A t \in DOMAIN subs' : Shape(subs[t])' BY <1>4 DEF Shape
  <2> QED BY <1>1, <1>2, <2>1 DEF SearchInv
<1>6. OutageIsTotal' BY <1>4, stage' = "searching" DEF OutageIsTotal, Survivors, Shape
<1> QED BY <1>5, <1>6 DEF OutageInv

LEMMA LegStep ==
  ASSUME OutageInv, NEW s, NEW l \in Legs, NEW leg, leg.is \in {"late", "answered"},
         leg.list \in Seq(Chunks), Once(leg.list), LegEnds(s, l, leg)
  PROVE  OutageInv'
<1> DEFINE new == [subs[s] EXCEPT !.leg[l] = leg]
<1>1. /\ stage = "searching" /\ stage' = stage /\ s \in DOMAIN subs
      /\ subs[s].out = Pending /\ subs' = [subs EXCEPT ![s] = new]
  BY DEF LegEnds, InSearch
<1>2. Shape(subs[s]) BY <1>1 DEF OutageInv, SearchInv
<1>3. new = [leg |-> [subs[s].leg EXCEPT ![l] = leg], out |-> subs[s].out] BY <1>2 DEF Shape
<1>4. [subs[s].leg EXCEPT ![l] = leg] = [k \in Legs |-> IF k = l THEN leg ELSE subs[s].leg[k]]
  BY <1>2 DEF Shape
<1>5. Shape(new)
  <2>1. \A k \in Legs : /\ new.leg[k].is \in {"waiting", "late", "answered"}
                          /\ new.leg[k].list \in Seq(Chunks) /\ Once(new.leg[k].list)
    BY <1>2, <1>3, <1>4 DEF Shape
  <2>2. new.out.is # "rows" /\ new.out.rows = <<>> BY <1>1, <1>3 DEF Pending
  <2>3. new.leg = [k \in Legs |-> new.leg[k]] BY <1>3, <1>4
  <2>4. new = [leg |-> new.leg, out |-> new.out] BY <1>3
  <2> HIDE DEF new
  <2> QED BY <2>1, <2>2, <2>3, <2>4 DEF Shape
<1> HIDE DEF new
<1> QED BY <1>1, <1>5, OneSubMoves

LEMMA SubStep ==
  ASSUME OutageInv, NEW s, NEW out, SubEnds(s, out),
         out.is = "rows" => \E l \in Legs : subs[s].leg[l].is = "answered",
         out.rows = IF out.is = "rows" THEN FilterThenCut(subs[s].leg["dense"].list, subs[s].leg["sparse"].list)
                    ELSE <<>>
  PROVE  OutageInv'
<1> DEFINE new == [subs[s] EXCEPT !.out = out]
<1>1. /\ stage = "searching" /\ stage' = stage /\ s \in DOMAIN subs
      /\ subs' = [subs EXCEPT ![s] = new]
  BY DEF SubEnds, InSearch
<1>2. Shape(subs[s]) BY <1>1 DEF OutageInv, SearchInv
<1>3. new = [leg |-> subs[s].leg, out |-> out] BY <1>2 DEF Shape
<1>4. Shape(new) BY <1>2, <1>3 DEF Shape
<1> HIDE DEF new
<1> QED BY <1>1, <1>4, OneSubMoves

LEMMA OutageInvariant == Spec => []OutageInv
<1>1. Init => OutageInv
  BY DEF Init, OutageInv, SearchInv, OutageIsTotal
<1>2. OutageInv /\ [Next]_vars => OutageInv'
  <2> SUFFICES ASSUME OutageInv, [Next]_vars PROVE OutageInv' OBVIOUS
  <2>1. ASSUME NEW n \in 1..MaxSubs, NEW asWide \in BOOLEAN, Start(n, asWide) PROVE OutageInv'
    <3>1. MaxSubs \in Nat BY RoundAssumption
    <3>2. n \in Nat BY <3>1
    <3>3. SearchAnew(n, asWide, FALSE) BY <2>1 DEF Start
    <3> QED BY <3>2, <3>3, NewSubs DEF OutageInv
  <2>2. ASSUME NEW s \in DOMAIN subs, NEW l \in Legs, LegAnswers(s, l) PROVE OutageInv'
    <3>1. PICK list \in Lists[l] : LegEnds(s, l, Answered(list)) BY <2>2 DEF LegAnswers
    <3> DEFINE leg == Answered(list)
    <3>2. leg.is = "answered" /\ leg.list = list BY DEF Answered
    <3>3. list \in Seq(Chunks) /\ Once(list) BY ListsAssumption
    <3> HIDE DEF leg
    <3>4. leg.list \in Seq(Chunks) /\ Once(leg.list) BY <3>2, <3>3
    <3>5. LegEnds(s, l, leg) BY <3>1 DEF leg
    <3> QED BY <3>2, <3>4, <3>5, LegStep
  <2>3. ASSUME NEW s \in DOMAIN subs, NEW l \in Legs, LegIsLate(s, l) PROVE OutageInv'
    <3> DEFINE leg == LateLeg
    <3>1. leg.is = "late" /\ leg.list = <<>> BY DEF LateLeg
    <3>2. <<>> \in Seq(Chunks) /\ Once(<<>>) BY DEF Once
    <3> HIDE DEF leg
    <3>3. leg.list \in Seq(Chunks) /\ Once(leg.list) BY <3>1, <3>2
    <3>4. LegEnds(s, l, leg) BY <2>3 DEF leg, LegIsLate
    <3>5. leg.is \in {"late", "answered"} BY <3>1
    <3> QED BY <3>3, <3>4, <3>5, LegStep
  <2>4. ASSUME NEW s \in DOMAIN subs, NEW l \in Legs, LegFails(s, l) PROVE OutageInv'
    <3>1. Outage.is # "rows" /\ Outage.rows = <<>> BY DEF Outage
    <3> QED BY <2>4, <3>1, SubStep DEF LegFails
  <2>5. ASSUME NEW s \in DOMAIN subs, SubRetrieves(s) PROVE OutageInv'
    <3> DEFINE leg == subs[s].leg
               out == IF leg["dense"].is = "late" /\ leg["sparse"].is = "late" THEN Outage
                      ELSE Retrieved(FilterThenCut(leg["dense"].list, leg["sparse"].list))
    <3>1. stage = "searching" /\ LegsEnded(s) /\ SubEnds(s, out) BY <2>5 DEF SubRetrieves, InSearch
    <3>2. Shape(subs[s]) BY <3>1 DEF OutageInv, SearchInv
    <3>3. \A l \in Legs : leg[l].is \in {"late", "answered"} BY <3>1, <3>2 DEF Shape, LegsEnded
    <3>4. out.is = "rows" => \E l \in Legs : leg[l].is = "answered"
      <4>1. CASE leg["dense"].is = "late" /\ leg["sparse"].is = "late"
        BY <4>1 DEF Outage
      <4>2. CASE ~(leg["dense"].is = "late" /\ leg["sparse"].is = "late")
        BY <4>2, <3>3 DEF Legs
      <4> QED BY <4>1, <4>2
    <3>5. out.rows = IF out.is = "rows" THEN FilterThenCut(leg["dense"].list, leg["sparse"].list) ELSE <<>>
      BY DEF Outage, Retrieved
    <3> HIDE DEF out
    <3> QED BY <3>1, <3>4, <3>5, SubStep
  <2>6. ASSUME NEW s \in DOMAIN subs, SubBreaks(s) PROVE OutageInv'
    <3>1. Broke.is # "rows" /\ Broke.rows = <<>> BY DEF Broke
    <3> QED BY <2>6, <3>1, SubStep DEF SubBreaks
  <2>7. CASE Collect
    <3>1. /\ subs' = subs /\ Survivors' = Survivors /\ healing' = healing /\ stage = "searching"
          /\ stage' = IF healing THEN "found" ELSE Collected.stage
      BY <2>7 DEF Collect, Survivors
    <3>2. SearchInv' BY <3>1 DEF OutageInv, SearchInv, Shape
    <3>3. OutageIsTotal' BY <3>1, CollectedStage DEF OutageInv, OutageIsTotal
    <3> QED BY <3>2, <3>3 DEF OutageInv
  <2>8. CASE Heal
    <3>1. 1 \in Nat /\ SearchAnew(1, wide, TRUE) BY <2>8 DEF Heal
    <3> QED BY <3>1, NewSubs DEF OutageInv
  <2>9. ASSUME stage' \in {"ready", "emptyKB", "ranked", "audited", "grounded", "error"} PROVE OutageInv'
    BY <2>9 DEF OutageInv, SearchInv, OutageIsTotal
  <2>10. CASE EmptyKB BY <2>9, <2>10 DEF EmptyKB
  <2>11. CASE RankByModel \/ RankFails \/ RankUnchanged
    BY <2>9, <2>11 DEF RankByModel, RankFails, RankUnchanged, Top
  <2>12. CASE Audit \/ Ground \/ Save \/ NodeFails
    BY <2>9, <2>12 DEF Audit, Ground, Save, NodeFails
  <2>13. CASE UNCHANGED vars
    BY <2>13 DEF OutageInv, SearchInv, Shape, OutageIsTotal, Survivors, vars, kept
  <2> QED BY <2>1, <2>2, <2>3, <2>4, <2>5, <2>6, <2>7, <2>8, <2>10, <2>11, <2>12, <2>13 DEF Next
<1> QED BY <1>1, <1>2, PTL DEF Spec

(* An outage is reported where no sub-query could be searched, and only there,  *)
(* and what survives was answered by a leg (fanout_retrieve,                    *)
(* retrieve_hybrid_chunks).                                                     *)
THEOREM OutagesAreTotal == Spec => []OutageIsTotal
<1>1. OutageInv => OutageIsTotal BY DEF OutageInv
<1> QED BY <1>1, OutageInvariant, PTL

-----------------------------------------------------------------------------
(* What the search found, and what is made of it.                               *)

LEMMA LengthOf ==
  ASSUME NEW n \in Nat, NEW list, list = [i \in 1..n |-> list[i]]
  PROVE  Len(list) = n
<1> DEFINE S == {list[i] : i \in 1..n}
<1>1. \A i \in 1..n : list[i] \in S
  OBVIOUS
<1> HIDE DEF S
<1>2. [i \in 1..n |-> list[i]] \in Seq(S) /\ Len([i \in 1..n |-> list[i]]) = n
  BY <1>1
<1> QED BY <1>2

(* The candidates are those of every sub-query that survived, each chunk once.  *)
LEMMA CollectedOf ==
  ASSUME SearchInv, stage \in {"searching", "found"}
  PROVE  /\ Collected.rows \in Seq(FusedRow) /\ Distinct(Collected.rows)
         /\ \A s \in Survivors : /\ \A c : In(subs[s].out.rows, c) => In(Collected.rows, c)
                                 /\ Len(Collected.rows) >= Len(subs[s].out.rows)
<1>1. PICK n \in Nat : DOMAIN subs = 1..n
  BY DEF SearchInv
<1>2. subs = [s \in 1..n |-> subs[s]] /\ \A s \in 1..n : Shape(subs[s])
  BY <1>1 DEF SearchInv
<1>3. Len(subs) = n
  BY <1>2, LengthOf
<1> DEFINE found == [s \in 1..n |-> subs[s].out.rows]
<1>4. \A s \in 1..n : /\ subs[s].out.rows \in Seq(FusedRow)
                      /\ subs[s].out.is = "rows" => Distinct(subs[s].out.rows)
  <2> TAKE s \in 1..n
  <2> DEFINE dense == subs[s].leg["dense"].list
             sparse == subs[s].leg["sparse"].list
  <2>1. Shape(subs[s])
    BY <1>2
  <2>2. dense \in Seq(Chunks) /\ Once(dense) /\ sparse \in Seq(Chunks) /\ Once(sparse)
    BY <2>1 DEF Shape, Legs
  <2>3. subs[s].out.rows = IF subs[s].out.is = "rows" THEN FilterThenCut(dense, sparse) ELSE <<>>
    BY <2>1 DEF Shape
  <2> HIDE DEF dense, sparse
  <2>4. FilterThenCut(dense, sparse) \in Seq(FusedRow) /\ Distinct(FilterThenCut(dense, sparse))
    BY <2>2, FilterThenCutOf
  <2>5. CASE subs[s].out.is = "rows"
    BY <2>3, <2>4, <2>5
  <2>6. CASE subs[s].out.is # "rows"
    BY <2>3, <2>6
  <2> QED BY <2>5, <2>6
<1>5. found \in [1..n -> Seq(FusedRow)] /\ \A s \in 1..n : found[s] = subs[s].out.rows
  BY <1>4
<1>6. [s \in DOMAIN subs |-> subs[s].out.rows] = found
  BY <1>1
<1> HIDE DEF found
<1>7. /\ MergeFanout(found) \in Seq(FusedRow) /\ Distinct(MergeFanout(found))
      /\ \A s \in 1..n : \A c : In(found[s], c) => In(MergeFanout(found), c)
      /\ \A s \in 1..n : Distinct(found[s]) => Len(MergeFanout(found)) >= Len(found[s])
  BY <1>5, MergeOf
<1>8. \A s \in Survivors : s \in 1..n /\ subs[s].out.is = "rows"
  BY <1>1 DEF Survivors
<1>9. CASE Survivors = {}
  <2>1. Collected.rows = <<>>
    BY <1>9 DEF Collected
  <2>2. <<>> \in Seq(FusedRow) /\ Distinct(<<>>)
    BY DEF Distinct
  <2> QED BY <1>9, <2>1, <2>2
<1>10. CASE Survivors # {} /\ n = 1
  <2>1. Collected.rows = subs[1].out.rows
    BY <1>3, <1>10 DEF Collected
  <2>2. \A s \in Survivors : s = 1
    BY <1>8, <1>10
  <2>3. 1 \in Survivors /\ 1 \in 1..n
    BY <1>8, <1>10, <2>2
  <2>4. subs[1].out.rows \in Seq(FusedRow) /\ Distinct(subs[1].out.rows)
    BY <1>4, <1>8, <2>3
  <2>5. Len(subs[1].out.rows) \in Nat
    BY <2>4
  <2>6. \A s \in Survivors : subs[s].out.rows = Collected.rows
    BY <2>1, <2>2
  <2> QED BY <2>1, <2>4, <2>5, <2>6
<1>11. CASE Survivors # {} /\ n # 1
  <2>1. Collected.rows = MergeFanout(found)
    BY <1>3, <1>6, <1>11 DEF Collected
  <2>2. \A s \in Survivors : s \in 1..n /\ found[s] = subs[s].out.rows /\ Distinct(found[s])
    BY <1>4, <1>5, <1>8
  <2> QED BY <1>7, <2>1, <2>2
<1> QED BY <1>9, <1>10, <1>11

LEMMA Lengths ==
  /\ Limit \in Nat \ {0}
  /\ Depth \in Nat \ {0}
<1>1. {RerankTopK, FusionTopK, MaxContext, GenCap} \subseteq Nat \ {0}
  BY RoundAssumption
<1>2. Limit \in Nat \ {0}
  BY <1>1 DEF Limit, Smaller
<1> DEFINE S == {RerankTopK, FusionTopK, Limit}
<1>3. \E x \in S : \A y \in S : x >= y
  BY <1>1, <1>2
<1>4. Max(S) \in S
  BY <1>3 DEF Max
<1> QED BY <1>1, <1>2, <1>4 DEF Depth

LEMMA SliceOf ==
  ASSUME NEW T, NEW list \in Seq(T), NEW limit \in Nat \ {0}
  PROVE  /\ Slice(list, limit) \in Seq(T) /\ First(limit, list) \in Seq(T)
         /\ list # <<>> => Slice(list, limit)[1] = list[1]
         /\ list # <<>> => First(limit, list) # <<>>
<1>1. ASSUME NEW n \in Nat \ {0}
      PROVE  First(n, list) \in Seq(T) /\ (list # <<>> => First(n, list)[1] = list[1] /\ First(n, list) # <<>>)
  <2>1. /\ First(n, list) \in Seq(T) /\ Len(First(n, list)) = Smaller(n, Len(list))
        /\ \A i \in 1..Smaller(n, Len(list)) : First(n, list)[i] = list[i]
    BY FirstOf
  <2>2. ASSUME list # <<>> PROVE Smaller(n, Len(list)) \in Nat /\ Smaller(n, Len(list)) >= 1
    <3>1. Len(list) \in Nat /\ Len(list) >= 1
      BY <2>2
    <3> QED BY <3>1 DEF Smaller
  <2>3. ASSUME list # <<>> PROVE First(n, list)[1] = list[1] /\ First(n, list) # <<>>
    <3>1. 1 \in 1..Smaller(n, Len(list))
      BY <2>2, <2>3
    <3>2. Len(First(n, list)) # 0
      BY <2>1, <2>2, <2>3
    <3> QED BY <2>1, <3>1, <3>2
  <2> QED BY <2>1, <2>3
<1>2. Smaller(limit, Window) \in Nat \ {0}
  BY FusionAssumption DEF Smaller
<1>3. Slice(list, limit) = First(limit, list) \/ Slice(list, limit) = First(Smaller(limit, Window), list)
  BY DEF Slice
<1>4. /\ First(limit, list) \in Seq(T)
      /\ list # <<>> => First(limit, list)[1] = list[1] /\ First(limit, list) # <<>>
  BY <1>1
<1>5. /\ First(Smaller(limit, Window), list) \in Seq(T)
      /\ list # <<>> => First(Smaller(limit, Window), list)[1] = list[1]
  BY <1>1, <1>2
<1> QED BY <1>3, <1>4, <1>5, Zenon

-----------------------------------------------------------------------------
(* The evidence of a context.                                                   *)

Record == [chunk : Chunks \cup Address, status : {"VERIFIED", "CORRUPTED", "EXTERNAL_UNAUDITED"}]
At(list, places) == [i \in DOMAIN places |-> list[places[i]].chunk]

(* Places of records of a status, in their order.                               *)
Marked(list, places, status) ==
  /\ places \in Seq(Nat)
  /\ \A i \in DOMAIN places : places[i] \in DOMAIN list /\ list[places[i]].status = status
  /\ \A i, j \in DOMAIN places : i < j => places[i] < places[j]

LEMMA PositionsOf ==
  ASSUME NEW list \in Seq(Record), NEW status, NEW n \in Nat
  PROVE  LET first == First(n, Positions(list, status))
         IN  Marked(list, first, status) /\ Len(first) <= n
<1> DEFINE P == {i \in DOMAIN list : list[i].status = status}
           at == Ascending(P)
           m == Cardinality(P)
           first == First(n, at)
<1>1. P \in SUBSET DOMAIN list /\ \A i \in P : list[i].status = status
  OBVIOUS
<1>2. Positions(list, status) = at
  BY DEF Positions
<1> HIDE DEF P
<1>3. P \in SUBSET Nat /\ IsFiniteSet(P)
  BY <1>1, PlacesFinite
<1>4. /\ m \in Nat /\ at \in [1..m -> P]
      /\ \A i, j \in 1..m : i < j => at[i] < at[j]
  BY <1>3, AscendingOnce
<1> HIDE DEF at, m
<1>5. at \in Seq(Nat) /\ Len(at) = m
  <2>1. at = [i \in 1..m |-> at[i]] /\ \A i \in 1..m : at[i] \in Nat
    BY <1>3, <1>4
  <2>2. [i \in 1..m |-> at[i]] \in Seq(Nat) /\ Len([i \in 1..m |-> at[i]]) = m
    BY <1>4, <2>1
  <2> QED BY <2>1, <2>2
<1>6. /\ first \in Seq(Nat) /\ Len(first) = Smaller(n, m) /\ Smaller(n, m) \in 0..m /\ Smaller(n, m) <= n
      /\ \A i \in 1..Smaller(n, m) : first[i] = at[i]
  BY <1>5, FirstOf
<1> HIDE DEF first
<1>7. DOMAIN first \in SUBSET (1..m) /\ \A i \in DOMAIN first : first[i] = at[i]
  BY <1>4, <1>6
<1>8. \A i \in DOMAIN first : first[i] \in DOMAIN list /\ list[first[i]].status = status
  BY <1>1, <1>4, <1>7
<1>9. \A i, j \in DOMAIN first : i < j => first[i] < first[j]
  BY <1>4, <1>7
<1>10. Len(first) <= n
  BY <1>6
<1>11. Marked(list, first, status)
  BY <1>6, <1>8, <1>9 DEF Marked
<1> QED BY <1>2, <1>10, <1>11 DEF first

(* What ContextIsEvidence says of the places, the chunks and the records.       *)
Aligned(list, places, chunks, n) ==
  /\ Len(chunks) = Len(places)
  /\ \A i \in DOMAIN places : list[places[i]].chunk = chunks[i] /\ list[places[i]].status # "CORRUPTED"
  /\ \A i, j \in DOMAIN places : i < j =>
       /\ places[i] # places[j]
       /\ list[places[j]].status = "VERIFIED" => list[places[i]].status = "VERIFIED"
  /\ Cardinality({i \in DOMAIN places : list[places[i]].status = "VERIFIED"}) <= n

(* Verified records in front of external ones, and the chunks of both.          *)
LEMMA ContextOf ==
  ASSUME NEW list \in Seq(Record), NEW n \in Nat,
         NEW front, Marked(list, front, "VERIFIED"), Len(front) <= n,
         NEW back, Marked(list, back, "EXTERNAL_UNAUDITED")
  PROVE  Aligned(list, front \o back, At(list, front) \o At(list, back), n)
<1> DEFINE p == Len(front)
           q == Len(back)
           all == front \o back
           chunks == At(list, front) \o At(list, back)
           one == At(list, front)
           two == At(list, back)
<1> front \in Seq(Nat) /\ back \in Seq(Nat)
  BY DEF Marked
<1>1. p \in Nat /\ q \in Nat /\ DOMAIN front = 1..p /\ DOMAIN back = 1..q
  OBVIOUS
<1>0. /\ \A i \in 1..p : front[i] \in DOMAIN list /\ list[front[i]].status = "VERIFIED"
      /\ \A i, j \in 1..p : i < j => front[i] < front[j]
      /\ \A i \in 1..q : back[i] \in DOMAIN list /\ list[back[i]].status = "EXTERNAL_UNAUDITED"
      /\ \A i, j \in 1..q : i < j => back[i] < back[j]
  BY <1>1 DEF Marked
<1>2. all \in Seq(Nat) /\ Len(all) = p + q /\ \A i \in 1..(p + q) : all[i] = IF i <= p THEN front[i] ELSE back[i - p]
  OBVIOUS
<1>3. \A i \in 1..p : front[i] \in Nat /\ front[i] \in DOMAIN list
  BY <1>0
<1>4. \A i \in 1..q : back[i] \in Nat /\ back[i] \in DOMAIN list
  BY <1>0
<1> HIDE DEF p, q, all
<1>5. \A i \in DOMAIN list : list[i].chunk \in Chunks \cup Address
  <2>1. \A i \in DOMAIN list : list[i] \in Record
    OBVIOUS
  <2> QED BY <2>1 DEF Record
<1>6. one \in Seq(Chunks \cup Address) /\ Len(one) = p /\ \A i \in 1..p : one[i] = list[front[i]].chunk
  <2>1. one = [i \in 1..p |-> list[front[i]].chunk]
    BY <1>1 DEF At
  <2>2. \A i \in 1..p : list[front[i]].chunk \in Chunks \cup Address
    BY <1>3, <1>5
  <2> HIDE DEF one
  <2> QED BY <1>1, <2>1, <2>2
<1>7. two \in Seq(Chunks \cup Address) /\ Len(two) = q /\ \A i \in 1..q : two[i] = list[back[i]].chunk
  <2>1. two = [i \in 1..q |-> list[back[i]].chunk]
    BY <1>1 DEF At
  <2>2. \A i \in 1..q : list[back[i]].chunk \in Chunks \cup Address
    BY <1>4, <1>5
  <2> HIDE DEF two
  <2> QED BY <1>1, <2>1, <2>2
<1> HIDE DEF one, two
<1>8. Len(chunks) = p + q /\ \A i \in 1..(p + q) : chunks[i] = IF i <= p THEN one[i] ELSE two[i - p]
  <2>1. chunks = one \o two
    BY DEF one, two, chunks
  <2> HIDE DEF chunks
  <2>2. one \in Seq(Chunks \cup Address) /\ two \in Seq(Chunks \cup Address)
    BY <1>6, <1>7
  <2>3. /\ Len(one \o two) = Len(one) + Len(two)
        /\ \A i \in 1..(Len(one) + Len(two)) : (one \o two)[i] = IF i <= Len(one) THEN one[i] ELSE two[i - Len(one)]
    BY <2>2
  <2>4. Len(one) = p /\ Len(two) = q
    BY <1>6, <1>7
  <2> QED BY <2>1, <2>3, <2>4
<1> HIDE DEF chunks
<1>9. DOMAIN all = 1..(p + q)
  BY <1>1, <1>2
<1>10. \A i \in 1..(p + q) : (i <= p => i \in 1..p) /\ (~(i <= p) => i - p \in 1..q)
  BY <1>1
<1>11. \A i \in 1..(p + q) : /\ list[all[i]].chunk = chunks[i]
                             /\ i <= p => list[all[i]].status = "VERIFIED"
                             /\ ~(i <= p) => list[all[i]].status = "EXTERNAL_UNAUDITED"
  <2> TAKE i \in 1..(p + q)
  <2>1. CASE i <= p
    <3>1. i \in 1..p /\ all[i] = front[i] /\ chunks[i] = one[i]
      BY <1>2, <1>8, <1>10, <2>1
    <3>2. chunks[i] = list[front[i]].chunk /\ list[front[i]].status = "VERIFIED"
      BY <1>0, <1>6, <3>1
    <3> QED BY <2>1, <3>1, <3>2
  <2>2. CASE ~(i <= p)
    <3>1. i - p \in 1..q /\ all[i] = back[i - p] /\ chunks[i] = two[i - p]
      BY <1>2, <1>8, <1>10, <2>2
    <3> DEFINE k == i - p
    <3>2. k \in 1..q /\ all[i] = back[k] /\ chunks[i] = two[k]
      BY <3>1
    <3> HIDE DEF k
    <3>3. chunks[i] = list[back[k]].chunk /\ list[back[k]].status = "EXTERNAL_UNAUDITED"
      BY <1>0, <1>7, <3>2
    <3> QED BY <2>2, <3>2, <3>3
  <2> QED BY <2>1, <2>2
<1>12. \A i, j \in 1..(p + q) : i < j =>
              /\ all[i] # all[j]
              /\ list[all[j]].status = "VERIFIED" => list[all[i]].status = "VERIFIED"
  <2> SUFFICES ASSUME NEW i \in 1..(p + q), NEW j \in 1..(p + q), i < j
               PROVE  /\ all[i] # all[j]
                      /\ list[all[j]].status = "VERIFIED" => list[all[i]].status = "VERIFIED"
    OBVIOUS
  <2>1. CASE j <= p
    <3>1. i <= p /\ i \in 1..p /\ j \in 1..p
      BY <1>1, <1>10, <2>1
    <3>2. all[i] = front[i] /\ all[j] = front[j] /\ front[i] < front[j]
      BY <1>0, <1>2, <1>9, <2>1, <3>1
    <3>3. all[i] # all[j]
      BY <1>3, <3>1, <3>2
    <3> QED BY <1>11, <3>1, <3>3
  <2>2. CASE ~(j <= p) /\ i <= p
    <3>1. list[all[i]].status = "VERIFIED" /\ list[all[j]].status = "EXTERNAL_UNAUDITED"
      BY <1>11, <2>2
    <3> QED BY <3>1
  <2>3. CASE ~(j <= p) /\ ~(i <= p)
    <3>1. i - p \in 1..q /\ j - p \in 1..q /\ i - p < j - p
      BY <1>1, <1>10, <2>3
    <3>2. all[i] = back[i - p] /\ all[j] = back[j - p] /\ back[i - p] < back[j - p]
      BY <1>0, <1>2, <1>9, <2>3, <3>1
    <3>3. all[i] # all[j]
      BY <1>4, <3>1, <3>2
    <3>4. list[all[j]].status = "EXTERNAL_UNAUDITED"
      BY <1>11, <2>3
    <3> QED BY <3>3, <3>4
  <2> QED BY <2>1, <2>2, <2>3
<1> DEFINE V == {i \in DOMAIN all : list[all[i]].status = "VERIFIED"}
<1>13. V \in SUBSET (1..p)
  <2> SUFFICES ASSUME NEW i \in 1..(p + q), list[all[i]].status = "VERIFIED" PROVE i \in 1..p
    BY <1>9
  <2> QED BY <1>10, <1>11
<1>14. IsFiniteSet(1..p) /\ Cardinality(1..p) = p
  BY <1>1, FS_Interval
<1> HIDE DEF V
<1>15. Cardinality(V) <= p /\ Cardinality(V) \in Nat
  BY <1>13, <1>14, FS_Subset, FS_CardinalityType
<1>16. Cardinality(V) <= n
  BY <1>1, <1>15 DEF p
<1>17. Len(chunks) = Len(all)
  BY <1>2, <1>8
<1>18. \A i \in DOMAIN all : list[all[i]].chunk = chunks[i] /\ list[all[i]].status # "CORRUPTED"
  <2> SUFFICES ASSUME NEW i \in 1..(p + q)
               PROVE  list[all[i]].chunk = chunks[i] /\ list[all[i]].status # "CORRUPTED"
    BY <1>9
  <2>1. list[all[i]].status = "VERIFIED" \/ list[all[i]].status = "EXTERNAL_UNAUDITED"
    BY <1>11
  <2> QED BY <1>11, <2>1
<1>19. \A i, j \in DOMAIN all : i < j =>
              /\ all[i] # all[j]
              /\ list[all[j]].status = "VERIFIED" => list[all[i]].status = "VERIFIED"
  BY <1>9, <1>12
<1>20. Aligned(list, all, chunks, n)
  BY <1>16, <1>17, <1>18, <1>19 DEF V, Aligned
<1> QED BY <1>20 DEF all, chunks

-----------------------------------------------------------------------------
(* Found rows are those of the sub-queries, ranked rows and audited records are *)
(* what they should be, and the cache is true: with the invariant of the search *)
(* it is inductive.                                                             *)
FoundInv == stage = "found" => rows = Collected.rows
RankedInv == stage = "ranked" => rows \in Seq(FusedRow \cup RankedRow)
CacheInv == Good(cache) /\ Len(cache) <= CacheSize
AuditInv == stage \in {"audited", "grounded"} => audited \in Seq(Record)
WorkInv == FoundInv /\ RankedInv /\ CacheInv /\ AuditInv /\ LeaderWasScored /\ ContextIsEvidence

(* Steps that leave nothing to look at.                                         *)
LEMMA QuietStep ==
  ASSUME CacheInv, cache' = cache, stage' \in {"searching", "emptyKB", "outage", "error"}
  PROVE  WorkInv'
  BY DEF WorkInv, FoundInv, RankedInv, CacheInv, AuditInv, LeaderWasScored, ContextIsEvidence, Good, True, Distinct

\* The same where a thread that was left behind has written to the cache.
LEMMA LeftBehindStep ==
  ASSUME Good(cache'), Len(cache') <= CacheSize, stage' = "error"
  PROVE  WorkInv'
<1>1. CacheInv'
  BY DEF CacheInv, Good, True, Distinct
<1> QED BY <1>1 DEF WorkInv, FoundInv, RankedInv, AuditInv, LeaderWasScored, ContextIsEvidence

LEMMA TopStep ==
  ASSUME NEW top, NEW byModel, NEW newCache, Top(top, byModel, newCache),
         top \in Seq(FusedRow \cup RankedRow), byModel => top[1].rerank = Relevance[top[1].chunk],
         Good(newCache), Len(newCache) <= CacheSize
  PROVE  WorkInv'
<1>1. stage' = "ranked" /\ rows' = top /\ scored' = byModel /\ cache' = newCache
  BY DEF Top
<1>2. CacheInv'
  BY <1>1 DEF CacheInv, Good, True, Distinct
<1>3. FoundInv' /\ AuditInv' /\ ContextIsEvidence'
  BY <1>1 DEF FoundInv, AuditInv, ContextIsEvidence
<1>4. RankedInv'
  BY <1>1 DEF RankedInv
<1>5. LeaderWasScored'
  BY <1>1 DEF LeaderWasScored
<1> QED BY <1>2, <1>3, <1>4, <1>5 DEF WorkInv

LEMMA AnyRow ==
  ASSUME NEW list, list \in Seq(FusedRow) \/ list \in Seq(RankedRow)
  PROVE  list \in Seq(FusedRow \cup RankedRow)
<1>1. \A i \in DOMAIN list : list[i] \in FusedRow \cup RankedRow
  OBVIOUS
<1> DEFINE n == Len(list)
<1>2. n \in Nat /\ list = [i \in 1..n |-> list[i]] /\ DOMAIN list = 1..n
  OBVIOUS
<1> HIDE DEF n
<1>3. [i \in 1..n |-> list[i]] \in Seq(FusedRow \cup RankedRow)
  BY <1>1, <1>2
<1> QED BY <1>2, <1>3

LEMMA FoundRows ==
  ASSUME SearchInv, FoundInv, stage = "found"
  PROVE  rows \in Seq(FusedRow) /\ Distinct(rows)
<1>1. Collected.rows \in Seq(FusedRow) /\ Distinct(Collected.rows)
  BY CollectedOf
<1>2. rows = Collected.rows
  BY DEF FoundInv
<1> QED BY <1>1, <1>2

LEMMA RankByModelStep ==
  ASSUME SearchInv, WorkInv, RankByModel
  PROVE  WorkInv'
<1> DEFINE list == First(Depth, rows)
           out == Rerank(list, cache)
           top == Slice(out.rows, Limit)
<1>1. rows # <<>> /\ Top(top, TRUE, out.cache) /\ stage = "found"
  BY DEF RankByModel, Top
<1>2. rows \in Seq(FusedRow) /\ Distinct(rows)
  BY <1>1, FoundRows DEF WorkInv
<1>3. list \in Seq(FusedRow) /\ Distinct(list)
  BY <1>2, Lengths, FirstRows
<1>4. list # <<>>
  BY <1>1, <1>2, Lengths, SliceOf
<1>5. Good(cache)
  BY DEF WorkInv, CacheInv
<1> HIDE DEF list
<1>6. /\ Good(out.cache) /\ Len(out.cache) <= CacheSize
      /\ out.rows \in Seq(RankedRow) /\ Len(out.rows) = Len(list)
      /\ out.rows[1].rerank = Relevance[out.rows[1].chunk]
  BY <1>3, <1>4, <1>5, RerankOf
<1> HIDE DEF out
<1>7. out.rows # <<>>
  <2>1. Len(list) # 0
    BY <1>3, <1>4
  <2> QED BY <1>6, <2>1
<1>8. top \in Seq(RankedRow) /\ top[1] = out.rows[1]
  BY <1>6, <1>7, Lengths, SliceOf
<1> HIDE DEF top
<1>9. top \in Seq(FusedRow \cup RankedRow)
  BY <1>8, AnyRow
<1>10. top[1].rerank = Relevance[top[1].chunk]
  BY <1>6, <1>8
<1> QED BY <1>1, <1>6, <1>9, <1>10, TopStep

LEMMA NodeFailsStep ==
  ASSUME SearchInv, WorkInv, NodeFails
  PROVE  WorkInv'
<1> DEFINE list == First(Depth, rows)
           out == Rerank(list, cache)
<1>1. stage' = "error" /\ cache' \in CacheAfter
  BY DEF NodeFails
<1>2. CASE cache' = cache
  BY <1>1, <1>2, QuietStep DEF WorkInv
<1>3. CASE cache' # cache
  <2>1. stage = "found" /\ rows # <<>> /\ cache' = out.cache
    BY <1>1, <1>3 DEF CacheAfter
  <2>2. rows \in Seq(FusedRow) /\ Distinct(rows)
    BY <2>1, FoundRows DEF WorkInv
  <2>3. list \in Seq(FusedRow) /\ Distinct(list)
    BY <2>2, Lengths, FirstRows
  <2>4. list # <<>>
    BY <2>1, <2>2, Lengths, SliceOf
  <2>5. Good(cache)
    BY DEF WorkInv, CacheInv
  <2> HIDE DEF list
  <2>6. Good(out.cache) /\ Len(out.cache) <= CacheSize
    BY <2>3, <2>4, <2>5, RerankOf
  <2> HIDE DEF out
  <2>7. Good(cache') /\ Len(cache') <= CacheSize
    BY <2>1, <2>6
  <2> QED BY <1>1, <2>7, LeftBehindStep
<1> QED BY <1>2, <1>3

LEMMA RankFailsStep ==
  ASSUME SearchInv, WorkInv, RankFails
  PROVE  WorkInv'
<1> DEFINE list == First(Depth, rows)
           chunks == ChunksOf(list)
           hits == Hits(chunks, cache)
           top == First(Limit, rows)
<1>1. stage = "found"
  BY DEF RankFails, Top
<1>2. rows \in Seq(FusedRow) /\ Distinct(rows)
  BY <1>1, FoundRows DEF WorkInv
<1>3. list \in Seq(FusedRow) /\ Distinct(list) /\ DOMAIN list \subseteq DOMAIN rows /\ \A i \in DOMAIN list : list[i] = rows[i]
  <2>1. Depth \in Nat
    BY Lengths
  <2>2. /\ list \in Seq(FusedRow) /\ Len(list) = Smaller(Depth, Len(rows))
        /\ Smaller(Depth, Len(rows)) \in 0..Len(rows)
        /\ \A i \in 1..Smaller(Depth, Len(rows)) : list[i] = rows[i]
    BY <1>2, <2>1, FirstOf
  <2>3. Distinct(list)
    BY <1>2, <2>1, FirstRows
  <2>4. Len(rows) \in Nat /\ DOMAIN rows = 1..Len(rows)
    BY <1>2
  <2> HIDE DEF list
  <2>5. DOMAIN list = 1..Smaller(Depth, Len(rows))
    BY <2>2
  <2>6. DOMAIN list \subseteq DOMAIN rows
    BY <2>2, <2>4, <2>5
  <2> QED BY <2>2, <2>3, <2>5, <2>6
<1>4. [i \in DOMAIN First(Depth, rows) |-> rows[i].chunk] = chunks
  <2>1. \A i \in DOMAIN list : list[i] = rows[i]
    BY <1>3
  <2>2. [i \in DOMAIN list |-> rows[i].chunk] = [i \in DOMAIN list |-> list[i].chunk]
    BY <2>1
  <2> QED BY <2>2 DEF ChunksOf
<1>5. \E after \in {cache, Touch(cache, hits)} : Top(top, FALSE, after)
  BY <1>4 DEF RankFails
<1>6. PICK after : after \in {cache, Touch(cache, hits)} /\ Top(top, FALSE, after)
  BY <1>5
<1> HIDE DEF list
<1>7. chunks \in Seq(Chunks) /\ Once(chunks)
  BY <1>3, ChunksOfRows
<1> HIDE DEF chunks
<1>8. hits \in Seq(Chunks) /\ Once(hits) /\ \A k \in DOMAIN hits : hits[k] \in Cached(cache)
  BY <1>7, HitsOf
<1> HIDE DEF hits
<1>9. Good(cache) /\ Len(cache) <= CacheSize /\ Len(cache) \in Nat
  BY CachedSize DEF WorkInv, CacheInv
<1>10. Good(Touch(cache, hits)) /\ Len(Touch(cache, hits)) \in Nat /\ Len(Touch(cache, hits)) <= Len(cache)
  BY <1>8, <1>9, TouchOf
<1>11. CacheSize \in Nat
  BY RerankingAssumption
<1>12. Len(Touch(cache, hits)) <= CacheSize
  BY <1>9, <1>10, <1>11
<1>13. Good(after) /\ Len(after) <= CacheSize
  BY <1>6, <1>9, <1>10, <1>12
<1>14. top \in Seq(FusedRow)
  BY <1>2, Lengths, SliceOf
<1>15. top \in Seq(FusedRow \cup RankedRow)
  BY <1>14, AnyRow
<1> HIDE DEF top
<1> QED BY <1>6, <1>13, <1>15, TopStep

LEMMA RankUnchangedStep ==
  ASSUME SearchInv, WorkInv, RankUnchanged
  PROVE  WorkInv'
<1> DEFINE top == Slice(rows, Limit)
<1>1. Top(top, FALSE, cache) /\ stage = "found"
  BY DEF RankUnchanged, Top
<1>2. rows \in Seq(FusedRow) /\ Distinct(rows)
  BY <1>1, FoundRows DEF WorkInv
<1>3. top \in Seq(FusedRow)
  BY <1>2, Lengths, SliceOf
<1> HIDE DEF top
<1>4. top \in Seq(FusedRow \cup RankedRow)
  BY <1>3, AnyRow
<1>5. Good(cache) /\ Len(cache) <= CacheSize
  BY DEF WorkInv, CacheInv
<1> QED BY <1>1, <1>4, <1>5, TopStep

LEMMA RecordsStep ==
  ASSUME CacheInv, cache' = cache, stage' \in {"audited", "grounded"}, audited' \in Seq(Record)
  PROVE  WorkInv'
  BY DEF WorkInv, FoundInv, RankedInv, CacheInv, AuditInv, LeaderWasScored, ContextIsEvidence, Good, True, Distinct

LEMMA AuditStep ==
  ASSUME WorkInv, Audit
  PROVE  WorkInv'
<1>1. PICK bad : audited' = [i \in DOMAIN rows |-> [chunk |-> rows[i].chunk, status |-> Status(rows[i].chunk, bad)]]
  BY DEF Audit
<1>2. rows \in Seq(FusedRow \cup RankedRow)
  BY DEF Audit, WorkInv, RankedInv
<1> DEFINE n == Len(rows)
           record(i) == [chunk |-> rows[i].chunk, status |-> Status(rows[i].chunk, bad)]
<1>3. n \in Nat /\ DOMAIN rows = 1..n /\ \A i \in 1..n : rows[i] \in FusedRow \cup RankedRow
  BY <1>2
<1> HIDE DEF n
<1>4. \A i \in 1..n : record(i) \in Record
  <2> TAKE i \in 1..n
  <2>1. rows[i].chunk \in Chunks
    BY <1>3 DEF FusedRow, RankedRow
  <2>2. Status(rows[i].chunk, bad) \in {"VERIFIED", "CORRUPTED", "EXTERNAL_UNAUDITED"}
    BY DEF Status
  <2> QED BY <2>1, <2>2 DEF Record
<1>5. audited' = [i \in 1..n |-> record(i)]
  BY <1>1, <1>3
<1> HIDE DEF record
<1>6. audited' \in Seq(Record)
  BY <1>3, <1>4, <1>5
<1>7. stage' = "audited" /\ cache' = cache
  BY DEF Audit
<1> QED BY <1>6, <1>7, RecordsStep DEF WorkInv

LEMMA GroundStep ==
  ASSUME WorkInv, Ground
  PROVE  WorkInv'
<1>1. PICK items \in WebItems :
        audited' = audited \o [i \in DOMAIN items |-> [chunk |-> items[i], status |-> "EXTERNAL_UNAUDITED"]]
  BY DEF Ground
<1>2. items \in Seq(Address)
  BY WebItemsType
<1> DEFINE n == Len(items)
           records == [i \in DOMAIN items |-> [chunk |-> items[i], status |-> "EXTERNAL_UNAUDITED"]]
<1>3. n \in Nat /\ DOMAIN items = 1..n /\ \A i \in 1..n : items[i] \in Address
  BY <1>2
<1> HIDE DEF n
<1>4. records \in Seq(Record)
  <2>1. \A i \in 1..n : [chunk |-> items[i], status |-> "EXTERNAL_UNAUDITED"] \in Record
    BY <1>3 DEF Record
  <2> QED BY <1>3, <2>1
<1>5. audited \in Seq(Record)
  BY DEF Ground, WorkInv, AuditInv
<1> HIDE DEF records
<1>6. audited \o records \in Seq(Record)
  BY <1>4, <1>5
<1>7. audited' = audited \o records
  BY <1>1 DEF records
<1>8. stage' = "grounded" /\ cache' = cache
  BY DEF Ground
<1> QED BY <1>6, <1>7, <1>8, RecordsStep DEF WorkInv

LEMMA SaveStep ==
  ASSUME WorkInv, Save
  PROVE  WorkInv'
<1> DEFINE list == audited
           verified == Positions(audited, "VERIFIED")
           external == IF Providers = {} THEN <<>> ELSE First(WebCap, Positions(audited, "EXTERNAL_UNAUDITED"))
           front == First(GenCap, verified)
<1>1. /\ stage' = "ready" /\ cache' = cache /\ evidence' = audited
      /\ context' = At(audited, front) \o At(audited, external)
      /\ ids' = front \o external
  BY DEF Save, At, VerifiedIds
<1>2. audited \in Seq(Record)
  BY DEF Save, WorkInv, AuditInv
<1>3. GenCap \in Nat /\ WebCap \in Nat
  BY RoundAssumption
<1>4. Marked(audited, front, "VERIFIED") /\ Len(front) <= GenCap
  BY <1>2, <1>3, PositionsOf
<1>5. Marked(audited, external, "EXTERNAL_UNAUDITED")
  <2>1. CASE Providers = {}
    BY <2>1 DEF Marked
  <2>2. CASE Providers # {}
    <3> DEFINE first == First(WebCap, Positions(audited, "EXTERNAL_UNAUDITED"))
    <3>1. Marked(audited, first, "EXTERNAL_UNAUDITED")
      BY <1>2, <1>3, PositionsOf
    <3>2. external = first
      BY <2>2
    <3> HIDE DEF external, first
    <3> QED BY <3>1, <3>2
  <2> QED BY <2>1, <2>2
<1> HIDE DEF front, external, verified
<1>6. Aligned(audited, front \o external, At(audited, front) \o At(audited, external), GenCap)
  BY <1>2, <1>3, <1>4, <1>5, ContextOf
<1>7. Aligned(evidence', ids', context', GenCap)
  BY <1>1, <1>6
<1>9. ContextIsEvidence'
  BY <1>7 DEF ContextIsEvidence, Aligned
<1>10. CacheInv'
  BY <1>1 DEF WorkInv, CacheInv, Good, True, Distinct
<1>11. FoundInv' /\ RankedInv' /\ AuditInv' /\ LeaderWasScored'
  BY <1>1 DEF FoundInv, RankedInv, AuditInv, LeaderWasScored
<1> QED BY <1>9, <1>10, <1>11 DEF WorkInv

LEMMA CollectStep ==
  ASSUME WorkInv, Collect
  PROVE  WorkInv'
<1>1. /\ stage' = IF healing THEN "found" ELSE Collected.stage
      /\ rows' = Collected.rows /\ subs' = subs /\ cache' = cache
  BY DEF Collect
<1>2. Collected' = Collected
  BY <1>1 DEF Collected, Survivors
<1>3. stage' \in {"found", "outage", "error"}
  BY <1>1, CollectedStage
<1>4. CASE stage' = "found"
  <2>1. FoundInv'
    BY <1>1, <1>2 DEF FoundInv
  <2>2. RankedInv' /\ AuditInv' /\ LeaderWasScored' /\ ContextIsEvidence'
    BY <1>4 DEF RankedInv, AuditInv, LeaderWasScored, ContextIsEvidence
  <2>3. CacheInv'
    BY <1>1 DEF WorkInv, CacheInv, Good, True, Distinct
  <2> QED BY <2>1, <2>2, <2>3 DEF WorkInv
<1>5. CASE stage' # "found"
  BY <1>1, <1>3, <1>5, QuietStep DEF WorkInv
<1> QED BY <1>4, <1>5

LEMMA WorkStep ==
  ASSUME OutageInv, WorkInv, [Next]_vars
  PROVE  WorkInv'
<1>1. SearchInv /\ CacheInv
  BY DEF OutageInv, WorkInv
<1>2. ASSUME NEW n \in 1..MaxSubs, NEW asWide \in BOOLEAN, Start(n, asWide) PROVE WorkInv'
  <2>1. stage' = "searching" /\ cache' = cache
    BY <1>2 DEF Start, SearchAnew
  <2> QED BY <1>1, <2>1, QuietStep
<1>3. ASSUME NEW s \in DOMAIN subs, NEW l \in Legs, LegAnswers(s, l) \/ LegIsLate(s, l) \/ LegFails(s, l)
      PROVE  WorkInv'
  <2>1. stage' = "searching" /\ cache' = cache
    BY <1>3 DEF LegAnswers, LegIsLate, LegFails, LegEnds, SubEnds, InSearch, downstream
  <2> QED BY <1>1, <2>1, QuietStep
<1>4. ASSUME NEW s \in DOMAIN subs, SubRetrieves(s) \/ SubBreaks(s) PROVE WorkInv'
  <2>1. stage' = "searching" /\ cache' = cache
    BY <1>4 DEF SubRetrieves, SubBreaks, SubEnds, InSearch, downstream
  <2> QED BY <1>1, <2>1, QuietStep
<1>5. CASE Heal
  <2>1. stage' = "searching" /\ cache' = cache
    BY <1>5 DEF Heal, SearchAnew, downstream
  <2> QED BY <1>1, <2>1, QuietStep
<1>6. CASE EmptyKB
  <2>1. stage' = "emptyKB" /\ cache' = cache
    BY <1>6 DEF EmptyKB
  <2> QED BY <1>1, <2>1, QuietStep
<1>11. CASE NodeFails
  BY <1>1, <1>11, NodeFailsStep DEF WorkInv
<1>7. CASE UNCHANGED vars
  <2>1. Collected' = Collected /\ Cached(cache)' = Cached(cache)
    BY <1>7 DEF Collected, Survivors, vars, Cached
  <2>2. FoundInv' /\ RankedInv' /\ AuditInv' /\ LeaderWasScored' /\ ContextIsEvidence'
    BY <1>7, <2>1 DEF WorkInv, FoundInv, RankedInv, AuditInv, LeaderWasScored, ContextIsEvidence, vars
  <2>3. CacheInv'
    BY <1>7 DEF WorkInv, CacheInv, Good, True, Distinct, vars
  <2> QED BY <2>2, <2>3 DEF WorkInv
<1>8. CASE Collect
  BY <1>8, CollectStep
<1>9. CASE RankByModel \/ RankFails \/ RankUnchanged
  BY <1>1, <1>9, RankByModelStep, RankFailsStep, RankUnchangedStep
<1>10. CASE Audit \/ Ground \/ Save
  BY <1>10, AuditStep, GroundStep, SaveStep
<1> QED BY <1>2, <1>3, <1>4, <1>5, <1>6, <1>7, <1>8, <1>9, <1>10, <1>11 DEF Next

(* The inductive invariant of the node: what the search keeps, what is found,   *)
(* ranked and audited, and the cache.                                           *)
THEOREM RoundInvariant == Spec => [](OutageInv /\ WorkInv)
<1>1. Init => WorkInv
  <2> SUFFICES ASSUME Init PROVE WorkInv
    OBVIOUS
  <2>1. stage = "ready" /\ cache = <<>> /\ context = <<>> /\ ids = <<>>
    BY DEF Init
  <2>2. FoundInv /\ RankedInv /\ AuditInv /\ LeaderWasScored
    BY <2>1 DEF FoundInv, RankedInv, AuditInv, LeaderWasScored
  <2>3. CacheInv
    BY <2>1, RerankingAssumption DEF CacheInv, Good, True, Distinct
  <2>4. ContextIsEvidence
    <3> DEFINE V == {i \in DOMAIN ids : evidence[ids[i]].status = "VERIFIED"}
    <3>1. DOMAIN ids = {} /\ Len(context) = Len(ids)
      BY <2>1
    <3>2. V = {}
      BY <3>1
    <3>3. Cardinality(V) = 0
      BY <3>2, FS_EmptySet
    <3> HIDE DEF V
    <3>4. Cardinality(V) <= GenCap
      BY <3>3, RoundAssumption
    <3> QED BY <3>1, <3>4 DEF V, ContextIsEvidence
  <2> QED BY <2>2, <2>3, <2>4 DEF WorkInv
<1>2. OutageInv /\ WorkInv /\ [Next]_vars => WorkInv'
  BY WorkStep
<1> QED BY <1>1, <1>2, OutageInvariant, PTL DEF Spec

(* Evidence that a leg of a surviving sub-query returned and that may be served *)
(* is a candidate, or candidates fill the smallest budget, for any number of    *)
(* sub-queries and any lists (retrieve_hybrid_chunks, fanout_retrieve).         *)
THEOREM FreshEvidenceIsKept == Spec => []FreshEvidenceKept
<1>1. OutageInv /\ WorkInv => FreshEvidenceKept
  <2> SUFFICES ASSUME OutageInv, WorkInv, stage = "found",
                      NEW s \in Survivors, NEW l \in Legs, NEW c \in Range(subs[s].leg[l].list) \cap Live
               PROVE  (\E i \in DOMAIN rows : rows[i].chunk = c) \/ Len(rows) >= Smaller(Window, FusionTopK)
    BY DEF FreshEvidenceKept
  <2>1. SearchInv /\ rows = Collected.rows
    BY DEF OutageInv, WorkInv, FoundInv
  <2> DEFINE dense == subs[s].leg["dense"].list
             sparse == subs[s].leg["sparse"].list
             own == FilterThenCut(dense, sparse)
  <2>2. Shape(subs[s]) /\ subs[s].out.is = "rows"
    BY <2>1 DEF SearchInv, Survivors
  <2>3. dense \in Seq(Chunks) /\ Once(dense) /\ sparse \in Seq(Chunks) /\ Once(sparse)
    BY <2>2 DEF Shape, Legs
  <2>4. subs[s].out.rows = own
    BY <2>2 DEF Shape
  <2>5. c \in (Range(dense) \cup Range(sparse)) \cap Live
    BY DEF Legs
  <2> HIDE DEF dense, sparse
  <2>6. own \in Seq(FusedRow) /\ (In(own, c) \/ Len(own) >= Smaller(Window, FusionTopK))
    BY <2>3, <2>5, FilterThenCutOf
  <2> HIDE DEF own
  <2>7. /\ rows \in Seq(FusedRow)
        /\ In(own, c) => In(rows, c)
        /\ Len(rows) >= Len(own)
    <3>1. /\ Collected.rows \in Seq(FusedRow)
          /\ \A t \in Survivors : /\ \A d : In(subs[t].out.rows, d) => In(Collected.rows, d)
                                  /\ Len(Collected.rows) >= Len(subs[t].out.rows)
      BY <2>1, CollectedOf
    <3> QED BY <2>1, <2>4, <3>1
  <2>8. CASE In(own, c)
    BY <2>7, <2>8 DEF In
  <2>9. CASE Len(own) >= Smaller(Window, FusionTopK)
    <3>1. Smaller(Window, FusionTopK) \in Nat
      BY FusionAssumption, RoundAssumption DEF Smaller
    <3>2. Len(own) \in Nat /\ Len(rows) \in Nat
      BY <2>6, <2>7
    <3> QED BY <2>7, <2>9, <3>1, <3>2
  <2> QED BY <2>6, <2>8, <2>9
<1> QED BY <1>1, RoundInvariant, PTL

(* The cache holds one entry for a chunk, with the score the model gives it,    *)
(* within its size, for any number of chunks and rounds (_rerank_sync,          *)
(* _RerankerCache).                                                             *)
THEOREM CacheStaysTrue == Spec => []CacheIsTrue
<1>1. WorkInv => CacheIsTrue
  <2> SUFFICES ASSUME WorkInv PROVE CacheIsTrue
    OBVIOUS
  <2>1. Good(cache) /\ Len(cache) <= CacheSize
    BY DEF WorkInv, CacheInv
  <2>2. Cardinality(Cached(cache)) = Len(cache)
    BY <2>1, CachedSize
  <2> QED BY <2>1, <2>2 DEF CacheIsTrue, Good, True
<1> QED BY <1>1, RoundInvariant, PTL

(* What a ranking puts first was scored, although scoring stopped early and the *)
(* chunks behind got 0.0 (_rerank_sync).                                        *)
THEOREM LeadersAreScored == Spec => []LeaderWasScored
<1>1. WorkInv => LeaderWasScored
  BY DEF WorkInv
<1> QED BY <1>1, RoundInvariant, PTL

(* The context and the identifiers of its evidence are aligned, none corrupted, *)
(* the verified in front and within their cap, whatever the web answered        *)
(* (retrieval_node).                                                            *)
THEOREM ContextsAreEvidence == Spec => []ContextIsEvidence
<1>1. WorkInv => ContextIsEvidence
  BY DEF WorkInv
<1> QED BY <1>1, RoundInvariant, PTL
=============================================================================
