--------------------------- MODULE RankingProofs ---------------------------
(***************************************************************************)
(* Facts about Ranking that the search theorems rest on.  The only         *)
(* induction they need is that a nonempty finite set has a first and a     *)
(* last member, which comes from the well-foundedness of strict inclusion  *)
(* on the subsets of a finite set.                                         *)
(***************************************************************************)
EXTENDS Ranking, FiniteSetTheorems, FunctionTheorems, WellFoundedInduction, TLAPS

\* A nonempty set of natural numbers has a least one.
LEMMA LeastExists ==
    ASSUME NEW T \in SUBSET Nat, T # {}
    PROVE  \E m \in T : \A u \in T : m <= u
<1>1. PICK m \in T : \A u \in T : ~ (<<u, m>> \in OpToRel(<, Nat))
  BY NatLessThanWellFounded, WFMin
<1>2. \A u \in T : ~ (u < m)
  BY <1>1 DEF OpToRel
<1> QED
  BY <1>2

\* Better is a strict total order on a rankable set.
LEMMA BetterOrder ==
    ASSUME NEW S, Rankable(S), NEW a \in S, NEW b \in S, NEW c \in S
    PROVE  /\ ~ Better(a, a)
           /\ Better(a, b) => ~ Better(b, a)
           /\ a # b => Better(a, b) \/ Better(b, a)
           /\ Better(a, b) /\ Better(b, c) => Better(a, c)
  BY DEF Rankable, Better

\* Every nonempty finite set of finite sets has a member minimal for inclusion.
LEMMA MinimalSet ==
    ASSUME NEW S, IsFiniteSet(S), NEW F, F \subseteq SUBSET S, F # {}
    PROVE  \E m \in F : \A n \in F : n \subseteq m => n = m
<1>1. IsWellFoundedOn(StrictSubsetOrdering(S), FiniteSubsetsOf(S))
  BY FS_StrictSubsetOrderingWellFounded
<1>2. F \subseteq FiniteSubsetsOf(S)
  BY FS_Subset DEF FiniteSubsetsOf
<1>3. PICK m \in F : \A n \in F : ~ (<<n, m>> \in StrictSubsetOrdering(S))
  BY <1>1, <1>2, WFMin
<1>4. QED
  BY <1>3, <1>2 DEF StrictSubsetOrdering, FiniteSubsetsOf

\* Above is a strict subset along the order.
LEMMA AboveNested ==
    ASSUME NEW S, Rankable(S), NEW c \in S, NEW d \in S, Better(c, d)
    PROVE  /\ Above(S, c) \subseteq Above(S, d)
           /\ c \in Above(S, d)
           /\ c \notin Above(S, c)
  BY BetterOrder DEF Above

\* What ranks before one of a rankable set is finitely many of it.
LEMMA AboveFinite ==
    ASSUME NEW S, Rankable(S), NEW c
    PROVE  /\ IsFiniteSet(Above(S, c))
           /\ Cardinality(Above(S, c)) \in Nat
           /\ Above(S, c) \subseteq S
<1>1. Above(S, c) \in SUBSET S
  BY DEF Above
<1>2. QED
  BY <1>1, FS_Subset, FS_CardinalityType DEF Rankable

\* Part of a rankable set is rankable.
LEMMA RankableSubset ==
    ASSUME NEW S, Rankable(S), NEW T \in SUBSET S
    PROVE  Rankable(T)
  BY FS_Subset DEF Rankable

\* A nonempty part of a rankable set has a first member.
LEMMA FirstExists ==
    ASSUME NEW S, Rankable(S), NEW T \in SUBSET S, T # {}
    PROVE  \E c \in T : \A d \in T \ {c} : Better(c, d)
<1>1. Rankable(T)
  BY RankableSubset
<1> DEFINE F == {Above(T, c) : c \in T}
<1>2. F \subseteq SUBSET T /\ F # {}
  BY DEF Above
<1>3. IsFiniteSet(T)
  BY <1>1 DEF Rankable
<1> HIDE DEF F
<1>4. PICK m \in F : \A n \in F : n \subseteq m => n = m
  BY <1>2, <1>3, MinimalSet
<1>5. PICK c \in T : m = Above(T, c)
  BY DEF F
<1>6. ASSUME NEW d \in T \ {c}, ~ Better(c, d) PROVE FALSE
  <2>1. Better(d, c)
    BY <1>1, <1>6, BetterOrder
  <2>2. Above(T, d) \subseteq Above(T, c) /\ d \in Above(T, c) /\ d \notin Above(T, d)
    BY <1>1, <2>1, AboveNested
  <2>3. Above(T, d) \in F
    BY DEF F
  <2>4. QED
    BY <2>2, <2>3, <1>4, <1>5
<1>7. QED
  BY <1>6

\* The members of S that rank after c.
Below(S, c) == {d \in S : Better(c, d)}

\* A nonempty part of a rankable set has a last member.
LEMMA LastExists ==
    ASSUME NEW S, Rankable(S), NEW T \in SUBSET S, T # {}
    PROVE  \E c \in T : \A d \in T \ {c} : Better(d, c)
<1>1. Rankable(T)
  BY RankableSubset
<1> DEFINE F == {Below(T, c) : c \in T}
<1>2. F \subseteq SUBSET T /\ F # {}
  BY DEF Below
<1>3. IsFiniteSet(T)
  BY <1>1 DEF Rankable
<1> HIDE DEF F
<1>4. PICK m \in F : \A n \in F : n \subseteq m => n = m
  BY <1>2, <1>3, MinimalSet
<1>5. PICK c \in T : m = Below(T, c)
  BY DEF F
<1>6. ASSUME NEW d \in T \ {c}, ~ Better(d, c) PROVE FALSE
  <2>1. Better(c, d)
    BY <1>1, <1>6, BetterOrder
  <2>2. Below(T, d) \subseteq Below(T, c) /\ d \in Below(T, c) /\ d \notin Below(T, d)
    BY <1>1, <2>1, BetterOrder DEF Below
  <2>3. Below(T, d) \in F
    BY DEF F
  <2>4. QED
    BY <2>2, <2>3, <1>4, <1>5
<1>7. QED
  BY <1>6

\* Nearest is the first of a rankable set.
LEMMA NearestIsFirst ==
    ASSUME NEW S, Rankable(S), S # {}
    PROVE  /\ Nearest(S) \in S
           /\ \A d \in S \ {Nearest(S)} : Better(Nearest(S), d)
<1>1. \E c \in S : \A d \in S \ {c} : Better(c, d)
  BY FirstExists
<1>2. QED
  BY <1>1 DEF Nearest

\* Farthest is the last of a rankable set.
LEMMA FarthestIsLast ==
    ASSUME NEW S, Rankable(S), S # {}
    PROVE  /\ Farthest(S) \in S
           /\ \A d \in S \ {Farthest(S)} : Better(d, Farthest(S))
<1>1. \E c \in S : \A d \in S \ {c} : Better(d, c)
  BY LastExists
<1>2. QED
  BY <1>1 DEF Farthest

----------------------------------------------------------------------------
(* The best k *)

\* The best of a set are some of it.
LEMMA BestSubset ==
    ASSUME NEW k, NEW S
    PROVE  Best(k, S) \subseteq S
  BY DEF Best

\* The best of a rankable set are rankable.
LEMMA BestRankable ==
    ASSUME NEW k, NEW S, Rankable(S)
    PROVE  Rankable(Best(k, S))
  BY BestSubset, RankableSubset

\* What ranks before one of the best is one of the best.
LEMMA BestUpward ==
    ASSUME NEW k \in Int, NEW S, Rankable(S), NEW c \in Best(k, S), NEW d \in S, Better(d, c)
    PROVE  d \in Best(k, S)
<1>1. c \in S /\ Cardinality(Above(S, c)) < k
  BY DEF Best
<1>2. Above(S, d) \in SUBSET Above(S, c)
  BY <1>1, AboveNested
<1>3. Cardinality(Above(S, d)) <= Cardinality(Above(S, c))
  BY <1>2, AboveFinite, FS_Subset
<1>4. QED
  BY <1>1, <1>3, AboveFinite DEF Best

\* Everything is among the best k if there are no more than k.
LEMMA BestAll ==
    ASSUME NEW S, Rankable(S), NEW k \in Int, Cardinality(S) <= k
    PROVE  Best(k, S) = S
<1>1. ASSUME NEW c \in S PROVE Cardinality(Above(S, c)) < k
  <2>1. Above(S, c) \in SUBSET (S \ {c})
    BY BetterOrder DEF Above
  <2>2. IsFiniteSet(S \ {c}) /\ Cardinality(S \ {c}) = Cardinality(S) - 1
    BY FS_RemoveElement DEF Rankable
  <2>3. Cardinality(Above(S, c)) <= Cardinality(S \ {c})
    BY <2>1, <2>2, FS_Subset
  <2>4. Cardinality(S) \in Nat
    BY FS_CardinalityType DEF Rankable
  <2>5. QED
    BY <2>2, <2>3, <2>4, AboveFinite
<1>2. QED
  BY <1>1 DEF Best

\* There are min(k, |S|) of them.
LEMMA BestCardinality ==
    ASSUME NEW S, Rankable(S), NEW k \in Nat
    PROVE  Cardinality(Best(k, S)) = Lesser(k, Cardinality(S))
<1> DEFINE B == Best(k, S)
<1>1. IsFiniteSet(S) /\ Cardinality(S) \in Nat
  BY FS_CardinalityType DEF Rankable
<1>2. Rankable(B) /\ IsFiniteSet(B) /\ Cardinality(B) \in Nat /\ B \in SUBSET S
  BY BestSubset, BestRankable, FS_CardinalityType DEF Rankable
<1>3. Cardinality(B) <= k
  <2>1. CASE B = {}
    BY <2>1, FS_EmptySet
  <2>2. CASE B # {}
    <3>1. PICK w \in B : \A d \in B \ {w} : Better(d, w)
      BY <1>2, <2>2, LastExists
    <3>2. B \ {w} \in SUBSET Above(S, w)
      BY <1>2, <3>1 DEF Above
    <3>3. Cardinality(B \ {w}) <= Cardinality(Above(S, w))
      BY <3>2, AboveFinite, FS_Subset
    <3>4. Cardinality(B \ {w}) = Cardinality(B) - 1
      BY <1>2, FS_RemoveElement
    <3>5. Cardinality(Above(S, w)) < k /\ Cardinality(Above(S, w)) \in Nat
      BY AboveFinite DEF Best
    <3>6. QED
      BY <1>2, <3>3, <3>4, <3>5
  <2>3. QED
    BY <2>1, <2>2
<1>4. Cardinality(B) <= Cardinality(S)
  BY <1>1, <1>2, FS_Subset
<1>5. CASE B = S
  BY <1>1, <1>2, <1>3, <1>5 DEF Lesser
<1>6. CASE B # S
  <2> DEFINE R == S \ B
  <2>1. R # {} /\ R \in SUBSET S
    BY <1>2, <1>6
  <2> HIDE DEF R
  <2>2. PICK f \in R : \A d \in R \ {f} : Better(f, d)
    BY <2>1, FirstExists
  <2> USE DEF R
  <2>3. Above(S, f) \in SUBSET B
    <3>1. ASSUME NEW d \in S, Better(d, f), d \notin B PROVE FALSE
      BY <2>2, <3>1, BetterOrder
    <3>2. QED
      BY <3>1 DEF Above
  <2>4. Cardinality(Above(S, f)) <= Cardinality(B)
    BY <1>2, <2>3, FS_Subset
  <2>5. Cardinality(Above(S, f)) >= k
    BY AboveFinite DEF Best
  <2>6. QED
    BY <1>1, <1>2, <1>3, <1>4, <2>4, <2>5, AboveFinite DEF Lesser
<1>7. QED
  BY <1>5, <1>6

\* Ranking again after dropping what cannot be among the best.
LEMMA BestOfSuperset ==
    ASSUME NEW S, Rankable(S), NEW k \in Nat, NEW U \in SUBSET S, Best(k, S) \subseteq U
    PROVE  Best(k, U) = Best(k, S)
<1>1. Rankable(U)
  BY RankableSubset
<1>2. ASSUME NEW c \in Best(k, S) PROVE c \in Best(k, U)
  <2>1. c \in S /\ c \in U /\ Cardinality(Above(S, c)) < k
    BY <1>2 DEF Best
  <2>2. Above(U, c) \in SUBSET Above(S, c)
    BY DEF Above
  <2>3. Cardinality(Above(U, c)) <= Cardinality(Above(S, c))
    BY <2>2, AboveFinite, FS_Subset
  <2>4. QED
    BY <2>1, <2>3, <1>1, AboveFinite DEF Best
<1>3. ASSUME NEW c \in U, c \notin Best(k, S) PROVE c \notin Best(k, U)
  <2> DEFINE B == Best(k, S)
  <2>1. Rankable(B) /\ IsFiniteSet(B)
    BY BestRankable DEF Rankable
  <2>2. B \in SUBSET Above(U, c)
    <3>1. ASSUME NEW b \in B, ~ Better(b, c) PROVE FALSE
      <4>1. b \in S /\ c \in S /\ b # c
        BY <1>3, BestSubset
      <4>2. Better(c, b)
        BY <3>1, <4>1, BetterOrder
      <4>3. c \in B
        BY <4>1, <4>2, BestUpward
      <4>4. QED
        BY <4>3, <1>3
    <3>2. QED
      BY <3>1 DEF Above
  <2>3. Cardinality(B) <= Cardinality(Above(U, c))
    BY <2>2, <1>1, AboveFinite, FS_Subset
  <2>4. Cardinality(B) = Lesser(k, Cardinality(S))
    BY BestCardinality
  <2>5. Cardinality(S) > k
    <3>1. Cardinality(S) \in Nat
      BY FS_CardinalityType DEF Rankable
    <3>2. Cardinality(S) <= k => B = S
      BY <3>1, BestAll
    <3>3. QED
      BY <3>1, <3>2, <1>3
  <2>6. Cardinality(Above(U, c)) >= k
    BY <2>3, <2>4, <2>5, FS_CardinalityType DEF Lesser, Rankable
  <2>7. QED
    BY <2>6, <1>1, AboveFinite DEF Best
<1>4. QED
  BY <1>2, <1>3, BestSubset

\* One more candidate can be ranked against the best so far alone.
LEMMA BestInsert ==
    ASSUME NEW S, NEW c, Rankable(S \cup {c}), NEW k \in Nat
    PROVE  Best(k, S \cup {c}) = Best(k, Best(k, S) \cup {c})
<1> DEFINE T == S \cup {c}
<1>1. Rankable(S)
  BY RankableSubset
<1>2. Best(k, T) \subseteq Best(k, S) \cup {c}
  <2>1. ASSUME NEW d \in Best(k, T), d # c PROVE d \in Best(k, S)
    <3>1. d \in S /\ Cardinality(Above(T, d)) < k
      BY <2>1 DEF Best
    <3>2. Above(S, d) \in SUBSET Above(T, d)
      BY DEF Above
    <3>3. Cardinality(Above(S, d)) <= Cardinality(Above(T, d))
      BY <3>2, AboveFinite, FS_Subset
    <3>4. QED
      BY <3>1, <3>3, <1>1, AboveFinite DEF Best
  <2>2. QED
    BY <2>1
<1>3. Best(k, S) \cup {c} \in SUBSET T
  BY BestSubset
<1>4. QED
  BY <1>2, <1>3, BestOfSuperset

\* Dropping the last of k + 1 leaves the best k.
LEMMA DropFarthest ==
    ASSUME NEW S, Rankable(S), NEW k \in Nat, Cardinality(S) = k + 1
    PROVE  S \ {Farthest(S)} = Best(k, S)
<1> DEFINE f == Farthest(S)
<1>1. S # {} /\ IsFiniteSet(S)
  BY FS_EmptySet DEF Rankable
<1>2. f \in S /\ \A d \in S \ {f} : Better(d, f)
  BY <1>1, FarthestIsLast
<1>3. Cardinality(S \ {f}) = k /\ IsFiniteSet(S \ {f})
  BY <1>1, <1>2, FS_RemoveElement
<1>4. Above(S, f) = S \ {f}
  BY <1>2, BetterOrder DEF Above
<1>5. f \notin Best(k, S)
  BY <1>3, <1>4 DEF Best
<1>6. Best(k, S) \in SUBSET (S \ {f})
  BY <1>5, BestSubset
<1>7. Cardinality(Best(k, S)) = k
  BY <1>3, BestCardinality DEF Lesser
<1>8. QED
  BY <1>3, <1>6, <1>7, FS_Subset

\* A bounded priority queue that holds the best k of what it was given holds
\* the best k of everything after one more.
LEMMA PushBoundedIsBest ==
    ASSUME NEW S, NEW c, Rankable(S \cup {c}), NEW k \in Nat
    PROVE  PushBounded(k, Best(k, S), c) = Best(k, S \cup {c})
<1> DEFINE B == Best(k, S)
           T == B \cup {c}
<1>1. Rankable(S) /\ Rankable(B) /\ Rankable(T)
  BY RankableSubset, BestSubset
<1>2. Best(k, S \cup {c}) = Best(k, T)
  BY BestInsert
<1>3. Cardinality(B) = Lesser(k, Cardinality(S))
  BY <1>1, BestCardinality
<1>4. Cardinality(S) \in Nat /\ Cardinality(B) \in Nat /\ Cardinality(T) \in Nat
  BY <1>1, FS_CardinalityType DEF Rankable
<1>5. Cardinality(T) <= k + 1
  BY <1>1, <1>3, <1>4, FS_AddElement DEF Rankable, Lesser
<1>6. CASE Cardinality(T) > k
  <2>1. T \ {Farthest(T)} = Best(k, T)
    BY <1>1, <1>4, <1>5, <1>6, DropFarthest
  <2>2. QED
    BY <1>2, <1>6, <2>1 DEF PushBounded
<1>7. CASE ~ (Cardinality(T) > k)
  BY <1>1, <1>2, <1>4, <1>7, BestAll DEF PushBounded
<1>8. QED
  BY <1>6, <1>7

\* A candidate that does not beat the last of a full queue changes nothing.
LEMMA BestRejects ==
    ASSUME NEW S, NEW c, c \notin S, Rankable(S \cup {c}), NEW k \in Nat, k > 0,
           Cardinality(Best(k, S)) = k, ~ Better(c, Farthest(Best(k, S)))
    PROVE  Best(k, S \cup {c}) = Best(k, S)
<1> DEFINE B == Best(k, S)
           T == B \cup {c}
           f == Farthest(B)
<1>1. Rankable(S) /\ Rankable(B) /\ Rankable(T) /\ IsFiniteSet(B)
  BY RankableSubset, BestSubset DEF Rankable
<1>2. Best(k, S \cup {c}) = Best(k, T)
  BY BestInsert
<1>3. B # {}
  BY FS_EmptySet
<1>4. f \in B /\ \A d \in B \ {f} : Better(d, f)
  BY <1>1, <1>3, FarthestIsLast
<1>5. c \notin B
  BY BestSubset
<1>6. Better(f, c)
  BY <1>1, <1>4, <1>5, BetterOrder
<1>7. \A d \in T \ {c} : Better(d, c)
  BY <1>1, <1>4, <1>6, BetterOrder
<1>8. Cardinality(T) = k + 1
  BY <1>1, <1>5, FS_AddElement
<1>9. Above(T, c) = B
  BY <1>1, <1>5, <1>7, BetterOrder DEF Above
<1>10. c \notin Best(k, T)
  BY <1>9 DEF Best
<1>11. Best(k, T) \in SUBSET B
  BY <1>10, BestSubset
<1>12. Cardinality(Best(k, T)) = k
  BY <1>1, <1>8, BestCardinality DEF Lesser
<1>13. QED
  BY <1>1, <1>2, <1>11, <1>12, FS_Subset

\* The best of the best B[w] of some parts P[w] are the best of all the parts
\* together.
LEMMA BestOfParts ==
    ASSUME NEW W, NEW S, NEW P \in [W -> SUBSET S], NEW B \in [W -> SUBSET S], NEW U,
           Rankable(S), NEW k \in Nat,
           \A w \in W : B[w] = Best(k, P[w]),
           \A c \in S : \E w \in W : c \in P[w],
           \A c : c \in U <=> \E w \in W : c \in B[w]
    PROVE  Best(k, U) = Best(k, S)
<1>1. U \in SUBSET S
  <2>1. \A w \in W : B[w] \subseteq P[w]
    BY BestSubset
  <2> QED
    BY <2>1
<1>2. ASSUME NEW c \in Best(k, S) PROVE c \in U
  <2>1. PICK w \in W : c \in P[w]
    BY BestSubset
  <2>2. P[w] \in SUBSET S
    OBVIOUS
  <2>3. Above(P[w], c) \in SUBSET Above(S, c)
    BY <2>2 DEF Above
  <2>4. Cardinality(Above(P[w], c)) <= Cardinality(Above(S, c))
    BY <2>3, AboveFinite, FS_Subset
  <2>5. Rankable(P[w])
    BY <2>2, RankableSubset
  <2>6. c \in Best(k, P[w])
    BY <2>1, <2>4, <2>5, AboveFinite DEF Best
  <2> QED
    BY <2>6
<1> QED
  BY <1>1, <1>2, BestOfSuperset

----------------------------------------------------------------------------
(* The candidates of an exact engine *)

\* Scoring n entries with distinct IDs gives n candidates that can be ranked.
LEMMA ScoredEntries ==
    ASSUME NEW n \in Nat, NEW f,
           \A e \in 0..(n - 1) : f[e].id \in Int /\ f[e].score \in Int,
           \A d, e \in 0..(n - 1) : f[d].id = f[e].id => d = e,
           NEW S, \A e \in 0..(n - 1) : f[e] \in S,
           \A c \in S : \E e \in 0..(n - 1) : f[e] = c
    PROVE  Rankable(S) /\ Cardinality(S) = n
<1> DEFINE g == [e \in 0..(n - 1) |-> f[e]]
<1>1. g \in [0..(n - 1) -> S] /\ \A c \in S : \E e \in 0..(n - 1) : g[e] = c
  OBVIOUS
<1>2. \A d, e \in 0..(n - 1) : g[d] = g[e] => d = e
  OBVIOUS
<1>3. \A c \in S : c.id \in Int /\ c.score \in Int
  OBVIOUS
<1>4. \A c, d \in S : c.id = d.id => c = d
  OBVIOUS
<1> HIDE DEF g
<1>5. g \in Bijection(0..(n - 1), S)
  BY <1>1, <1>2, Fun_IsBij
<1>6. IsFiniteSet(0..(n - 1)) /\ Cardinality(0..(n - 1)) = n
  <2>1. 0 \in Int /\ n - 1 \in Int /\ n = IF 0 > n - 1 THEN 0 ELSE (n - 1) - 0 + 1
    OBVIOUS
  <2> QED
    BY <2>1, FS_Interval
<1>7. IsFiniteSet(S) /\ Cardinality(S) = n
  BY <1>5, <1>6, Fun_ExistsBij, FS_Bijection
<1>8. Rankable(S)
  BY <1>3, <1>4, <1>7 DEF Rankable
<1> QED
  BY <1>7, <1>8

\* Asking for the lesser of k and what there is, is asking for k.
LEMMA BestWanted ==
    ASSUME NEW S, Rankable(S), NEW k \in Nat
    PROVE  /\ Best(Lesser(k, Cardinality(S)), S) = Best(k, S)
           /\ Best(k, S) \subseteq S
           /\ Cardinality(Best(k, S)) = Lesser(k, Cardinality(S))
<1>1. Cardinality(S) \in Nat
  BY FS_CardinalityType DEF Rankable
<1>2. Best(Lesser(k, Cardinality(S)), S) = Best(k, S)
  <2>1. CASE k < Cardinality(S)
    BY <2>1 DEF Lesser
  <2>2. CASE ~ (k < Cardinality(S))
    <3>1. Lesser(k, Cardinality(S)) = Cardinality(S) /\ Cardinality(S) <= k
      BY <2>2, <1>1 DEF Lesser
    <3> QED
      BY <3>1, <1>1, BestAll
  <2> QED
    BY <2>1, <2>2
<1> QED
  BY <1>2, BestSubset, BestCardinality
=============================================================================
