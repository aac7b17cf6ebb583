-------------------------- MODULE HistoryProofs ---------------------------
(***************************************************************************)
(* Theorems about four parts of MCRecords, for all values of their         *)
(* parameters: the compaction of a history, the shared notebook, the       *)
(* caches of pictures, the logins of the admin panel.  What they have in   *)
(* common is that they count: the least number of a set, folds and sums,   *)
(* about which the first sections prove what is needed.                    *)
(***************************************************************************)
EXTENDS MCRecords, TLAPS, FiniteSetTheorems, WellFoundedInduction, SequenceTheorems

\* A step of MCRecords, seen from a part.
LEMMA CpSteps == [RcNext]_RcVars => Compaction!CpNextStep \/ UNCHANGED cpAll
BY DEF RcNext, RcVars

LEMMA NbSteps == [RcNext]_RcVars => Notes!NbNext \/ UNCHANGED nbAll
BY DEF RcNext, RcVars

LEMMA ApSteps == [RcNext]_RcVars => ApNext \/ UNCHANGED apVars
BY DEF RcNext, RcVars

LEMMA ImSteps == [RcNext]_RcVars => Images!ImNext \/ UNCHANGED imAll
BY DEF RcNext, RcVars

-----------------------------------------------------------------------------
(* Numbers and folds *)

\* A nonempty set of numbers has a least one.
LEMMA LeastNat == ASSUME NEW S \in SUBSET Nat, S # {} PROVE \E x \in S : \A y \in S : x <= y
<1>. DEFINE R == OpToRel(<, Nat)
<1>1. IsWellFoundedOn(R, Nat)
  BY NatLessThanWellFounded
<1>2. \A x, y \in Nat : <<x, y>> \in R <=> x < y
  BY DEF OpToRel
<1>. HIDE DEF R
<1>3. PICK x \in S : \A y \in S : <<y, x>> \notin R
  BY <1>1, WFMin
<1>4. \A y \in S : ~(y < x)
  BY <1>2, <1>3
<1>. QED
  <2>1. ASSUME NEW y \in S PROVE x <= y
    <3>1. x \in Nat /\ y \in Nat /\ ~(y < x)
      BY <1>4
    <3>. QED
      BY <3>1
  <2>. QED
    BY <2>1

LEMMA GreatestNat ==
    ASSUME NEW n \in Nat, NEW S \in SUBSET (1..n), S # {} PROVE \E x \in S : \A y \in S : x >= y
<1>. DEFINE T == {n - x : x \in S}
<1>1. T \in SUBSET Nat /\ T # {}
  <2>1. \A x \in S : n - x \in Nat
    OBVIOUS
  <2>. QED
    BY <2>1
<1>. HIDE DEF T
<1>2. PICK t \in T : \A u \in T : t <= u
  BY <1>1, LeastNat
<1>3. PICK x \in S : t = n - x
  BY DEF T
<1>4. ASSUME NEW y \in S PROVE x >= y
  <2>1. n - x <= n - y
    BY <1>2, <1>3 DEF T
  <2>2. x \in Nat /\ y \in Nat
    OBVIOUS
  <2>. QED
    BY <2>1, <2>2
<1>. QED
  BY <1>4

\* Induction without an operator for a parameter: what holds is a set.
LEMMA NumbersFrom0 ==
    ASSUME NEW Good, 0 \in Good, \A n \in Nat : n \in Good => n + 1 \in Good
    PROVE  Nat \subseteq Good
<1>. DEFINE Bad == Nat \ Good
<1>. SUFFICES ASSUME Bad # {} PROVE FALSE
  OBVIOUS
<1>1. PICK m \in Bad : \A n \in Bad : m <= n
  BY LeastNat
<1>2. m # 0 /\ m \in Nat
  OBVIOUS
<1>3. m - 1 \in Nat /\ ~(m <= m - 1) /\ (m - 1) + 1 = m
  BY <1>2
<1>4. m - 1 \in Good
  BY <1>1, <1>3
<1>. QED
  BY <1>3, <1>4

LEMMA SubsetsBySize ==
    ASSUME NEW D, IsFiniteSet(D), NEW Good,
           \A s \in SUBSET D :
               (\A t \in SUBSET D : Cardinality(t) < Cardinality(s) => t \in Good) => s \in Good
    PROVE  SUBSET D \subseteq Good
<1>. DEFINE Bad == {Cardinality(s) : s \in (SUBSET D) \ Good}
<1>0. \A s \in SUBSET D : Cardinality(s) \in Nat
  BY FS_Subset, FS_CardinalityType
<1>. SUFFICES ASSUME NEW s0 \in SUBSET D, s0 \notin Good PROVE FALSE
  OBVIOUS
<1>1. Bad \in SUBSET Nat /\ Bad # {}
  BY <1>0
<1>5. \A t \in SUBSET D : t \notin Good => Cardinality(t) \in Bad
  OBVIOUS
<1>2. PICK m \in Bad : \A n \in Bad : m <= n
  BY <1>1, LeastNat
<1>3. PICK s \in (SUBSET D) \ Good : m = Cardinality(s)
  BY <1>2
<1>. HIDE DEF Bad
<1>4. ASSUME NEW t \in SUBSET D, Cardinality(t) < Cardinality(s) PROVE t \in Good
  <2>. SUFFICES ASSUME t \notin Good PROVE FALSE
    OBVIOUS
  <2>1. Cardinality(s) <= Cardinality(t)
    BY <1>2, <1>3, <1>5
  <2>2. Cardinality(s) \in Nat /\ Cardinality(t) \in Nat
    BY <1>0, <1>3
  <2>. QED
    BY <1>4, <2>1, <2>2
<1>6. s \in Good
  BY <1>3, <1>4
<1>. QED
  BY <1>3, <1>6

LEMMA OneLess ==
    ASSUME NEW s, IsFiniteSet(s), NEW x \in s
    PROVE  /\ IsFiniteSet(s \ {x}) /\ Cardinality(s) \in Nat /\ Cardinality(s) >= 1
           /\ Cardinality(s \ {x}) = Cardinality(s) - 1
<1>1. IsFiniteSet(s \ {x}) /\ Cardinality(s \ {x}) = Cardinality(s) - 1
  BY FS_RemoveElement
<1>2. Cardinality(s) \in Nat /\ Cardinality(s \ {x}) \in Nat
  BY <1>1, FS_CardinalityType
<1>. QED
  BY <1>1, <1>2

\* A fold over the subsets of a finite set, which takes out what c chooses.
Folds_(F, D, base, st, c) ==
    \A s \in SUBSET D : F[s] = IF s = {} THEN base ELSE st[c[s]][F[s \ {c[s]}]]

CanFold(D, V, base, st, c) ==
    /\ IsFiniteSet(D) /\ base \in V
    /\ \A s \in SUBSET D : s # {} => c[s] \in s
    /\ \A x \in D, v \in V : st[x][v] \in V

LEMMA FoldExists ==
    ASSUME NEW D, NEW V, NEW base, NEW st, NEW c, CanFold(D, V, base, st, c)
    PROVE  \E F \in [SUBSET D -> V] : Folds_(F, D, base, st, c)
<1>. DEFINE Small(n) == {s \in SUBSET D : Cardinality(s) <= n}
            Is(F, n) == \A s \in Small(n) : F[s] = IF s = {} THEN base ELSE st[c[s]][F[s \ {c[s]}]]
            Good == {n \in Nat : \E F \in [Small(n) -> V] : Is(F, n)}
<1>. USE DEF CanFold
<1>1. \A s \in SUBSET D : IsFiniteSet(s) /\ Cardinality(s) \in Nat /\ (Cardinality(s) = 0 <=> s = {})
  BY FS_Subset, FS_CardinalityType, FS_EmptySet
<1>2. 0 \in Good
  <2>1. Small(0) = {{}}
    <3>1. ASSUME NEW s \in SUBSET D PROVE Cardinality(s) <= 0 <=> s = {}
      <4>1. Cardinality(s) \in Nat /\ (Cardinality(s) = 0 <=> s = {})
        BY <1>1
      <4>. QED
        BY <4>1
    <3>. QED
      BY <3>1
  <2>2. [s \in {{}} |-> base] \in [{{}} -> V] /\ [s \in {{}} |-> base][{}] = base
    OBVIOUS
  <2>. QED
    BY <2>1, <2>2
<1>3. ASSUME NEW n \in Nat, n \in Good PROVE n + 1 \in Good
  <2>1. PICK G \in [Small(n) -> V] : Is(G, n)
    BY <1>3
  <2>. DEFINE F == [s \in Small(n + 1) |-> IF s = {} THEN base ELSE st[c[s]][G[s \ {c[s]}]]]
  <2>2. ASSUME NEW s \in Small(n + 1), s # {}
        PROVE  s \ {c[s]} \in Small(n) /\ c[s] \in D /\ s \ {c[s]} \in Small(n + 1)
    <3>1. s \in SUBSET D /\ Cardinality(s) <= n + 1 /\ c[s] \in s
      BY <2>2
    <3>2. Cardinality(s \ {c[s]}) = Cardinality(s) - 1 /\ Cardinality(s) \in Nat
      BY <1>1, <3>1, OneLess
    <3>3. Cardinality(s \ {c[s]}) <= n /\ Cardinality(s \ {c[s]}) <= n + 1
      BY <3>1, <3>2
    <3>. QED
      BY <3>1, <3>3
  <2>3. F \in [Small(n + 1) -> V]
    BY <2>2
  <2>4. ASSUME NEW s \in Small(n) PROVE F[s] = G[s]
    <3>1. s \in Small(n + 1)
      <4>1. Cardinality(s) \in Nat /\ Cardinality(s) <= n
        BY <1>1
      <4>2. Cardinality(s) <= n + 1
        BY <4>1
      <4>. QED
        BY <4>2
    <3>2. G[s] = IF s = {} THEN base ELSE st[c[s]][G[s \ {c[s]}]]
      BY <2>1
    <3>. QED
      BY <3>1, <3>2
  <2>5. Is(F, n + 1)
    <3>. SUFFICES ASSUME NEW s \in Small(n + 1)
                  PROVE  F[s] = IF s = {} THEN base ELSE st[c[s]][F[s \ {c[s]}]]
      OBVIOUS
    <3>1. CASE s = {}
      BY <3>1
    <3>2. CASE s # {}
      <4>1. F[s \ {c[s]}] = G[s \ {c[s]}]
        BY <2>2, <2>4, <3>2
      <4>. QED
        BY <3>2, <4>1
    <3>. QED
      BY <3>1, <3>2
  <2>6. n + 1 \in Nat
    OBVIOUS
  <2>. HIDE DEF F, Is, Small
  <2>. QED
    BY <2>3, <2>5, <2>6
<1>4. Cardinality(D) \in Good
  <2>. HIDE DEF Good
  <2>. QED
    BY <1>1, <1>2, <1>3, NumbersFrom0
<1>5. Small(Cardinality(D)) = SUBSET D
  BY FS_Subset
<1>. QED
  BY <1>4, <1>5 DEF Folds_

\* Two functions that fold in the same way are one.
LEMMA FoldUnique ==
    ASSUME NEW D, IsFiniteSet(D), NEW c, \A s \in SUBSET D : s # {} => c[s] \in s,
           NEW F, NEW G, F[{}] = G[{}],
           \A s \in SUBSET D : s # {} /\ F[s \ {c[s]}] = G[s \ {c[s]}] => F[s] = G[s]
    PROVE  \A s \in SUBSET D : F[s] = G[s]
<1>. DEFINE Good == {s \in SUBSET D : F[s] = G[s]}
<1>1. ASSUME NEW s \in SUBSET D, \A t \in SUBSET D : Cardinality(t) < Cardinality(s) => t \in Good
      PROVE  s \in Good
  <2>1. CASE s = {}
    BY <2>1
  <2>2. CASE s # {}
    <3>1. c[s] \in s /\ IsFiniteSet(s)
      BY <2>2, FS_Subset
    <3>2. Cardinality(s \ {c[s]}) < Cardinality(s) /\ s \ {c[s]} \in SUBSET D
      BY <3>1, OneLess
    <3>3. F[s \ {c[s]}] = G[s \ {c[s]}]
      BY <1>1, <3>2
    <3>. QED
      BY <2>2, <3>3
  <2>. QED
    BY <2>1, <2>2
<1>2. SUBSET D \subseteq Good
  <2>. HIDE DEF Good
  <2>. QED
    BY <1>1, SubsetsBySize
<1>. QED
  BY <1>2

\* Two functions that fold D in the same way.
Alike(D, c, F, G) ==
    /\ IsFiniteSet(D) /\ F[{}] = G[{}]
    /\ \A s \in SUBSET D : s # {} => c[s] \in s
    /\ \A s \in SUBSET D : s # {} /\ F[s \ {c[s]}] = G[s \ {c[s]}] => F[s] = G[s]

LEMMA AlikeIsOne == ASSUME NEW D, NEW c, NEW F, NEW G, Alike(D, c, F, G) PROVE F[D] = G[D]
<1>. USE DEF Alike
<1>1. IsFiniteSet(D) /\ F[{}] = G[{}]
  OBVIOUS
<1>2. \A s \in SUBSET D : s # {} => c[s] \in s
  OBVIOUS
<1>3. \A s \in SUBSET D : s # {} /\ F[s \ {c[s]}] = G[s \ {c[s]}] => F[s] = G[s]
  OBVIOUS
<1>. HIDE DEF Alike
<1>4. \A s \in SUBSET D : F[s] = G[s]
  BY <1>1, <1>2, <1>3, FoldUnique
<1>. QED
  BY <1>4

\* Induction over sequences, from the front: what holds is a set.
LEMMA SeqsByAppend ==
    ASSUME NEW X, NEW Good, << >> \in Good,
           \A s \in Seq(X), x \in X : s \in Good => Append(s, x) \in Good
    PROVE  Seq(X) \subseteq Good
<1>. DEFINE N == {n \in Nat : \A s \in Seq(X) : Len(s) = n => s \in Good}
<1>1. 0 \in N
  <2>1. \A s \in Seq(X) : Len(s) = 0 => s = << >>
    OBVIOUS
  <2>. QED
    BY <2>1
<1>2. ASSUME NEW n \in Nat, n \in N PROVE n + 1 \in N
  <2>1. ASSUME NEW s \in Seq(X), Len(s) = n + 1 PROVE s \in Good
    <3>. DEFINE p == SubSeq(s, 1, n)
                x == s[n + 1]
    <3>1. p \in Seq(X) /\ Len(p) = n /\ x \in X /\ s = Append(p, x)
      BY <2>1
    <3>. HIDE DEF p, x
    <3>2. p \in Good
      BY <1>2, <3>1
    <3>. QED
      BY <3>1, <3>2
  <2>. QED
    BY <2>1
<1>. HIDE DEF N
<1>3. Nat \subseteq N
  BY <1>1, <1>2, NumbersFrom0
<1>4. \A s \in Seq(X) : Len(s) \in N
  BY <1>3
<1>. QED
  BY <1>4 DEF N

-----------------------------------------------------------------------------
(* Sums *)

One(s) == CHOOSE x \in s : TRUE

IsSum(F, D, w) == \A s \in SUBSET D : F[s] = IF s = {} THEN 0 ELSE w[One(s)] + F[s \ {One(s)}]

\* The sum of the weights of D, as the library folds it.
Total(D, w) ==
    (CHOOSE iter : iter = [s \in SUBSET D |-> IF s = {} THEN 0 ELSE w[One(s)] + iter[s \ {One(s)}]])[D]

LEMMA SumExists ==
    ASSUME NEW D, IsFiniteSet(D), NEW w \in [D -> Nat]
    PROVE  \E F \in [SUBSET D -> Nat] : IsSum(F, D, w) /\ Total(D, w) = F[D]
<1>. DEFINE c == [s \in SUBSET D |-> One(s)]
            st == [x \in D |-> [v \in Nat |-> w[x] + v]]
<1>1. \A s \in SUBSET D : c[s] = One(s) /\ (s # {} => One(s) \in s)
  BY DEF One
<1>2. \A x \in D, v \in Nat : st[x][v] = w[x] + v /\ st[x][v] \in Nat
  OBVIOUS
<1>. HIDE DEF c, st
<1>3. PICK F \in [SUBSET D -> Nat] : Folds_(F, D, 0, st, c)
  <2>1. 0 \in Nat
    OBVIOUS
  <2>2. \A s \in SUBSET D : s # {} => c[s] \in s
    BY <1>1
  <2>3. \A x \in D, v \in Nat : st[x][v] \in Nat
    BY <1>2
  <2>4. CanFold(D, Nat, 0, st, c)
    BY <2>1, <2>2, <2>3 DEF CanFold
  <2>. QED
    BY <2>4, FoldExists
<1>4. IsSum(F, D, w)
  <2>. SUFFICES ASSUME NEW s \in SUBSET D PROVE F[s] = IF s = {} THEN 0 ELSE w[One(s)] + F[s \ {One(s)}]
    BY DEF IsSum
  <2>1. F[s] = IF s = {} THEN 0 ELSE st[c[s]][F[s \ {c[s]}]]
    BY <1>3 DEF Folds_
  <2>2. F[s \ {One(s)}] \in Nat
    BY <1>3
  <2>. QED
    BY <1>1, <1>2, <2>1, <2>2
<1>5. F = [s \in SUBSET D |-> IF s = {} THEN 0 ELSE w[One(s)] + F[s \ {One(s)}]]
  BY <1>4 DEF IsSum
<1>. DEFINE G == CHOOSE iter : iter = [s \in SUBSET D |-> IF s = {} THEN 0 ELSE w[One(s)] + iter[s \ {One(s)}]]
<1>6. G = [s \in SUBSET D |-> IF s = {} THEN 0 ELSE w[One(s)] + G[s \ {One(s)}]]
  BY <1>5
<1>7. Total(D, w) = G[D]
  BY DEF Total
<1>. HIDE DEF G
<1>8. \A s \in SUBSET D : G[s] = IF s = {} THEN 0 ELSE w[One(s)] + G[s \ {One(s)}]
  BY <1>6
<1>9. \A s \in SUBSET D : F[s] = G[s]
  <2>1. F[{}] = G[{}]
    BY <1>4, <1>8 DEF IsSum
  <2>2. \A s \in SUBSET D : s # {} /\ F[s \ {c[s]}] = G[s \ {c[s]}] => F[s] = G[s]
    BY <1>1, <1>4, <1>8 DEF IsSum
  <2>. QED
    BY <1>1, <2>1, <2>2, FoldUnique
<1>. QED
  BY <1>4, <1>7, <1>9

\* Which member is taken out first makes no difference.
LEMMA SumWithout ==
    ASSUME NEW D, IsFiniteSet(D), NEW w \in [D -> Nat], NEW F \in [SUBSET D -> Nat], IsSum(F, D, w)
    PROVE  \A s \in SUBSET D : \A k \in s : F[s] = w[k] + F[s \ {k}]
<1>. DEFINE Good == {s \in SUBSET D : \A k \in s : F[s] = w[k] + F[s \ {k}]}
<1>1. ASSUME NEW s \in SUBSET D, \A t \in SUBSET D : Cardinality(t) < Cardinality(s) => t \in Good
      PROVE  s \in Good
  <2>. SUFFICES ASSUME NEW k \in s PROVE F[s] = w[k] + F[s \ {k}]
    OBVIOUS
  <2>. DEFINE x == One(s)
  <2>1. x \in s /\ F[s] = w[x] + F[s \ {x}]
    BY DEF One, IsSum
  <2>. HIDE DEF x
  <2>2. CASE x = k
    BY <2>1, <2>2
  <2>3. CASE x # k
    <3>1. IsFiniteSet(s)
      BY FS_Subset
    <3>2. Cardinality(s \ {x}) < Cardinality(s) /\ Cardinality(s \ {k}) < Cardinality(s)
      BY <2>1, <3>1, OneLess
    <3>3. s \ {x} \in Good /\ s \ {k} \in Good
      BY <1>1, <3>2
    <3>4. F[s \ {x}] = w[k] + F[(s \ {x}) \ {k}] /\ F[s \ {k}] = w[x] + F[(s \ {k}) \ {x}]
      BY <2>1, <2>3, <3>3
    <3>5. (s \ {x}) \ {k} = (s \ {k}) \ {x}
      OBVIOUS
    <3>6. F[(s \ {x}) \ {k}] \in Nat /\ w[x] \in Nat /\ w[k] \in Nat
      BY <2>1
    <3>7. F[s] = w[x] + (w[k] + F[(s \ {x}) \ {k}]) /\ F[s \ {k}] = w[x] + F[(s \ {x}) \ {k}]
      BY <2>1, <3>4, <3>5
    <3>. QED
      BY <3>6, <3>7
  <2>. QED
    BY <2>2, <2>3
<1>2. SUBSET D \subseteq Good
  <2>. HIDE DEF Good
  <2>. QED
    BY <1>1, SubsetsBySize
<1>. QED
  BY <1>2

\* Two sums agree where their weights do.
LEMMA SumsAgree ==
    ASSUME NEW D, IsFiniteSet(D), NEW F, NEW v, IsSum(F, D, v), NEW E, NEW G, NEW w, IsSum(G, E, w),
           D \subseteq E, \A x \in D : v[x] = w[x]
    PROVE  F[D] = G[D]
<1>. DEFINE c == [s \in SUBSET D |-> One(s)]
<1>1. \A s \in SUBSET D : c[s] = One(s) /\ (s # {} => One(s) \in s)
  BY DEF One
<1>. HIDE DEF c
<1>2. F[{}] = G[{}]
  BY DEF IsSum
<1>3. ASSUME NEW s \in SUBSET D, s # {}, F[s \ {c[s]}] = G[s \ {c[s]}] PROVE F[s] = G[s]
  <2>1. c[s] = One(s) /\ One(s) \in D
    BY <1>1, <1>3
  <2>2. F[s] = v[One(s)] + F[s \ {One(s)}]
    BY <1>3 DEF IsSum
  <2>3. G[s] = w[One(s)] + G[s \ {One(s)}]
    BY <1>3 DEF IsSum
  <2>. QED
    BY <1>3, <2>1, <2>2, <2>3
<1>4. \A s \in SUBSET D : s # {} => c[s] \in s
  BY <1>1
<1>5. \A s \in SUBSET D : s # {} /\ F[s \ {c[s]}] = G[s \ {c[s]}] => F[s] = G[s]
  BY <1>3
<1>6. \A s \in SUBSET D : F[s] = G[s]
  BY <1>2, <1>4, <1>5, FoldUnique
<1>. QED
  BY <1>6

LEMMA SumUnique ==
    ASSUME NEW D, IsFiniteSet(D), NEW F, NEW w, IsSum(F, D, w), NEW E, NEW G, IsSum(G, E, w), E = D
    PROVE  F[D] = G[D]
<1>1. D \subseteq E /\ \A x \in D : w[x] = w[x]
  OBVIOUS
<1>. QED
  BY <1>1, SumsAgree, Zenon

\* The sum without one member, or with one more.
LEMMA TotalWithout ==
    ASSUME NEW D, IsFiniteSet(D), NEW w \in [D -> Nat], NEW k \in D, NEW v \in [D \ {k} -> Nat],
           \A x \in D \ {k} : v[x] = w[x]
    PROVE  Total(D, w) = w[k] + Total(D \ {k}, v) /\ Total(D, w) \in Nat /\ Total(D \ {k}, v) \in Nat
<1>1. IsFiniteSet(D \ {k})
  BY FS_Subset
<1>2. PICK F \in [SUBSET D -> Nat] : IsSum(F, D, w) /\ Total(D, w) = F[D]
  BY SumExists
<1>3. PICK G \in [SUBSET (D \ {k}) -> Nat] : IsSum(G, D \ {k}, v) /\ Total(D \ {k}, v) = G[D \ {k}]
  BY <1>1, SumExists
<1>4. G[D \ {k}] = F[D \ {k}]
  BY <1>1, <1>2, <1>3, SumsAgree
<1>5. F[D] = w[k] + F[D \ {k}]
  BY <1>2, SumWithout
<1>. QED
  BY <1>2, <1>3, <1>4, <1>5

-----------------------------------------------------------------------------
(* Compaction *)

CpMsg ==
    [role : {"user", "assistant", "tool", "system"}, size : CpSizes \cup {1}, ids : SUBSET Nat]

IdsOf(h) == UNION {h[i].ids : i \in DOMAIN h}

\* Each result stays behind its call.
RoundsWhole(h) ==
    \A i \in DOMAIN h : h[i].role = "tool" => i > 1 /\ h[i - 1].role = "assistant"

Apart(h) == \A i, j \in DOMAIN h : i # j => h[i].ids \cap h[j].ids = {}

\* What a request that is kept must be of the history it came from.
PrefixOf(r, n, h) == r # << >> => n <= Len(h) /\ r = SubSeq(h, 1, n)

\* During a turn everything it would be taken back to is there.
CpInv ==
    /\ hist \in Seq(CpMsg) /\ RoundsWhole(hist) /\ Apart(hist)
    /\ cpNext \in Nat /\ \A n \in IdsOf(hist) : n < cpNext
    /\ kept \subseteq IdsOf(hist)
    /\ reqLen \in Nat /\ PrefixOf(req, reqLen, hist)
    /\ phase \in {"idle", "turn", "post"}
    /\ phase = "turn" =>
          /\ cpPre.len \in 0..Len(hist) /\ cpPre.reqLen \in Nat
          /\ PrefixOf(cpPre.req, cpPre.reqLen, SubSeq(hist, 1, cpPre.len))
          /\ kept \subseteq IdsOf(SubSeq(hist, 1, cpPre.len))

\* A message of its own number goes behind the others.
LEMMA AppendKeeps ==
    ASSUME NEW h \in Seq(CpMsg), RoundsWhole(h), Apart(h), NEW m \in CpMsg,
           m.role = "tool" => Len(h) > 0 /\ h[Len(h)].role = "assistant",
           m.ids \cap IdsOf(h) = {}
    PROVE  /\ Append(h, m) \in Seq(CpMsg) /\ RoundsWhole(Append(h, m)) /\ Apart(Append(h, m))
           /\ IdsOf(Append(h, m)) = IdsOf(h) \cup m.ids
           /\ Len(Append(h, m)) = Len(h) + 1
           /\ \A k \in 0..Len(h) : SubSeq(Append(h, m), 1, k) = SubSeq(h, 1, k)
<1>. DEFINE g == Append(h, m)
<1>1. /\ g \in Seq(CpMsg) /\ Len(g) = Len(h) + 1 /\ DOMAIN g = 1..(Len(h) + 1) /\ DOMAIN h = 1..Len(h)
      /\ Len(h) \in Nat /\ \A i \in DOMAIN h : g[i] = h[i]
  OBVIOUS
<1>2. g[Len(h) + 1] = m
  OBVIOUS
<1>3. \A k \in 0..Len(h) : SubSeq(g, 1, k) = SubSeq(h, 1, k)
  OBVIOUS
<1>. HIDE DEF g
<1>4. \A i \in DOMAIN g : i \in DOMAIN h \/ i = Len(h) + 1
  BY <1>1
<1>5. IdsOf(g) = IdsOf(h) \cup m.ids
  <2>1. IdsOf(g) \subseteq IdsOf(h) \cup m.ids
    BY <1>1, <1>2, <1>4 DEF IdsOf
  <2>2. Len(h) + 1 \in DOMAIN g /\ DOMAIN h \subseteq DOMAIN g
    BY <1>1
  <2>3. m.ids \subseteq IdsOf(g)
    BY <1>2, <2>2 DEF IdsOf
  <2>4. IdsOf(h) \subseteq IdsOf(g)
    BY <1>1, <2>2 DEF IdsOf
  <2>. QED
    BY <2>1, <2>3, <2>4
<1>6. RoundsWhole(g)
  <2>. SUFFICES ASSUME NEW i \in DOMAIN g, g[i].role = "tool"
                PROVE  i > 1 /\ g[i - 1].role = "assistant"
    BY DEF RoundsWhole
  <2>1. CASE i \in DOMAIN h
    <3>1. i > 1 /\ h[i - 1].role = "assistant"
      BY <1>1, <2>1 DEF RoundsWhole
    <3>2. i - 1 \in DOMAIN h
      BY <1>1, <2>1, <3>1
    <3>. QED
      BY <1>1, <3>1, <3>2
  <2>2. CASE i = Len(h) + 1
    <3>1. Len(h) > 0 /\ h[Len(h)].role = "assistant"
      BY <1>2, <2>2
    <3>2. i - 1 = Len(h) /\ Len(h) \in DOMAIN h /\ i > 1
      BY <1>1, <2>2, <3>1
    <3>. QED
      BY <1>1, <3>1, <3>2
  <2>. QED
    BY <1>4, <2>1, <2>2
<1>7. Apart(g)
  <2>1. \A i \in DOMAIN h : g[i].ids \subseteq IdsOf(h)
    BY <1>1 DEF IdsOf
  <2>. SUFFICES ASSUME NEW i \in DOMAIN g, NEW j \in DOMAIN g, i # j
                PROVE  g[i].ids \cap g[j].ids = {}
    BY DEF Apart
  <2>2. CASE i \in DOMAIN h /\ j \in DOMAIN h
    BY <1>1, <2>2 DEF Apart
  <2>3. CASE i \in DOMAIN h /\ j = Len(h) + 1
    BY <1>2, <2>1, <2>3
  <2>4. CASE i = Len(h) + 1 /\ j \in DOMAIN h
    BY <1>2, <2>1, <2>4
  <2>. QED
    BY <1>4, <2>2, <2>3, <2>4
<1>. QED
  BY <1>1, <1>3, <1>5, <1>6, <1>7 DEF g

LEMMA PrefixKeeps ==
    ASSUME NEW h \in Seq(CpMsg), RoundsWhole(h), Apart(h), NEW k \in 0..Len(h)
    PROVE  /\ SubSeq(h, 1, k) \in Seq(CpMsg) /\ RoundsWhole(SubSeq(h, 1, k)) /\ Apart(SubSeq(h, 1, k))
           /\ IdsOf(SubSeq(h, 1, k)) \subseteq IdsOf(h) /\ Len(SubSeq(h, 1, k)) = k
<1>. DEFINE g == SubSeq(h, 1, k)
<1>1. /\ g \in Seq(CpMsg) /\ Len(g) = k /\ DOMAIN g = 1..k /\ DOMAIN h = 1..Len(h)
      /\ \A i \in DOMAIN g : g[i] = h[i]
  OBVIOUS
<1>. HIDE DEF g
<1>2. \A i \in DOMAIN g : i \in DOMAIN h
  BY <1>1
<1>3. RoundsWhole(g)
  <2>. SUFFICES ASSUME NEW i \in DOMAIN g, g[i].role = "tool"
                PROVE  i > 1 /\ g[i - 1].role = "assistant"
    BY DEF RoundsWhole
  <2>1. i > 1 /\ h[i - 1].role = "assistant"
    BY <1>1, <1>2 DEF RoundsWhole
  <2>2. i - 1 \in DOMAIN g
    BY <1>1, <2>1
  <2>. QED
    BY <1>1, <2>1, <2>2
<1>4. Apart(g)
  BY <1>1, <1>2 DEF Apart
<1>5. IdsOf(g) \subseteq IdsOf(h)
  BY <1>1, <1>2 DEF IdsOf
<1>. QED
  BY <1>1, <1>3, <1>4, <1>5 DEF g

\* The names of the module for what this one says of histories.
LEMMA CpWords ==
    /\ \A h : Compaction!Ids(h) = IdsOf(h)
    /\ \A h, i : Compaction!From(h, i) = SubSeq(h, i, Len(h))
    /\ \A S : Compaction!Cardinality(S) = Cardinality(S)
BY DEF Compaction!Ids, IdsOf, Compaction!From, Compaction!Cardinality, Cardinality

LEMMA PrefixStays ==
    ASSUME NEW h, NEW g, NEW r, NEW n \in Nat, Len(h) \in Nat, Len(g) \in Nat, Len(h) <= Len(g),
           PrefixOf(r, n, h), \A k \in 0..Len(h) : SubSeq(g, 1, k) = SubSeq(h, 1, k)
    PROVE  PrefixOf(r, n, g)
<1>1. r # << >> => n <= Len(h) /\ r = SubSeq(h, 1, n) /\ n \in 0..Len(h)
  BY DEF PrefixOf
<1>. QED
  BY <1>1 DEF PrefixOf

\* The boundary is a user message: no round is cut there.  There is one as soon as
\* there are two user messages, for the last one is always a candidate.
LEMMA BoundaryIsUser ==
    ASSUME CpInv, Compaction!Boundary > 0
    PROVE  Compaction!Boundary \in 1..Len(hist) /\ hist[Compaction!Boundary].role = "user"
<1>. DEFINE users == {i \in DOMAIN hist : hist[i].role = "user"}
            first == Compaction!Min(users)
            cands == {i \in users \ {first} : Compaction!Cardinality({j \in users : j >= i}) <= CpKeepTurns}
            fits == {i \in cands : Compaction!Tokens(Compaction!From(hist, i)) <= Compaction!Target}
<1>1. Compaction!Boundary = IF Compaction!Cardinality(users) <= 1 THEN 0
                            ELSE IF fits = {} THEN Compaction!Max(cands) ELSE Compaction!Min(fits)
  BY DEF Compaction!Boundary
<1>2. /\ DOMAIN hist = 1..Len(hist) /\ Len(hist) \in Nat /\ users \subseteq 1..Len(hist)
      /\ \A i \in users : hist[i].role = "user"
  BY DEF CpInv
<1>3. cands \subseteq users /\ fits \subseteq cands
  OBVIOUS
<1>4. \A i \in users : i # first /\ Cardinality({j \in users : j >= i}) <= CpKeepTurns => i \in cands
  BY CpWords
<1>. HIDE DEF users, first, cands, fits
<1>5. Cardinality(users) > 1 /\ IsFiniteSet(users)
  <2>1. IsFiniteSet(users)
    <3>1. IsFiniteSet(1..Len(hist))
      BY <1>2, FS_Interval
    <3>. QED
      BY <1>2, <3>1, FS_Subset
  <2>2. Cardinality(users) \in Nat
    BY <2>1, FS_CardinalityType
  <2>. QED
    BY <1>1, <2>1, <2>2, CpWords
<1>6. users # {}
  BY <1>5, FS_EmptySet
<1>7. first \in users
  <2>1. users \in SUBSET Nat
    BY <1>2
  <2>2. \E x \in users : \A y \in users : x <= y
    BY <1>6, <2>1, LeastNat
  <2>. QED
    BY <2>2 DEF first, Compaction!Min
<1>8. PICK top \in users : \A y \in users : top >= y
  BY <1>2, <1>6, GreatestNat
<1>9. top # first
  <2>. SUFFICES ASSUME top = first PROVE FALSE
    OBVIOUS
  <2>1. \E x \in users : \A y \in users : x <= y
    BY <1>2, <1>6, LeastNat
  <2>2. \A y \in users : first <= y
    BY <2>1 DEF first, Compaction!Min
  <2>3. \A y \in users : y = top
    <3>. TAKE y \in users
    <3>1. y \in Nat /\ top \in Nat /\ top <= y /\ top >= y
      BY <1>2, <1>8, <2>2
    <3>. QED
      BY <3>1
  <2>4. users = {top}
    BY <1>8, <2>3
  <2>. QED
    BY <1>5, <2>4, FS_Singleton
<1>10. top \in cands
  <2>1. {j \in users : j >= top} = {top}
    <3>1. ASSUME NEW y \in users, y >= top PROVE y = top
      <4>1. y \in Nat /\ top \in Nat /\ top >= y
        BY <1>2, <1>8
      <4>. QED
        BY <3>1, <4>1
    <3>2. top >= top
      BY <1>2, <1>8
    <3>. QED
      BY <1>8, <3>1, <3>2
  <2>2. Cardinality({top}) = 1 /\ 1 <= CpKeepTurns
    BY FS_Singleton, CompactorAssumption
  <2>. QED
    BY <1>4, <1>8, <1>9, <2>1, <2>2
<1>11. Compaction!Max(cands) \in users
  <2>1. \E x \in cands : \A y \in cands : x >= y
    <3>1. cands \in SUBSET (1..Len(hist)) /\ cands # {}
      BY <1>2, <1>3, <1>10
    <3>. QED
      BY <1>2, <3>1, GreatestNat
  <2>. QED
    BY <1>3, <2>1 DEF Compaction!Max
<1>12. ASSUME fits # {} PROVE Compaction!Min(fits) \in users
  <2>1. \E x \in fits : \A y \in fits : x <= y
    BY <1>2, <1>3, <1>12, LeastNat
  <2>. QED
    BY <1>3, <2>1 DEF Compaction!Min
<1>13. Compaction!Boundary \in users
  <2>1. ~(Compaction!Cardinality(users) <= 1)
    <3>1. Cardinality(users) \in Nat
      BY <1>5, FS_CardinalityType
    <3>. QED
      BY <1>5, <3>1, CpWords
  <2>. QED
    BY <1>1, <1>11, <1>12, <2>1
<1>. QED
  BY <1>2, <1>13

\* The summarizer is shown all of what the summary stands for, and nothing that
\* is not of the history.
LEMMA ShownCovers ==
    ASSUME CpInv, NEW b \in 1..Len(hist)
    PROVE  /\ IdsOf(Compaction!Shown(b)) \subseteq IdsOf(hist)
           /\ IdsOf(hist) \subseteq IdsOf(Compaction!Shown(b)) \cup IdsOf(SubSeq(hist, b, Len(hist)))
<1>. DEFINE front_ == SubSeq(hist, 1, b - 1)
            back == SubSeq(hist, b, Len(hist))
<1>1. hist \in Seq(CpMsg) /\ Len(hist) \in Nat /\ DOMAIN hist = 1..Len(hist)
  BY DEF CpInv
<1>2. /\ DOMAIN front_ = 1..(b - 1) /\ \A i \in 1..(b - 1) : front_[i] = hist[i]
      /\ DOMAIN back = 1..(Len(hist) - b + 1) /\ \A i \in 1..(Len(hist) - b + 1) : back[i] = hist[b + i - 1]
  BY <1>1
<1>. HIDE DEF front_, back
<1>3. IdsOf(front_) \subseteq IdsOf(hist)
  BY <1>1, <1>2 DEF IdsOf
<1>4. IdsOf(hist) \subseteq IdsOf(front_) \cup IdsOf(back)
  <2>. SUFFICES ASSUME NEW i \in DOMAIN hist PROVE hist[i].ids \subseteq IdsOf(front_) \cup IdsOf(back)
    BY DEF IdsOf
  <2>1. CASE i < b
    <3>1. i \in 1..(b - 1)
      BY <1>1, <2>1
    <3>. QED
      BY <1>2, <3>1 DEF IdsOf
  <2>2. CASE i >= b
    <3>1. i - b + 1 \in 1..(Len(hist) - b + 1) /\ b + (i - b + 1) - 1 = i
      BY <1>1, <2>2
    <3>2. back[i - b + 1] = hist[i] /\ i - b + 1 \in DOMAIN back
      BY <1>2, <3>1
    <3>. QED
      BY <3>2 DEF IdsOf
  <2>. QED
    BY <1>1, <2>1, <2>2
<1>5. CASE Compaction!Shown(b) = front_
  BY <1>3, <1>4, <1>5 DEF back
<1>6. CASE req # << >> /\ ~(reqLen > Len(hist))
  <2>1. Compaction!Shown(b) = req \o SubSeq(hist, reqLen + 1, Len(hist))
    BY <1>6 DEF Compaction!Shown, Compaction!NoReq
  <2>2. reqLen \in 0..Len(hist) /\ req = SubSeq(hist, 1, reqLen)
    BY <1>1, <1>6 DEF CpInv, PrefixOf
  <2>3. SubSeq(hist, 1, reqLen) \o SubSeq(hist, reqLen + 1, Len(hist)) = hist
    <3>1. 1 \in 1..(Len(hist) + 1) /\ reqLen \in (1 - 1)..Len(hist) /\ Len(hist) \in reqLen..Len(hist)
      BY <1>1, <2>2
    <3>2. SubSeq(hist, 1, reqLen) \o SubSeq(hist, reqLen + 1, Len(hist)) = SubSeq(hist, 1, Len(hist))
      BY <1>1, <3>1, ConcatAdjacentSubSeq
    <3>3. SubSeq(hist, 1, Len(hist)) = hist
      BY <1>1, SubSeqFull
    <3>. QED
      BY <3>2, <3>3
  <2>. QED
    BY <2>1, <2>2, <2>3
<1>. QED
  BY <1>5, <1>6 DEF Compaction!Shown, Compaction!NoReq, front_

LEMMA IdsAreNumbers == ASSUME NEW h \in Seq(CpMsg) PROVE IdsOf(h) \in SUBSET Nat
<1>1. \A i \in DOMAIN h : h[i].ids \in SUBSET Nat
  <2>1. \A i \in DOMAIN h : h[i] \in CpMsg
    OBVIOUS
  <2>. QED
    BY <2>1 DEF CpMsg
<1>. QED
  BY <1>1 DEF IdsOf

LEMMA SummaryKeeps ==
    ASSUME NEW h \in Seq(CpMsg), RoundsWhole(h), Apart(h), NEW b \in 1..Len(h), h[b].role = "user",
           NEW ns, ns \subseteq IdsOf(h), IdsOf(h) \subseteq ns \cup IdsOf(SubSeq(h, b, Len(h))),
           NEW g, g = <<[role |-> "system", size |-> 1, ids |-> ns \ IdsOf(SubSeq(h, b, Len(h)))]>>
                      \o SubSeq(h, b, Len(h))
    PROVE  g \in Seq(CpMsg) /\ RoundsWhole(g) /\ Apart(g) /\ IdsOf(g) = IdsOf(h)
<1>. DEFINE back == SubSeq(h, b, Len(h))
            summary == [role |-> "system", size |-> 1, ids |-> ns \ IdsOf(back)]
            k == Len(h) - b + 1
<1>1. Len(h) \in Nat /\ DOMAIN h = 1..Len(h) /\ k \in Nat /\ k >= 1
  OBVIOUS
<1>2. /\ back \in Seq(CpMsg) /\ Len(back) = k /\ DOMAIN back = 1..k
      /\ \A i \in 1..k : back[i] = h[b + i - 1] /\ b + i - 1 \in 1..Len(h)
  BY <1>1
<1>3. IdsOf(h) \in SUBSET Nat
  BY IdsAreNumbers
<1>4. summary \in CpMsg
  BY <1>3 DEF CpMsg
<1>. HIDE DEF back
<1>5. /\ g \in Seq(CpMsg) /\ DOMAIN g = 1..(k + 1) /\ g[1] = summary
      /\ \A i \in 1..k : g[i + 1] = back[i]
  <2>. DEFINE one == <<summary>>
  <2>1. g = one \o back
    BY DEF back
  <2>2. one \in Seq(CpMsg)
    BY <1>4
  <2>. HIDE DEF summary, k
  <2>3. one[1] = summary /\ Len(one) = 1
    OBVIOUS
  <2>. HIDE DEF one
  <2>4. /\ g \in Seq(CpMsg) /\ Len(g) = 1 + k
        /\ \A i \in 1..(1 + k) : g[i] = IF i <= 1 THEN one[i] ELSE back[i - 1]
    <3>1. /\ one \o back \in Seq(CpMsg) /\ Len(one \o back) = Len(one) + Len(back)
          /\ \A i \in 1..(Len(one) + Len(back)) :
                (one \o back)[i] = IF i <= Len(one) THEN one[i] ELSE back[i - Len(one)]
      BY <1>2, <2>2, ConcatProperties
    <3>2. Len(one) + Len(back) = 1 + k
      BY <1>2, <2>3
    <3>3. g \in Seq(CpMsg) /\ Len(g) = 1 + k
      BY <2>1, <3>1, <3>2
    <3>. SUFFICES ASSUME NEW i \in 1..(1 + k) PROVE g[i] = IF i <= 1 THEN one[i] ELSE back[i - 1]
      BY <3>3
    <3>4. (one \o back)[i] = IF i <= Len(one) THEN one[i] ELSE back[i - Len(one)]
      BY <3>1, <3>2
    <3>. QED
      BY <2>1, <2>3, <3>4
  <2>5. DOMAIN g = 1..(k + 1) /\ 1 \in 1..(1 + k)
    BY <1>1, <2>4
  <2>6. \A i \in 1..k : i + 1 \in 1..(1 + k) /\ ~(i + 1 <= 1) /\ (i + 1) - 1 = i
    BY <1>1
  <2>. QED
    BY <2>3, <2>4, <2>5, <2>6
<1>6. summary.role = "system" /\ summary.ids = ns \ IdsOf(back)
  OBVIOUS
<1>. HIDE DEF summary
<1>7. \A i \in 2..(k + 1) : g[i] = h[b + i - 2] /\ b + i - 2 \in DOMAIN h /\ b + i - 2 >= b
  <2>. TAKE i \in 2..(k + 1)
  <2>1. i - 1 \in 1..k /\ (i - 1) + 1 = i /\ b + (i - 1) - 1 = b + i - 2 /\ b + i - 2 >= b
    BY <1>1
  <2>2. g[i] = back[i - 1]
    BY <1>5, <2>1
  <2>. QED
    BY <1>1, <1>2, <2>1, <2>2
<1>. HIDE DEF k
<1>8. IdsOf(back) = UNION {g[i].ids : i \in 2..(k + 1)}
  <2>1. \A i \in 1..k : i + 1 \in 2..(k + 1) /\ g[i + 1] = back[i]
    BY <1>1, <1>5
  <2>2. \A i \in 2..(k + 1) : i - 1 \in 1..k /\ g[i] = back[i - 1]
    <3>. TAKE i \in 2..(k + 1)
    <3>1. i - 1 \in 1..k /\ (i - 1) + 1 = i
      BY <1>1
    <3>. QED
      BY <1>5, <3>1
  <2>3. IdsOf(back) = UNION {back[i].ids : i \in 1..k}
    BY <1>2 DEF IdsOf
  <2>4. {back[i].ids : i \in 1..k} \subseteq {g[i].ids : i \in 2..(k + 1)}
    BY <2>1
  <2>5. {g[i].ids : i \in 2..(k + 1)} \subseteq {back[i].ids : i \in 1..k}
    BY <2>2
  <2>. QED
    BY <2>3, <2>4, <2>5
<1>9. \A i \in DOMAIN g : i = 1 \/ i \in 2..(k + 1)
  BY <1>1, <1>5
<1>10. RoundsWhole(g)
  <2>. SUFFICES ASSUME NEW i \in DOMAIN g, g[i].role = "tool"
                PROVE  i > 1 /\ g[i - 1].role = "assistant"
    BY DEF RoundsWhole
  <2>1. i \in 2..(k + 1)
    BY <1>5, <1>6, <1>9
  <2>2. /\ g[i] = h[b + i - 2] /\ b + i - 2 \in DOMAIN h /\ h[b + i - 2].role = "tool"
        /\ h[(b + i - 2) - 1].role = "assistant"
    BY <1>7, <2>1 DEF RoundsWhole
  <2>3. i # 2
    <3>. SUFFICES ASSUME i = 2 PROVE FALSE
      OBVIOUS
    <3>1. b + i - 2 = b
      OBVIOUS
    <3>. QED
      BY <2>2, <3>1
  <2>4. i - 1 \in 2..(k + 1) /\ i > 1
    BY <1>1, <2>1, <2>3
  <2>5. b + (i - 1) - 2 = (b + i - 2) - 1
    BY <1>1, <2>1
  <2>. QED
    BY <1>7, <2>2, <2>4, <2>5
<1>11. Apart(g)
  <2>1. \A i \in 2..(k + 1) : g[i].ids \subseteq IdsOf(back)
    BY <1>8
  <2>. SUFFICES ASSUME NEW i \in DOMAIN g, NEW j \in DOMAIN g, i # j
                PROVE  g[i].ids \cap g[j].ids = {}
    BY DEF Apart
  <2>2. CASE i = 1
    BY <1>5, <1>6, <1>9, <2>1, <2>2
  <2>3. CASE j = 1
    BY <1>5, <1>6, <1>9, <2>1, <2>3
  <2>4. CASE i \in 2..(k + 1) /\ j \in 2..(k + 1)
    <3>1. b + i - 2 # b + j - 2
      BY <2>4
    <3>. QED
      BY <1>7, <2>4, <3>1 DEF Apart
  <2>. QED
    BY <1>9, <2>2, <2>3, <2>4
<1>12. IdsOf(g) = IdsOf(h)
  <2>1. IdsOf(back) \subseteq IdsOf(h)
    BY <1>7, <1>8 DEF IdsOf
  <2>2. IdsOf(g) = summary.ids \cup IdsOf(back)
    <3>1. 1 \in DOMAIN g /\ \A i \in 2..(k + 1) : i \in DOMAIN g
      BY <1>1, <1>5
    <3>2. IdsOf(g) \subseteq summary.ids \cup IdsOf(back)
      <4>1. \A i \in DOMAIN g : g[i].ids \subseteq summary.ids \cup IdsOf(back)
        <5>. TAKE i \in DOMAIN g
        <5>1. CASE i = 1
          BY <1>5, <5>1
        <5>2. CASE i \in 2..(k + 1)
          BY <1>8, <5>2
        <5>. QED
          BY <1>9, <5>1, <5>2
      <4>. QED
        BY <4>1 DEF IdsOf
    <3>3. summary.ids \subseteq IdsOf(g)
      BY <1>5, <3>1 DEF IdsOf
    <3>4. IdsOf(back) \subseteq IdsOf(g)
      BY <1>8, <3>1 DEF IdsOf
    <3>. QED
      BY <3>2, <3>3, <3>4
  <2>. QED
    BY <1>6, <2>1, <2>2 DEF back
<1>. QED
  BY <1>5, <1>10, <1>11, <1>12

LEMMA CpBegins == RcInit => CpInv
<1>. SUFFICES ASSUME RcInit PROVE CpInv
  OBVIOUS
<1>1. hist = << >> /\ req = << >> /\ reqLen = 0 /\ phase = "idle" /\ kept = {} /\ cpNext = 1
  BY DEF RcInit, Compaction!CpInit, Compaction!NoReq
<1>2. << >> \in Seq(CpMsg) /\ DOMAIN << >> = {}
  OBVIOUS
<1>. QED
  BY <1>1, <1>2 DEF CpInv, RoundsWhole, Apart, IdsOf, PrefixOf

LEMMA CpBeginHandle ==
    ASSUME CpInv, NEW size \in CpSizes, Compaction!BeginHandle(size) PROVE CpInv'
<1>. DEFINE m == [role |-> "user", size |-> size, ids |-> {cpNext}]
<1>1. /\ phase' = "turn" /\ cpPre' = [len |-> Len(hist), req |-> req, reqLen |-> reqLen]
      /\ hist' = Append(hist, m) /\ cpNext' = cpNext + 1 /\ UNCHANGED <<req, reqLen, kept>>
  BY DEF Compaction!BeginHandle, Compaction!Msg
<1>2. hist \in Seq(CpMsg) /\ Len(hist) \in Nat /\ cpNext \in Nat
  BY DEF CpInv
<1>3. m \in CpMsg /\ m.role = "user" /\ m.ids = {cpNext}
  BY <1>2 DEF CpMsg
<1>. HIDE DEF m
<1>4. m.ids \cap IdsOf(hist) = {}
  BY <1>2, <1>3 DEF CpInv
<1>5. /\ hist' \in Seq(CpMsg) /\ RoundsWhole(hist') /\ Apart(hist') /\ IdsOf(hist') = IdsOf(hist) \cup {cpNext}
      /\ Len(hist') = Len(hist) + 1 /\ \A k \in 0..Len(hist) : SubSeq(hist', 1, k) = SubSeq(hist, 1, k)
  BY <1>1, <1>3, <1>4, AppendKeeps DEF CpInv
<1>6. SubSeq(hist', 1, Len(hist)) = hist
  BY <1>2, <1>5, SubSeqFull
<1>7. PrefixOf(req', reqLen', hist')
  <2>1. PrefixOf(req, reqLen, hist) /\ reqLen \in Nat
    BY DEF CpInv
  <2>2. Len(hist') \in Nat /\ Len(hist) <= Len(hist')
    BY <1>2, <1>5
  <2>3. PrefixOf(req, reqLen, hist')
    BY <1>2, <1>5, <2>1, <2>2, PrefixStays
  <2>4. req' = req /\ reqLen' = reqLen
    BY <1>1
  <2>. QED
    BY <2>3, <2>4
<1>8. \A n \in IdsOf(hist') : n < cpNext'
  <2>1. \A n \in IdsOf(hist) : n \in Nat /\ n < cpNext
    BY IdsAreNumbers DEF CpInv
  <2>. QED
    BY <1>1, <1>2, <1>5, <2>1
<1>9. cpPre'.len = Len(hist) /\ cpPre'.req = req /\ cpPre'.reqLen = reqLen
  BY <1>1
<1>10. /\ cpPre'.len \in 0..Len(hist') /\ cpPre'.reqLen \in Nat
       /\ PrefixOf(cpPre'.req, cpPre'.reqLen, SubSeq(hist', 1, cpPre'.len))
       /\ kept' \subseteq IdsOf(SubSeq(hist', 1, cpPre'.len))
  <2>1. PrefixOf(req, reqLen, hist) /\ reqLen \in Nat /\ kept \subseteq IdsOf(hist)
    BY DEF CpInv
  <2>2. SubSeq(hist', 1, cpPre'.len) = hist /\ kept' = kept
    BY <1>1, <1>6, <1>9
  <2>3. cpPre'.len \in 0..Len(hist')
    BY <1>2, <1>5, <1>9
  <2>. QED
    BY <1>9, <2>1, <2>2, <2>3
<1>11. kept' \subseteq IdsOf(hist') /\ cpNext' \in Nat /\ reqLen' \in Nat
  BY <1>1, <1>2, <1>5 DEF CpInv
<1>. QED
  BY <1>1, <1>5, <1>7, <1>8, <1>10, <1>11 DEF CpInv

\* What a turn would be taken back to is there while it goes on.
LEMMA PreStays ==
    ASSUME CpInv, phase = "turn", NEW g, Len(g) \in Nat, Len(hist) <= Len(g),
           \A k \in 0..Len(hist) : SubSeq(g, 1, k) = SubSeq(hist, 1, k)
    PROVE  /\ cpPre.len \in 0..Len(g) /\ SubSeq(g, 1, cpPre.len) = SubSeq(hist, 1, cpPre.len)
BY DEF CpInv

LEMMA CpRound == ASSUME CpInv, NEW size \in CpSizes, Compaction!Round(size) PROVE CpInv'
<1>. DEFINE a == [role |-> "assistant", size |-> 1, ids |-> {cpNext}]
            r == [role |-> "tool", size |-> size, ids |-> {cpNext + 1}]
            h == Append(hist, a)
<1>1. /\ phase = "turn" /\ phase' = "turn" /\ req' = hist /\ reqLen' = Len(hist)
      /\ hist' = hist \o <<a, r>> /\ cpNext' = cpNext + 2 /\ UNCHANGED <<cpPre, kept>>
  BY DEF Compaction!Round, Compaction!Msg, Compaction!KeepRequest
<1>2. hist \in Seq(CpMsg) /\ Len(hist) \in Nat /\ cpNext \in Nat
  BY DEF CpInv
<1>3. a \in CpMsg /\ a.role = "assistant" /\ a.ids = {cpNext}
  BY <1>2 DEF CpMsg
<1>4. r \in CpMsg /\ r.role = "tool" /\ r.ids = {cpNext + 1}
  BY <1>2 DEF CpMsg
<1>. HIDE DEF a, r
<1>5. hist' = Append(h, r) /\ h[Len(h)] = a /\ Len(h) > 0
  BY <1>1, <1>2, <1>3, <1>4
<1>. HIDE DEF h
<1>6. a.ids \cap IdsOf(hist) = {}
  BY <1>2, <1>3 DEF CpInv
<1>7. /\ h \in Seq(CpMsg) /\ RoundsWhole(h) /\ Apart(h) /\ IdsOf(h) = IdsOf(hist) \cup {cpNext}
      /\ Len(h) = Len(hist) + 1 /\ \A k \in 0..Len(hist) : SubSeq(h, 1, k) = SubSeq(hist, 1, k)
  BY <1>3, <1>6, AppendKeeps DEF CpInv, h
<1>8. r.ids \cap IdsOf(h) = {}
  BY <1>2, <1>4, <1>7 DEF CpInv
<1>9. /\ hist' \in Seq(CpMsg) /\ RoundsWhole(hist') /\ Apart(hist')
      /\ IdsOf(hist') = IdsOf(h) \cup {cpNext + 1} /\ Len(hist') = Len(h) + 1
      /\ \A k \in 0..Len(h) : SubSeq(hist', 1, k) = SubSeq(h, 1, k)
  BY <1>3, <1>4, <1>5, <1>7, <1>8, AppendKeeps
<1>10. Len(hist') \in Nat /\ Len(hist) <= Len(hist')
       /\ \A k \in 0..Len(hist) : SubSeq(hist', 1, k) = SubSeq(hist, 1, k)
  BY <1>2, <1>7, <1>9
<1>11. SubSeq(hist', 1, Len(hist)) = hist
  BY <1>2, <1>10, SubSeqFull
<1>12. PrefixOf(req', reqLen', hist')
  BY <1>1, <1>10, <1>11 DEF PrefixOf
<1>13. \A n \in IdsOf(hist') : n < cpNext'
  <2>1. \A n \in IdsOf(hist) : n \in Nat /\ n < cpNext
    BY IdsAreNumbers DEF CpInv
  <2>. QED
    <3>1. IdsOf(hist') = IdsOf(hist) \cup {cpNext, cpNext + 1} /\ cpNext' = cpNext + 2
      BY <1>1, <1>7, <1>9
    <3>2. ASSUME NEW n \in IdsOf(hist) PROVE n < cpNext + 2
      <4>1. n \in Nat /\ n < cpNext
        BY <2>1
      <4>. QED
        BY <1>2, <4>1
    <3>. QED
      BY <1>2, <3>1, <3>2
<1>14. cpPre'.len \in 0..Len(hist') /\ SubSeq(hist', 1, cpPre'.len) = SubSeq(hist, 1, cpPre.len)
  BY <1>1, <1>10, PreStays
<1>15. kept' \subseteq IdsOf(hist')
  BY <1>1, <1>7, <1>9 DEF CpInv
<1>16. cpNext' \in Nat /\ reqLen' \in Nat
  BY <1>1, <1>2
<1>. QED
  BY <1>1, <1>9, <1>12, <1>13, <1>14, <1>15, <1>16 DEF CpInv

\* A turn that ends well ends with a history that has its messages.
LEMMA CpCommit ==
    ASSUME CpInv, Compaction!Reply \/ Compaction!Fallback PROVE CpInv'
<1>. DEFINE a == [role |-> "assistant", size |-> 1, ids |-> {cpNext}]
<1>1. /\ phase' = "post" /\ hist' = Append(hist, a) /\ cpNext' = cpNext + 1
      /\ kept' = kept \cup IdsOf(hist')
  BY CpWords DEF Compaction!Reply, Compaction!Fallback, Compaction!Commit, Compaction!Msg
<1>2. (req' = hist /\ reqLen' = Len(hist)) \/ UNCHANGED <<req, reqLen>>
  BY DEF Compaction!Reply, Compaction!Fallback, Compaction!KeepRequest
<1>3. hist \in Seq(CpMsg) /\ Len(hist) \in Nat /\ cpNext \in Nat
  BY DEF CpInv
<1>4. a \in CpMsg /\ a.role = "assistant" /\ a.ids = {cpNext}
  BY <1>3 DEF CpMsg
<1>. HIDE DEF a
<1>5. a.ids \cap IdsOf(hist) = {}
  BY <1>3, <1>4 DEF CpInv
<1>6. /\ hist' \in Seq(CpMsg) /\ RoundsWhole(hist') /\ Apart(hist') /\ IdsOf(hist') = IdsOf(hist) \cup {cpNext}
      /\ Len(hist') = Len(hist) + 1 /\ \A k \in 0..Len(hist) : SubSeq(hist', 1, k) = SubSeq(hist, 1, k)
  BY <1>1, <1>4, <1>5, AppendKeeps DEF CpInv
<1>7. PrefixOf(req', reqLen', hist') /\ reqLen' \in Nat
  <2>1. CASE UNCHANGED <<req, reqLen>>
    BY <1>3, <1>6, <2>1, PrefixStays DEF CpInv
  <2>2. CASE req' = hist /\ reqLen' = Len(hist)
    <3>1. SubSeq(hist', 1, Len(hist)) = hist
      BY <1>3, <1>6, SubSeqFull
    <3>. QED
      BY <1>3, <1>6, <2>2, <3>1 DEF PrefixOf
  <2>. QED
    BY <1>2, <2>1, <2>2
<1>8. \A n \in IdsOf(hist') : n < cpNext'
  <2>1. \A n \in IdsOf(hist) : n \in Nat /\ n < cpNext
    BY IdsAreNumbers DEF CpInv
  <2>. QED
    BY <1>1, <1>3, <1>6, <2>1
<1>9. kept' \subseteq IdsOf(hist')
  BY <1>1, <1>6 DEF CpInv
<1>10. cpNext' \in Nat /\ phase' # "turn"
  BY <1>1, <1>3
<1>. QED
  BY <1>1, <1>6, <1>7, <1>8, <1>9, <1>10 DEF CpInv

LEMMA CpFail == ASSUME CpInv, Compaction!FailHandle PROVE CpInv'
<1>1. /\ phase = "turn" /\ hist' = SubSeq(hist, 1, cpPre.len) /\ req' = cpPre.req /\ reqLen' = cpPre.reqLen
      /\ phase' \in {"post", "idle"} /\ UNCHANGED <<kept, cpNext>>
  BY DEF Compaction!FailHandle
<1>2. /\ hist' \in Seq(CpMsg) /\ RoundsWhole(hist') /\ Apart(hist') /\ IdsOf(hist') \subseteq IdsOf(hist)
  BY <1>1, PrefixKeeps DEF CpInv
<1>3. \A n \in IdsOf(hist') : n < cpNext'
  BY <1>1, <1>2 DEF CpInv
<1>4. phase' # "turn"
  BY <1>1
<1>. QED
  BY <1>1, <1>2, <1>3, <1>4 DEF CpInv

LEMMA CpCompact == ASSUME CpInv, Compaction!CompactHistory PROVE CpInv'
<1>. DEFINE b == Compaction!Boundary
            ns == IdsOf(Compaction!Shown(b))
            back == SubSeq(hist, b, Len(hist))
<1>1. /\ b > 0 /\ req' = << >> /\ reqLen' = 0 /\ phase' = "idle" /\ UNCHANGED <<kept, cpNext>>
      /\ hist' = <<[role |-> "system", size |-> 1, ids |-> ns \ IdsOf(back)]>> \o back
  BY CpWords DEF Compaction!CompactHistory, Compaction!Due, Compaction!Summary, Compaction!NoReq
<1>2. b \in 1..Len(hist) /\ hist[b].role = "user"
  BY <1>1, BoundaryIsUser
<1>. HIDE DEF b
<1>3. ns \subseteq IdsOf(hist) /\ IdsOf(hist) \subseteq ns \cup IdsOf(back)
  BY <1>2, ShownCovers
<1>. HIDE DEF ns
<1>4. hist' \in Seq(CpMsg) /\ RoundsWhole(hist') /\ Apart(hist') /\ IdsOf(hist') = IdsOf(hist)
  BY <1>1, <1>2, <1>3, SummaryKeeps DEF CpInv
<1>. QED
  BY <1>1, <1>4 DEF CpInv, PrefixOf

\* Compaction splits no round and forgets no committed message, whatever turns
\* fail, close with a fallback or hand over in between, and the request that
\* the summary extends is a prefix of the history it is made of.
THEOREM CompactionStaysSafe == RcSpec => []CompactionSafe
<1>1. ASSUME CpInv, [RcNext]_RcVars PROVE CpInv'
  <2>1. Compaction!CpNextStep \/ UNCHANGED cpAll
    BY <1>1, CpSteps
  <2>2. CASE UNCHANGED cpAll
    <3>1. /\ hist' = hist /\ req' = req /\ reqLen' = reqLen /\ cpPre' = cpPre /\ phase' = phase
          /\ kept' = kept /\ cpNext' = cpNext
      BY <2>2 DEF cpAll
    <3>. QED
      BY <1>1, <3>1 DEF CpInv
  <2>3. ASSUME NEW size \in CpSizes, Compaction!BeginHandle(size) \/ Compaction!Round(size) PROVE CpInv'
    BY <1>1, <2>3, CpBeginHandle, CpRound
  <2>4. CASE Compaction!Reply \/ Compaction!Fallback
    BY <1>1, <2>4, CpCommit
  <2>5. CASE Compaction!HandOver
    <3>1. /\ hist' = hist /\ kept' = kept \cup IdsOf(hist) /\ phase' = "post"
          /\ req' = req /\ reqLen' = reqLen /\ cpNext' = cpNext
      BY <2>5, CpWords DEF Compaction!HandOver, Compaction!Commit
    <3>. QED
      BY <1>1, <3>1 DEF CpInv
  <2>6. CASE Compaction!FailHandle
    BY <1>1, <2>6, CpFail
  <2>7. CASE Compaction!RestoreAgent
    <3>1. /\ hist' = hist /\ req' = << >> /\ reqLen' = 0 /\ phase' = "idle"
          /\ kept' = kept /\ cpNext' = cpNext
      BY <2>7 DEF Compaction!RestoreAgent, Compaction!NoReq
    <3>. QED
      BY <1>1, <3>1 DEF CpInv, PrefixOf
  <2>8. CASE Compaction!LeaveIntact
    <3>1. /\ hist' = hist /\ req' = req /\ reqLen' = reqLen /\ phase' = "idle"
          /\ kept' = kept /\ cpNext' = cpNext
      BY <2>8 DEF Compaction!LeaveIntact
    <3>. QED
      BY <1>1, <3>1 DEF CpInv
  <2>9. CASE Compaction!CompactHistory
    BY <1>1, <2>9, CpCompact
  <2>. QED
    BY <2>1, <2>2, <2>3, <2>4, <2>5, <2>6, <2>7, <2>8, <2>9 DEF Compaction!CpNextStep
<1>2. ASSUME CpInv PROVE CompactionSafe
  <2>1. Compaction!CompactionSafe
    BY <1>2, CpWords DEF CpInv, RoundsWhole, Apart, Compaction!CompactionSafe
  <2>2. Compaction!RequestIsPrefix
    BY <1>2 DEF CpInv, PrefixOf, Compaction!RequestIsPrefix, Compaction!NoReq
  <2>. QED
    BY <2>1, <2>2 DEF CompactionSafe
<1>. QED
  BY CpBegins, <1>1, <1>2, PTL DEF RcSpec

-----------------------------------------------------------------------------
(* The notebook *)

\* A gap is left behind the replacement of notebook.md, and its key is torn.
NbFiles ==
    /\ IsFiniteSet(DOMAIN blocks) /\ blocks = [k \in DOMAIN blocks |-> blocks[k]]
    /\ \A k \in DOMAIN blocks : blocks[k] \in NbValues \cup {""}
    /\ Notes!Bytes(blocks) <= NbMaxBytes
    /\ nbGap.op \in {"none", "date", "drop"} /\ (nbGap.op = "none" => nbGap = Notes!NoGap)
    /\ nbGap.op = "date" => nbGap.key \in torn /\ nbGap.key \in DOMAIN blocks
    /\ nbGap.op = "drop" => nbGap.key \in torn /\ nbGap.key \notin DOMAIN blocks
    /\ \A k \in NbKeys \ torn : k \in DOMAIN blocks <=> k \in DOMAIN index

ByAgent(f) == f = [a \in NbAgents |-> f[a]]

NbShapes == /\ ByAgent(nbSeen) /\ ByAgent(preSeen) /\ ByAgent(nbTold) /\ ByAgent(preTold)
            /\ ByAgent(inTurn) /\ ByAgent(unheard) /\ ByAgent(swallowed) /\ ByAgent(preSwallowed)

\* In a turn, what an agent has seen of a key that it is not to hear of is what
\* the files have; and what is in the gap has yet to be heard of by all.
NbHeard ==
    /\ nbGap.op # "none" =>
          /\ nbGap.agent \in NbAgents /\ inTurn[nbGap.agent] /\ nbGap.key \in nbGap.keys
          /\ \A b \in NbAgents : nbGap.keys \subseteq unheard[b]
    /\ \A b \in NbAgents : inTurn[b] =>
          \A k \in NbKeys \ unheard[b] :
             Notes!EntryOf(nbSeen[b], k) = Notes!EntryOf(<<blocks, index>>, k)

\* What an agent counts as seen it was told of, also where it is taken back to.
TellsSeen(saw, heard, but) ==
    \A a \in NbAgents : \A k \in NbKeys \ but[a] : heard[a][k] = Notes!EntryOf(saw[a], k)

NbTells == TellsSeen(nbSeen, nbTold, swallowed) /\ TellsSeen(preSeen, preTold, preSwallowed)

NbInv == NbFiles /\ NbShapes /\ NbHeard /\ NbTells

Weights(b) == [k \in DOMAIN b |-> Notes!BlockSize(b[k])]

LEMMA BytesAreTotal ==
    ASSUME NEW b, IsFiniteSet(DOMAIN b), \A k \in DOMAIN b : b[k] \in NbValues \cup {""}
    PROVE  Notes!Bytes(b) = Total(DOMAIN b, Weights(b)) /\ Weights(b) \in [DOMAIN b -> Nat]
<1>. DEFINE D == DOMAIN b
            w == Weights(b)
            G == CHOOSE iter : iter = [s \in SUBSET D |-> IF s = {} THEN 0
                                          ELSE Notes!BlockSize(b[One(s)]) + iter[s \ {One(s)}]]
<1>1. Notes!Bytes(b) = G[D]
  BY DEF Notes!Bytes, Notes!MapThenSumSet, Notes!MapThenFoldSet, One
<1>2. w \in [D -> Nat] /\ \A k \in D : w[k] = Notes!BlockSize(b[k])
  BY NotesAssumption DEF Weights, Notes!BlockSize
<1>3. \A s \in SUBSET D : s # {} => One(s) \in D
  BY DEF One
<1>9. IsFiniteSet(D)
  OBVIOUS
<1>. HIDE DEF D, w
<1>4. PICK F \in [SUBSET D -> Nat] : IsSum(F, D, w) /\ Total(D, w) = F[D]
  BY <1>2, <1>9, SumExists
<1>5. F = [s \in SUBSET D |-> IF s = {} THEN 0 ELSE Notes!BlockSize(b[One(s)]) + F[s \ {One(s)}]]
  BY <1>2, <1>3, <1>4 DEF IsSum
<1>6. G = [s \in SUBSET D |-> IF s = {} THEN 0 ELSE Notes!BlockSize(b[One(s)]) + G[s \ {One(s)}]]
  BY <1>5
<1>. HIDE DEF G
<1>7. IsSum(G, D, w)
  BY <1>2, <1>3, <1>6 DEF IsSum
<1>8. F[D] = G[D]
  BY <1>4, <1>7, <1>9, SumUnique
<1>. QED
  BY <1>1, <1>2, <1>4, <1>8 DEF D, w

LEMMA PartIsSmaller == ASSUME NEW m \in Nat, NEW n \in Nat, NEW i \in Nat, n = i + m PROVE m <= n
OBVIOUS

\* A file of finitely many blocks.
Whole(b) == /\ b = [x \in DOMAIN b |-> b[x]] /\ \A x \in DOMAIN b : b[x] \in NbValues \cup {""}
            /\ IsFiniteSet(DOMAIN b)

\* c is b without the block of k.
Less(b, k, c) ==
    /\ DOMAIN c = DOMAIN b \ {k} /\ IsFiniteSet(DOMAIN c) /\ c = [x \in DOMAIN c |-> c[x]]
    /\ \A x \in DOMAIN c : c[x] = b[x]
    /\ Notes!Bytes(c) <= Notes!Bytes(b) /\ Notes!Bytes(c) \in Nat /\ Notes!Bytes(b) \in Nat

\* A notebook without one of its blocks is no larger.
LEMMA BytesWithout ==
    ASSUME NEW b, Whole(b), NEW k \in DOMAIN b, NEW c, c = Notes!Without(b, k)
    PROVE  Less(b, k, c)
<1>. USE DEF Whole, Less
<1>1. c = [x \in DOMAIN b \ {k} |-> b[x]]
  <2>1. {x \in DOMAIN b : x # k} = DOMAIN b \ {k}
    OBVIOUS
  <2>. QED
    BY <2>1 DEF Notes!Without, Notes!RestrictDomain, Notes!Restrict
<1>2. DOMAIN c = DOMAIN b \ {k} /\ c = [x \in DOMAIN c |-> c[x]] /\ \A x \in DOMAIN c : c[x] = b[x]
  BY <1>1
<1>3. IsFiniteSet(DOMAIN c)
  BY <1>2, FS_Subset
<1>4. \A x \in DOMAIN c : c[x] \in NbValues \cup {""}
  BY <1>2
<1>5. Notes!Bytes(b) = Total(DOMAIN b, Weights(b)) /\ Weights(b) \in [DOMAIN b -> Nat]
  BY BytesAreTotal
<1>6. Notes!Bytes(c) = Total(DOMAIN b \ {k}, Weights(c)) /\ Weights(c) \in [DOMAIN b \ {k} -> Nat]
  BY <1>2, <1>3, <1>4, BytesAreTotal
<1>7. \A x \in DOMAIN b \ {k} : Weights(c)[x] = Weights(b)[x]
  BY <1>2 DEF Weights
<1>8. /\ Total(DOMAIN b, Weights(b)) = Weights(b)[k] + Total(DOMAIN b \ {k}, Weights(c))
      /\ Total(DOMAIN b, Weights(b)) \in Nat /\ Total(DOMAIN b \ {k}, Weights(c)) \in Nat
  <2>. DEFINE D == DOMAIN b
              w == Weights(b)
              v == Weights(c)
  <2>1. IsFiniteSet(D) /\ w \in [D -> Nat] /\ k \in D /\ v \in [D \ {k} -> Nat]
        /\ \A x \in D \ {k} : v[x] = w[x]
    BY <1>5, <1>6, <1>7
  <2>. HIDE DEF D, w, v
  <2>2. Total(D, w) = w[k] + Total(D \ {k}, v) /\ Total(D, w) \in Nat /\ Total(D \ {k}, v) \in Nat
    BY <2>1, TotalWithout
  <2>. QED
    BY <2>2 DEF D, w, v
<1>9. Weights(b)[k] \in Nat
  BY <1>5
<1>. QED
  <2>1. Notes!Bytes(b) = Weights(b)[k] + Notes!Bytes(c) /\ Notes!Bytes(c) \in Nat /\ Notes!Bytes(b) \in Nat
    BY <1>5, <1>6, <1>8
  <2>2. Notes!Bytes(c) <= Notes!Bytes(b)
    BY <1>9, <2>1, PartIsSmaller
  <2>. QED
    BY <1>2, <1>3, <2>1, <2>2

LEMMA NbBegins == RcInit => NbInv
<1>. SUFFICES ASSUME RcInit PROVE NbInv
  OBVIOUS
<1>1. /\ blocks = << >> /\ index = << >> /\ nbGap = Notes!NoGap /\ torn = {}
      /\ nbSeen = [a \in NbAgents |-> Notes!Revision] /\ preSeen = nbSeen
      /\ nbTold = [a \in NbAgents |-> Notes!Entries] /\ preTold = nbTold
      /\ inTurn = [a \in NbAgents |-> FALSE]
      /\ unheard = [a \in NbAgents |-> {}] /\ swallowed = unheard /\ preSwallowed = unheard
  BY DEF RcInit, Notes!NbInit
<1>2. DOMAIN blocks = {} /\ IsFiniteSet({}) /\ blocks = [k \in {} |-> blocks[k]]
  BY <1>1, FS_EmptySet
<1>3. Notes!Bytes(blocks) = 0
  <2>1. Notes!Bytes(blocks) = Total({}, Weights(blocks)) /\ Weights(blocks) \in [{} -> Nat]
    BY <1>2, BytesAreTotal
  <2>2. PICK F \in [SUBSET {} -> Nat] : IsSum(F, {}, Weights(blocks)) /\ Total({}, Weights(blocks)) = F[{}]
    BY <1>2, <2>1, SumExists
  <2>. QED
    BY <2>1, <2>2 DEF IsSum
<1>4. Notes!NoGap.op = "none"
  BY DEF Notes!NoGap
<1>5. Notes!Bytes(blocks) <= NbMaxBytes
  BY <1>3, NotesAssumption
<1>6. DOMAIN index = {}
  BY <1>1
<1>7. NbFiles
  BY <1>1, <1>2, <1>4, <1>5, <1>6 DEF NbFiles
<1>8. NbShapes
  BY <1>1 DEF NbShapes, ByAgent
<1>9. NbHeard
  BY <1>1, <1>4 DEF NbHeard
<1>10. TellsSeen(nbSeen, nbTold, swallowed)
  BY <1>1 DEF TellsSeen, Notes!Entries
<1>. QED
  BY <1>1, <1>7, <1>8, <1>9, <1>10 DEF NbInv, NbTells

LEMMA NbWrite ==
    ASSUME NbFiles, NEW a \in NbAgents, NEW k \in NbKeys, Notes!Write(a, k) PROVE NbFiles'
<1>1. /\ nbGap = Notes!NoGap
      /\ nbGap' = [agent |-> a, key |-> k, keys |-> Notes!Touched(k), op |-> "date"]
      /\ Notes!Bytes(blocks') <= NbMaxBytes /\ index' = index
      /\ torn' = torn \cup {k} \cup {x \in DOMAIN blocks' :
                                        x \in DOMAIN blocks => blocks'[x] # blocks[x]}
  BY DEF Notes!Write, Notes!Updates, Notes!Touched, Notes!Between
<1>2. PICK v \in NbValues, h \in NbKeys \cup {""} : blocks' \in Notes!Reread(k, v, h)
  BY DEF Notes!Write, Notes!NoKey
<1>3. ASSUME NEW b, Whole(b), NEW x, NEW u \in NbValues \cup {""}
      PROVE  Whole(Notes!With(b, x, u)) /\ DOMAIN Notes!With(b, x, u) = DOMAIN b \cup {x}
  <2>. DEFINE g == [y \in DOMAIN b \cup {x} |-> IF y = x THEN u ELSE b[y]]
  <2>. USE DEF Whole
  <2>1. Notes!With(b, x, u) = g
    BY DEF Notes!With
  <2>2. DOMAIN g = DOMAIN b \cup {x} /\ g = [y \in DOMAIN g |-> g[y]]
    OBVIOUS
  <2>3. \A y \in DOMAIN g : g[y] \in NbValues \cup {""}
    BY <1>3
  <2>4. IsFiniteSet(DOMAIN b \cup {x})
    BY <1>3, FS_AddElement
  <2>. HIDE DEF g
  <2>. QED
    BY <2>1, <2>2, <2>3, <2>4
<1>4. Whole(blocks)
  BY DEF NbFiles, Whole
<1>5. Whole(blocks') /\ DOMAIN blocks \cup {k} \subseteq DOMAIN blocks'
  <2>1. CASE h = ""
    <3>1. blocks' = Notes!With(blocks, k, v)
      BY <1>2, <2>1 DEF Notes!Reread, Notes!NoKey
    <3>. QED
      BY <1>3, <1>4, <3>1
  <2>2. CASE h # ""
    <3>. DEFINE own == Notes!With(blocks, k, "")
    <3>1. blocks' = Notes!With(own, h, v) \/ blocks' = own
      BY <1>2, <2>2 DEF Notes!Reread, Notes!NoKey
    <3>2. Whole(own) /\ DOMAIN own = DOMAIN blocks \cup {k}
      BY <1>3, <1>4
    <3>. HIDE DEF own
    <3>3. Whole(Notes!With(own, h, v)) /\ DOMAIN Notes!With(own, h, v) = DOMAIN own \cup {h}
      BY <1>3, <3>2
    <3>. QED
      BY <3>1, <3>2, <3>3
  <2>. QED
    BY <2>1, <2>2
<1>6. \A x \in NbKeys \ torn' : x \in DOMAIN blocks' <=> x \in DOMAIN index'
  <2>. TAKE x \in NbKeys \ torn'
  <2>1. x # k /\ x \notin torn
    BY <1>1
  <2>2. x \in DOMAIN blocks' => x \in DOMAIN blocks
    BY <1>1, <2>1
  <2>3. x \in DOMAIN blocks <=> x \in DOMAIN index
    BY <2>1 DEF NbFiles
  <2>. QED
    BY <1>1, <1>5, <2>2, <2>3
<1>7. nbGap'.op = "date" /\ nbGap'.key = k
  BY <1>1
<1>8. k \in torn' /\ k \in DOMAIN blocks'
  BY <1>1, <1>5
<1>. QED
  BY <1>1, <1>5, <1>6, <1>7, <1>8 DEF NbFiles, Whole

LEMMA NbDelete ==
    ASSUME NbFiles, NEW a \in NbAgents, NEW k \in NbKeys, Notes!Delete(a, k) PROVE NbFiles'
<1>1. /\ nbGap' = [agent |-> a, key |-> k, keys |-> Notes!Touched(k), op |-> "drop"]
      /\ blocks' = Notes!Without(blocks, k) /\ index' = index /\ torn' = torn \cup Notes!Touched(k)
      /\ k \in DOMAIN blocks /\ k \in Notes!Touched(k)
  BY DEF Notes!Delete, Notes!Updates, Notes!Touched
<1>2. /\ DOMAIN blocks' = DOMAIN blocks \ {k} /\ IsFiniteSet(DOMAIN blocks')
      /\ blocks' = [x \in DOMAIN blocks' |-> blocks'[x]] /\ \A x \in DOMAIN blocks' : blocks'[x] = blocks[x]
      /\ Notes!Bytes(blocks') <= Notes!Bytes(blocks) /\ Notes!Bytes(blocks') \in Nat
      /\ Notes!Bytes(blocks) \in Nat
  <2>1. Whole(blocks) /\ k \in DOMAIN blocks
    BY <1>1 DEF NbFiles, Whole
  <2>2. Less(blocks, k, blocks')
    BY <1>1, <2>1, BytesWithout
  <2>. QED
    BY <2>2 DEF Less
<1>3. Notes!Bytes(blocks') <= NbMaxBytes
  <2>1. Notes!Bytes(blocks) <= NbMaxBytes /\ NbMaxBytes \in Nat
    BY NotesAssumption DEF NbFiles
  <2>. QED
    BY <1>2, <2>1
<1>4. nbGap'.op = "drop" /\ nbGap'.key = k
  BY <1>1
<1>5. \A x \in DOMAIN blocks' : blocks'[x] \in NbValues \cup {""}
  BY <1>2 DEF NbFiles
<1>6. \A x \in NbKeys \ torn' : x \in DOMAIN blocks' <=> x \in DOMAIN index'
  BY <1>1, <1>2 DEF NbFiles
<1>7. k \in torn' /\ k \notin DOMAIN blocks'
  BY <1>1, <1>2
<1>. QED
  BY <1>1, <1>2, <1>3, <1>4, <1>5, <1>6, <1>7 DEF NbFiles

\* What a revision has of a key depends on the block and the date of that key.
LEMMA EntryKeeps ==
    ASSUME NEW b, NEW i, NEW c, NEW j, NEW k,
           k \in DOMAIN b <=> k \in DOMAIN c, k \in DOMAIN b => b[k] = c[k],
           k \in DOMAIN i <=> k \in DOMAIN j, k \in DOMAIN i => i[k] = j[k]
    PROVE  Notes!EntryOf(<<b, i>>, k) = Notes!EntryOf(<<c, j>>, k)
<1>1. {b[x] : x \in {k} \cap DOMAIN b} = {c[x] : x \in {k} \cap DOMAIN c}
  OBVIOUS
<1>2. {i[x] : x \in {k} \cap DOMAIN i} = {j[x] : x \in {k} \cap DOMAIN j}
  OBVIOUS
<1>3. <<b, i>>[1] = b /\ <<b, i>>[2] = i /\ <<c, j>>[1] = c /\ <<c, j>>[2] = j
  OBVIOUS
<1>. QED
  BY <1>1, <1>2, <1>3 DEF Notes!EntryOf

\* The first half of an update is one that all agents have yet to hear of.
LEMMA NbUpdates ==
    ASSUME NbInv, NEW a \in NbAgents, NEW k \in NbKeys, NEW op, inTurn[a],
           Notes!Updates(a, k, op),
           \A x \in DOMAIN blocks \ {k} : x \in DOMAIN blocks'
    PROVE  NbShapes' /\ NbHeard' /\ NbTells'
<1>. DEFINE keys == Notes!Touched(k)
<1>1. /\ UNCHANGED <<index, nbSeen, inTurn, preSeen, nbTold, preTold, swallowed, preSwallowed>>
      /\ nbGap' = [agent |-> a, key |-> k, keys |-> keys, op |-> op]
      /\ unheard' = [b \in NbAgents |-> unheard[b] \cup keys]
  BY DEF Notes!Updates, Notes!nbMind
<1>2. k \in keys /\ \A x : x \notin keys => /\ x # k /\ (x \in DOMAIN blocks' => x \in DOMAIN blocks)
                                            /\ x \in DOMAIN blocks' => blocks'[x] = blocks[x]
  BY DEF Notes!Touched
<1>. HIDE DEF keys
<1>3. NbShapes'
  BY <1>1 DEF NbInv, NbShapes, ByAgent
<1>4. NbHeard'
  <2>1. /\ nbGap'.agent \in NbAgents /\ inTurn'[nbGap'.agent] /\ nbGap'.key \in nbGap'.keys
        /\ \A b \in NbAgents : nbGap'.keys \subseteq unheard'[b]
    BY <1>1, <1>2
  <2>2. ASSUME NEW b \in NbAgents, inTurn'[b], NEW x \in NbKeys \ unheard'[b]
        PROVE  Notes!EntryOf(nbSeen'[b], x) = Notes!EntryOf(<<blocks', index'>>, x)
    <3>1. x \notin keys /\ x \in NbKeys \ unheard[b] /\ inTurn[b]
      BY <1>1, <2>2
    <3>2. Notes!EntryOf(nbSeen[b], x) = Notes!EntryOf(<<blocks, index>>, x)
      BY <3>1 DEF NbInv, NbHeard
    <3>3. (x \in DOMAIN blocks <=> x \in DOMAIN blocks') /\ (x \in DOMAIN blocks => blocks[x] = blocks'[x])
      BY <1>2, <3>1
    <3>4. Notes!EntryOf(<<blocks, index>>, x) = Notes!EntryOf(<<blocks', index>>, x)
      BY <3>3, EntryKeeps
    <3>. QED
      BY <1>1, <3>2, <3>4
  <2>. QED
    BY <2>1, <2>2 DEF NbHeard
<1>5. NbTells'
  BY <1>1 DEF NbInv, NbTells, TellsSeen
<1>. QED
  BY <1>3, <1>4, <1>5

LEMMA NbUpdateIndexFiles == ASSUME NbFiles, Notes!UpdateIndex PROVE NbFiles'
<1>1. /\ nbGap.op # "none" /\ nbGap' = Notes!NoGap /\ blocks' = blocks /\ torn' = torn \ {nbGap.key}
      /\ index' = IF nbGap.op = "date" THEN Notes!With(index, nbGap.key, day)
                   ELSE Notes!Without(index, nbGap.key)
  BY DEF Notes!UpdateIndex
<1>2. Notes!NoGap.op = "none"
  BY DEF Notes!NoGap
<1>3. CASE nbGap.op = "date"
  <2>1. DOMAIN index' = DOMAIN index \cup {nbGap.key}
    BY <1>1, <1>3 DEF Notes!With
  <2>2. \A x \in NbKeys \ torn' : x \in DOMAIN blocks' <=> x \in DOMAIN index'
    BY <1>1, <1>3, <2>1 DEF NbFiles
  <2>. QED
    BY <1>1, <1>2, <2>2 DEF NbFiles
<1>4. CASE nbGap.op = "drop"
  <2>1. DOMAIN index' = DOMAIN index \ {nbGap.key}
    <3>1. {x \in DOMAIN index : x # nbGap.key} = DOMAIN index \ {nbGap.key}
      OBVIOUS
    <3>. QED
      BY <1>1, <1>4, <3>1 DEF Notes!Without, Notes!RestrictDomain, Notes!Restrict
  <2>2. \A x \in NbKeys \ torn' : x \in DOMAIN blocks' <=> x \in DOMAIN index'
    BY <1>1, <1>4, <2>1 DEF NbFiles
  <2>. QED
    BY <1>1, <1>2, <2>2 DEF NbFiles
<1>. QED
  BY <1>1, <1>3, <1>4 DEF NbFiles

\* The result of a tool tells of what it did, and what is seen of the other keys
\* is what had been seen, unless it is swallowed.
LEMMA NbUpdateIndex == ASSUME NbInv, Notes!UpdateIndex PROVE NbInv'
<1>. DEFINE a == nbGap.agent
            keys == nbGap.keys
            now == <<blocks, index'>>
<1>1. /\ nbGap.op # "none" /\ nbGap' = Notes!NoGap
      /\ UNCHANGED <<blocks, inTurn, preSeen, preTold, preSwallowed>>
      /\ index' = IF nbGap.op = "date" THEN Notes!With(index, nbGap.key, day)
                   ELSE Notes!Without(index, nbGap.key)
      /\ nbSeen' = [nbSeen EXCEPT ![a] = now]
      /\ nbTold' = [nbTold EXCEPT ![a] = [k \in NbKeys |->
                      IF k \in keys THEN Notes!EntryOf(now, k) ELSE nbTold[a][k]]]
      /\ swallowed' = [swallowed EXCEPT ![a] = (swallowed[a] \cup unheard[a]) \ keys]
      /\ unheard' = [unheard EXCEPT ![a] = {}]
  BY DEF Notes!UpdateIndex
<1>2. /\ a \in NbAgents /\ inTurn[a] /\ nbGap.key \in keys
      /\ \A b \in NbAgents : keys \subseteq unheard[b]
  BY <1>1 DEF NbInv, NbHeard
<1>3. ASSUME NEW k, k \notin keys
      PROVE  Notes!EntryOf(now, k) = Notes!EntryOf(<<blocks, index>>, k)
  <2>1. k # nbGap.key
    BY <1>2, <1>3
  <2>2. (k \in DOMAIN index' <=> k \in DOMAIN index) /\ (k \in DOMAIN index' => index'[k] = index[k])
    <3>1. CASE nbGap.op = "date"
      BY <1>1, <2>1, <3>1 DEF Notes!With
    <3>2. CASE nbGap.op # "date"
      <4>1. index' = [x \in {y \in DOMAIN index : y # nbGap.key} |-> index[x]]
        BY <1>1, <3>2 DEF Notes!Without, Notes!RestrictDomain, Notes!Restrict
      <4>. QED
        BY <2>1, <4>1
    <3>. QED
      BY <3>1, <3>2
  <2>. QED
    BY <2>2, EntryKeeps
<1>. HIDE DEF a, keys, now
<1>4. NbFiles'
  BY NbUpdateIndexFiles DEF NbInv
<1>5. NbShapes'
  BY <1>1, <1>2 DEF NbInv, NbShapes, ByAgent
<1>6. \A b \in NbAgents : /\ b = a => /\ nbSeen'[b] = now /\ unheard'[b] = {}
                                      /\ swallowed'[b] = (swallowed[a] \cup unheard[a]) \ keys
                          /\ b # a => /\ nbSeen'[b] = nbSeen[b] /\ nbTold'[b] = nbTold[b]
                                      /\ unheard'[b] = unheard[b] /\ swallowed'[b] = swallowed[b]
  BY <1>1 DEF NbInv, NbShapes, ByAgent
<1>7. \A k \in NbKeys : nbTold'[a][k] = IF k \in keys THEN Notes!EntryOf(now, k) ELSE nbTold[a][k]
  BY <1>1, <1>2 DEF NbInv, NbShapes, ByAgent
<1>8. NbHeard'
  <2>1. nbGap'.op = "none"
    BY <1>1 DEF Notes!NoGap
  <2>2. ASSUME NEW b \in NbAgents, inTurn'[b], NEW x \in NbKeys \ unheard'[b]
        PROVE  Notes!EntryOf(nbSeen'[b], x) = Notes!EntryOf(<<blocks', index'>>, x)
    <3>1. <<blocks', index'>> = now /\ inTurn[b]
      BY <1>1, <2>2 DEF now
    <3>2. CASE b = a
      BY <1>6, <3>1, <3>2
    <3>3. CASE b # a
      <4>1. nbSeen'[b] = nbSeen[b] /\ x \in NbKeys \ unheard[b] /\ x \notin keys
        BY <1>2, <1>6, <2>2, <3>3
      <4>2. Notes!EntryOf(nbSeen[b], x) = Notes!EntryOf(<<blocks, index>>, x)
        BY <3>1, <4>1 DEF NbInv, NbHeard
      <4>. QED
        BY <1>3, <3>1, <4>1, <4>2
    <3>. QED
      BY <3>2, <3>3
  <2>. QED
    BY <2>1, <2>2 DEF NbHeard
<1>9. NbTells'
  <2>1. ASSUME NEW b \in NbAgents, NEW x \in NbKeys \ swallowed'[b]
        PROVE  nbTold'[b][x] = Notes!EntryOf(nbSeen'[b], x)
    <3>1. CASE b # a
      <4>1. x \in NbKeys \ swallowed[b]
        BY <1>6, <2>1, <3>1
      <4>2. nbTold[b][x] = Notes!EntryOf(nbSeen[b], x)
        BY <4>1 DEF NbInv, NbTells, TellsSeen
      <4>. QED
        BY <1>6, <3>1, <4>2
    <3>2. CASE b = a /\ x \in keys
      BY <1>6, <1>7, <3>2
    <3>3. CASE b = a /\ x \notin keys
      <4>1. x \in NbKeys \ swallowed[a] /\ x \in NbKeys \ unheard[a]
        BY <1>6, <2>1, <3>3
      <4>2. nbTold[a][x] = Notes!EntryOf(nbSeen[a], x)
        BY <1>2, <4>1 DEF NbInv, NbTells, TellsSeen
      <4>3. Notes!EntryOf(nbSeen[a], x) = Notes!EntryOf(<<blocks, index>>, x)
        BY <1>2, <4>1 DEF NbInv, NbHeard
      <4>4. Notes!EntryOf(now, x) = Notes!EntryOf(<<blocks, index>>, x)
        BY <1>3, <3>3
      <4>5. nbTold'[a][x] = nbTold[a][x] /\ nbSeen'[a] = now
        BY <1>2, <1>6, <1>7, <3>3
      <4>. QED
        BY <3>3, <4>2, <4>3, <4>4, <4>5
    <3>. QED
      BY <3>1, <3>2, <3>3
  <2>2. TellsSeen(nbSeen', nbTold', swallowed')
    BY <2>1 DEF TellsSeen
  <2>3. TellsSeen(preSeen', preTold', preSwallowed')
    BY <1>1 DEF NbInv, NbTells
  <2>. QED
    BY <2>2, <2>3 DEF NbTells
<1>. QED
  BY <1>4, <1>5, <1>8, <1>9 DEF NbInv

\* Steps that leave the files as they are, and the gap or nothing of it.
LEMMA NbMinds ==
    ASSUME NbFiles, UNCHANGED <<blocks, index, torn>>, nbGap' \in {nbGap, Notes!NoGap}
    PROVE  NbFiles'
<1>1. Notes!NoGap.op = "none"
  BY DEF Notes!NoGap
<1>2. blocks' = blocks /\ index' = index /\ torn' = torn
  OBVIOUS
<1>. QED
  BY <1>1, <1>2 DEF NbFiles

\* A turn begins: what the agent has seen is what there is, and it is told of it.
LEMMA NbBeginTurn == ASSUME NbInv, NEW a \in NbAgents, Notes!BeginTurn(a) PROVE NbInv'
<1>. DEFINE now == <<blocks, index>>
<1>1. /\ UNCHANGED <<blocks, index, torn, nbGap>> /\ nbGap = Notes!NoGap
      /\ inTurn' = [inTurn EXCEPT ![a] = TRUE] /\ unheard' = [unheard EXCEPT ![a] = {}]
      /\ preSeen' = [preSeen EXCEPT ![a] = nbSeen[a]] /\ preTold' = [preTold EXCEPT ![a] = nbTold[a]]
      /\ preSwallowed' = [preSwallowed EXCEPT ![a] = swallowed[a]]
      /\ \/ /\ nbSeen' = [nbSeen EXCEPT ![a] = now] /\ swallowed' = [swallowed EXCEPT ![a] = {}]
            /\ nbTold' = [nbTold EXCEPT ![a] = [k \in NbKeys |-> Notes!EntryOf(now, k)]]
         \/ nbSeen[a] = now /\ UNCHANGED <<nbSeen, nbTold, swallowed>>
  BY DEF Notes!BeginTurn, Notes!nbFiles, Notes!Between, Notes!Tells, Notes!Entries, Notes!Revision
<1>. HIDE DEF now
<1>2. NbShapes'
  BY <1>1 DEF NbInv, NbShapes, ByAgent
<1>3. NbFiles'
  BY <1>1, NbMinds DEF NbInv
<1>4. \A b \in NbAgents : b # a =>
         /\ nbSeen'[b] = nbSeen[b] /\ nbTold'[b] = nbTold[b] /\ swallowed'[b] = swallowed[b]
         /\ inTurn'[b] = inTurn[b] /\ unheard'[b] = unheard[b]
         /\ preSeen'[b] = preSeen[b] /\ preTold'[b] = preTold[b] /\ preSwallowed'[b] = preSwallowed[b]
  BY <1>1 DEF NbInv, NbShapes, ByAgent
<1>5. /\ preSeen'[a] = nbSeen[a] /\ preTold'[a] = nbTold[a] /\ preSwallowed'[a] = swallowed[a]
      /\ nbSeen'[a] = now
      /\ \/ nbTold'[a] = [k \in NbKeys |-> Notes!EntryOf(now, k)]
         \/ nbSeen[a] = now /\ nbTold'[a] = nbTold[a] /\ swallowed'[a] = swallowed[a]
  BY <1>1 DEF NbInv, NbShapes, ByAgent
<1>6. NbHeard'
  <2>1. nbGap'.op = "none"
    BY <1>1 DEF Notes!NoGap
  <2>2. ASSUME NEW b \in NbAgents, inTurn'[b], NEW x \in NbKeys \ unheard'[b]
        PROVE  Notes!EntryOf(nbSeen'[b], x) = Notes!EntryOf(now, x)
    <3>1. CASE b = a
      BY <1>5, <3>1
    <3>2. CASE b # a
      BY <1>4, <2>2, <3>2 DEF NbInv, NbHeard, now
    <3>. QED
      BY <3>1, <3>2
  <2>. QED
    BY <1>1, <2>1, <2>2 DEF NbHeard, now
<1>7. TellsSeen(nbSeen', nbTold', swallowed')
  BY <1>4, <1>5 DEF NbInv, NbTells, TellsSeen
<1>8. TellsSeen(preSeen', preTold', preSwallowed')
  BY <1>4, <1>5 DEF NbInv, NbTells, TellsSeen
<1>. QED
  BY <1>2, <1>3, <1>6, <1>7, <1>8 DEF NbInv, NbTells

\* A turn is taken back, and what its agent has seen and was told with it.
LEMMA NbFailTurn == ASSUME NbInv, NEW a \in NbAgents, Notes!FailTurn(a) PROVE NbInv'
<1>1. /\ UNCHANGED <<blocks, index, torn, unheard, preSeen, preTold, preSwallowed>>
      /\ nbGap = Notes!NoGap /\ nbGap' = Notes!NoGap /\ inTurn' = [inTurn EXCEPT ![a] = FALSE]
      /\ nbSeen' = [nbSeen EXCEPT ![a] = preSeen[a]] /\ nbTold' = [nbTold EXCEPT ![a] = preTold[a]]
      /\ swallowed' = [swallowed EXCEPT ![a] = preSwallowed[a]]
  BY DEF Notes!FailTurn, Notes!nbFiles, Notes!Between
<1>2. NbShapes'
  BY <1>1 DEF NbInv, NbShapes, ByAgent
<1>3. NbFiles'
  BY <1>1, NbMinds DEF NbInv
<1>4. \A b \in NbAgents :
         /\ b # a => /\ nbSeen'[b] = nbSeen[b] /\ nbTold'[b] = nbTold[b]
                     /\ swallowed'[b] = swallowed[b] /\ inTurn'[b] = inTurn[b]
         /\ b = a => /\ nbSeen'[b] = preSeen[b] /\ nbTold'[b] = preTold[b]
                     /\ swallowed'[b] = preSwallowed[b] /\ ~inTurn'[b]
  BY <1>1 DEF NbInv, NbShapes, ByAgent
<1>5. NbHeard'
  <2>1. nbGap'.op = "none"
    BY <1>1 DEF Notes!NoGap
  <2>2. ASSUME NEW b \in NbAgents, inTurn'[b], NEW x \in NbKeys \ unheard'[b]
        PROVE  Notes!EntryOf(nbSeen'[b], x) = Notes!EntryOf(<<blocks', index'>>, x)
    <3>1. b # a /\ inTurn[b] /\ nbSeen'[b] = nbSeen[b] /\ x \in NbKeys \ unheard[b]
      BY <1>1, <1>4, <2>2
    <3>2. Notes!EntryOf(nbSeen[b], x) = Notes!EntryOf(<<blocks, index>>, x)
      BY <3>1 DEF NbInv, NbHeard
    <3>3. blocks' = blocks /\ index' = index
      BY <1>1
    <3>. QED
      BY <3>1, <3>2, <3>3
  <2>. QED
    BY <2>1, <2>2 DEF NbHeard
<1>6. TellsSeen(nbSeen', nbTold', swallowed')
  BY <1>4 DEF NbInv, NbTells, TellsSeen
<1>7. TellsSeen(preSeen', preTold', preSwallowed')
  BY <1>1 DEF NbInv, NbTells
<1>. QED
  BY <1>2, <1>3, <1>5, <1>6, <1>7 DEF NbInv, NbTells

\* An agent is made anew, with what there is in its prompt.
LEMMA NbRebuild == ASSUME NbInv, NEW a \in NbAgents, Notes!Rebuild(a) PROVE NbInv'
<1>. DEFINE now == <<blocks, index>>
<1>1. /\ UNCHANGED <<blocks, index, torn, nbGap, inTurn, unheard, preSeen, preTold, preSwallowed>>
      /\ nbGap = Notes!NoGap /\ ~inTurn[a]
      /\ nbSeen' = [nbSeen EXCEPT ![a] = now] /\ swallowed' = [swallowed EXCEPT ![a] = {}]
      /\ nbTold' = [nbTold EXCEPT ![a] = [k \in NbKeys |-> Notes!EntryOf(now, k)]]
  BY DEF Notes!Rebuild, Notes!nbFiles, Notes!Between, Notes!Tells, Notes!Entries, Notes!Revision
<1>. HIDE DEF now
<1>2. NbShapes'
  BY <1>1 DEF NbInv, NbShapes, ByAgent
<1>3. NbFiles'
  BY <1>1, NbMinds DEF NbInv
<1>4. \A b \in NbAgents : b # a =>
         nbSeen'[b] = nbSeen[b] /\ nbTold'[b] = nbTold[b] /\ swallowed'[b] = swallowed[b]
  BY <1>1 DEF NbInv, NbShapes, ByAgent
<1>5. nbSeen'[a] = now /\ nbTold'[a] = [k \in NbKeys |-> Notes!EntryOf(now, k)]
  BY <1>1 DEF NbInv, NbShapes, ByAgent
<1>6. NbHeard'
  <2>1. nbGap'.op = "none"
    BY <1>1 DEF Notes!NoGap
  <2>. QED
    BY <1>1, <1>4, <2>1 DEF NbInv, NbHeard
<1>7. TellsSeen(nbSeen', nbTold', swallowed')
  BY <1>4, <1>5 DEF NbInv, NbTells, TellsSeen
<1>8. TellsSeen(preSeen', preTold', preSwallowed')
  BY <1>1 DEF NbInv, NbTells
<1>. QED
  BY <1>2, <1>3, <1>6, <1>7, <1>8 DEF NbInv, NbTells

\* Steps that change nothing of what is seen and told; turns may end.
LEMMA NbQuiet ==
    ASSUME NbInv, UNCHANGED <<blocks, index, torn>>, nbGap' \in {nbGap, Notes!NoGap},
           UNCHANGED <<nbSeen, nbTold, preSeen, preTold, unheard, swallowed, preSwallowed>>,
           ByAgent(inTurn'), \A b \in NbAgents : inTurn'[b] => inTurn[b],
           nbGap' = Notes!NoGap \/ inTurn' = inTurn
    PROVE  NbInv'
<1>1. NbFiles'
  BY NbMinds DEF NbInv
<1>2. NbShapes'
  BY DEF NbInv, NbShapes, ByAgent
<1>3. NbHeard'
  <2>1. CASE nbGap' = Notes!NoGap
    BY <2>1 DEF NbInv, NbHeard, Notes!NoGap
  <2>2. CASE nbGap' = nbGap /\ inTurn' = inTurn
    BY <2>2 DEF NbInv, NbHeard
  <2>. QED
    BY <2>1, <2>2
<1>4. NbTells'
  BY DEF NbInv, NbTells, TellsSeen
<1>. QED
  BY <1>1, <1>2, <1>3, <1>4 DEF NbInv

LEMMA NbCrash == ASSUME NbInv, Notes!Crash PROVE NbInv'
<1>. DEFINE now == <<blocks, index>>
<1>1. /\ UNCHANGED <<blocks, index, torn, unheard, preSeen, preTold, preSwallowed>>
      /\ nbGap' = Notes!NoGap /\ inTurn' = [b \in NbAgents |-> FALSE]
      /\ nbSeen' = [b \in NbAgents |-> now] /\ swallowed' = [b \in NbAgents |-> {}]
      /\ nbTold' = [b \in NbAgents |-> [k \in NbKeys |-> Notes!EntryOf(now, k)]]
  BY DEF Notes!Crash, Notes!nbFiles, Notes!Entries, Notes!Revision
<1>. HIDE DEF now
<1>2. NbFiles'
  BY <1>1, NbMinds DEF NbInv
<1>3. NbShapes'
  BY <1>1 DEF NbInv, NbShapes, ByAgent
<1>4. NbHeard'
  BY <1>1 DEF NbHeard, Notes!NoGap
<1>5. TellsSeen(nbSeen', nbTold', swallowed')
  BY <1>1 DEF TellsSeen
<1>6. TellsSeen(preSeen', preTold', preSwallowed')
  BY <1>1 DEF NbInv, NbTells
<1>. QED
  BY <1>2, <1>3, <1>4, <1>5, <1>6 DEF NbInv, NbTells

\* Whatever a crash, a failing write or a turn that is taken back interrupts: the
\* notebook stays below its cap, its directory has the date of every key but
\* of those that were torn, and no agent counts as seen what it was not told,
\* but for what its own update has marked as seen over the writes of others.
THEOREM NotebookStaysSound == RcSpec => []NotebookSound
<1>1. ASSUME NbInv, [RcNext]_RcVars PROVE NbInv'
  <2>1. Notes!NbNext \/ UNCHANGED nbAll
    BY <1>1, NbSteps
  <2>2. CASE UNCHANGED nbAll
    <3>1. ByAgent(inTurn)
      BY <1>1 DEF NbInv, NbShapes
    <3>. QED
      BY <1>1, <2>2, <3>1, NbQuiet DEF nbAll
  <2>3. ASSUME NEW a \in NbAgents, Notes!EndTurn(a) \/ Notes!Compact(a) PROVE NbInv'
    <3>1. /\ UNCHANGED <<blocks, index, torn, nbGap, nbSeen, preSeen, nbTold, preTold, unheard,
                         swallowed, preSwallowed>>
          /\ nbGap = Notes!NoGap /\ (inTurn' = inTurn \/ inTurn' = [inTurn EXCEPT ![a] = FALSE])
      BY <2>3 DEF Notes!EndTurn, Notes!Compact, Notes!nbFiles, Notes!nbTelling, Notes!Between
    <3>2. ByAgent(inTurn') /\ \A b \in NbAgents : inTurn'[b] => inTurn[b]
      BY <1>1, <3>1 DEF NbInv, NbShapes, ByAgent
    <3>. QED
      BY <1>1, <3>1, <3>2, NbQuiet
  <2>4. ASSUME NEW a \in NbAgents, NEW k \in NbKeys, Notes!Write(a, k) \/ Notes!Delete(a, k) PROVE NbInv'
    <3>1. NbFiles'
      BY <1>1, <2>4, NbWrite, NbDelete DEF NbInv
    <3>2. inTurn[a] /\ \E op : Notes!Updates(a, k, op)
      BY <2>4 DEF Notes!Write, Notes!Delete
    <3>3. \A x \in DOMAIN blocks \ {k} : x \in DOMAIN blocks'
      <4>1. CASE Notes!Write(a, k)
        BY <4>1 DEF Notes!Write, Notes!Reread, Notes!With
      <4>2. CASE Notes!Delete(a, k)
        BY <4>2 DEF Notes!Delete, Notes!Without, Notes!RestrictDomain, Notes!Restrict
      <4>. QED
        BY <2>4, <4>1, <4>2
    <3>. QED
      BY <1>1, <3>1, <3>2, <3>3, NbUpdates DEF NbInv
  <2>5. CASE Notes!IndexFails \/ Notes!NextDay
    <3>1. /\ UNCHANGED <<blocks, index, torn, nbSeen, preSeen, nbTold, preTold, inTurn, unheard,
                         swallowed, preSwallowed>>
          /\ nbGap' \in {nbGap, Notes!NoGap}
      BY <2>5 DEF Notes!IndexFails, Notes!NextDay, Notes!nbFiles, Notes!nbMind, Notes!nbTelling
    <3>2. ByAgent(inTurn')
      BY <1>1, <3>1 DEF NbInv, NbShapes
    <3>. QED
      BY <1>1, <3>1, <3>2, NbQuiet
  <2>. QED
    BY <1>1, <2>1, <2>2, <2>3, <2>4, <2>5, NbBeginTurn, NbFailTurn, NbRebuild, NbCrash, NbUpdateIndex
    DEF Notes!NbNext
<1>2. NbInv => NotebookSound
  BY DEF NbInv, NbFiles, NbTells, TellsSeen, NotebookSound, Notes!NotebookSound, Notes!SeenIsTold
<1>. QED
  BY NbBegins, <1>1, <1>2, PTL DEF RcSpec

-----------------------------------------------------------------------------
(* Sums over sequences, and the caches of pictures *)

\* Entries of a cache, of whatever kind, have a size.
Sized(X) == \A x \in X : x.size \in Nat

Sizes(s) == [i \in DOMAIN s |-> s[i].size]

LEMMA SizesTotal ==
    ASSUME NEW X, Sized(X), NEW s \in Seq(X)
    PROVE  /\ Images!Bytes(s) = Total(1..Len(s), Sizes(s)) /\ Sizes(s) \in [1..Len(s) -> Nat]
           /\ Images!Bytes(s) \in Nat
<1>. DEFINE D == DOMAIN s
            w == Sizes(s)
            G == CHOOSE iter : iter = [t \in SUBSET D |-> IF t = {} THEN 0
                                          ELSE s[One(t)].size + iter[t \ {One(t)}]]
<1>1. Images!Bytes(s) = G[D]
  BY DEF Images!Bytes, Images!FoldSeq, Images!FoldFunction, Images!FoldFunctionOnSet,
     Images!MapThenFoldSet, One
<1>2. D = 1..Len(s) /\ IsFiniteSet(D)
  BY FS_Interval
<1>3. w \in [D -> Nat] /\ \A k \in D : w[k] = s[k].size
  BY DEF Sizes, Sized
<1>4. \A t \in SUBSET D : t # {} => One(t) \in D
  BY DEF One
<1>. HIDE DEF D, w
<1>5. PICK F \in [SUBSET D -> Nat] : IsSum(F, D, w) /\ Total(D, w) = F[D]
  BY <1>2, <1>3, SumExists
<1>6. F = [t \in SUBSET D |-> IF t = {} THEN 0 ELSE s[One(t)].size + F[t \ {One(t)}]]
  BY <1>3, <1>4, <1>5 DEF IsSum
<1>7. G = [t \in SUBSET D |-> IF t = {} THEN 0 ELSE s[One(t)].size + G[t \ {One(t)}]]
  BY <1>6
<1>. HIDE DEF G
<1>8. IsSum(G, D, w)
  BY <1>3, <1>4, <1>7 DEF IsSum
<1>9. F[D] = G[D]
  BY <1>2, <1>5, <1>8, SumUnique
<1>10. F[D] \in Nat
  BY <1>5
<1>. QED
  BY <1>1, <1>2, <1>3, <1>5, <1>9, <1>10 DEF w

LEMMA SumsMove ==
    /\ \A a \in Nat : a + 0 = a
    /\ \A a, b, c, d, e \in Nat : a + b = c /\ d = c + e => a + (b + e) = d
OBVIOUS

LEMMA BytesOfNone == Images!Bytes(<< >>) = 0
<1>. DEFINE e == << >>
            N == [size : Nat]
<1>1. Sized(N) /\ e \in Seq(N) /\ Len(e) = 0 /\ 1..0 = {}
  BY DEF Sized
<1>. HIDE DEF e, N
<1>2. Images!Bytes(e) = Total({}, Sizes(e)) /\ Sizes(e) \in [{} -> Nat] /\ IsFiniteSet({})
  BY <1>1, SizesTotal, FS_EmptySet
<1>3. PICK F \in [SUBSET {} -> Nat] : IsSum(F, {}, Sizes(e)) /\ Total({}, Sizes(e)) = F[{}]
  BY <1>2, SumExists
<1>. QED
  BY <1>2, <1>3 DEF IsSum, e

LEMMA BytesOfAppend ==
    ASSUME NEW X, Sized(X), NEW s \in Seq(X), NEW x \in X
    PROVE  Images!Bytes(Append(s, x)) = Images!Bytes(s) + x.size /\ Images!Bytes(s) \in Nat /\ x.size \in Nat
<1>. DEFINE n == Len(s)
            r == Append(s, x)
            D == 1..(n + 1)
            w == Sizes(r)
            v == Sizes(s)
<1>1. /\ n \in Nat /\ r \in Seq(X) /\ Len(r) = n + 1 /\ r[n + 1] = x /\ \A i \in 1..n : r[i] = s[i]
      /\ DOMAIN r = 1..(n + 1) /\ DOMAIN s = 1..n
  OBVIOUS
<1>2. D \ {n + 1} = 1..n /\ n + 1 \in D /\ IsFiniteSet(D)
  <2>1. 1 \in Int /\ n + 1 \in Int
    BY <1>1
  <2>2. IsFiniteSet(D)
    BY <2>1, FS_Interval
  <2>. HIDE DEF n
  <2>3. (1..(n + 1)) \ {n + 1} = 1..n /\ n + 1 \in 1..(n + 1)
    BY <1>1
  <2>. QED
    BY <2>2, <2>3
<1>. HIDE DEF r
<1>3. Images!Bytes(r) = Total(D, w) /\ w \in [D -> Nat]
  BY <1>1, SizesTotal
<1>4. Images!Bytes(s) = Total(D \ {n + 1}, v) /\ v \in [D \ {n + 1} -> Nat] /\ Images!Bytes(s) \in Nat
  BY <1>2, SizesTotal
<1>5. \A i \in D \ {n + 1} : v[i] = w[i]
  BY <1>1, <1>2 DEF Sizes
<1>6. w[n + 1] = x.size /\ x.size \in Nat
  BY <1>1 DEF Sizes, Sized
<1>. DEFINE k == n + 1
<1>. HIDE DEF D, w, v, k
<1>7. IsFiniteSet(D) /\ w \in [D -> Nat] /\ k \in D /\ v \in [D \ {k} -> Nat]
      /\ \A i \in D \ {k} : v[i] = w[i]
  BY <1>2, <1>3, <1>4, <1>5 DEF k
<1>8. Total(D, w) = w[k] + Total(D \ {k}, v)
  BY <1>7, TotalWithout
<1>. QED
  BY <1>3, <1>4, <1>6, <1>8 DEF k, r

\* Both parts of a sequence count together like the whole.
LEMMA BytesOfParts ==
    ASSUME NEW X, Sized(X), NEW s \in Seq(X), NEW v \in 0..Len(s)
    PROVE  /\ SubSeq(s, 1, v) \in Seq(X) /\ SubSeq(s, v + 1, Len(s)) \in Seq(X)
           /\ Images!Bytes(SubSeq(s, 1, v)) + Images!Bytes(SubSeq(s, v + 1, Len(s))) = Images!Bytes(s)
<1>. DEFINE Good == {q \in Seq(X) : \A u \in 0..Len(q) :
                        Images!Bytes(SubSeq(q, 1, u)) + Images!Bytes(SubSeq(q, u + 1, Len(q))) = Images!Bytes(q)}
<1>1. << >> \in Good
  <2>1. << >> \in Seq(X) /\ Len(<< >>) = 0 /\ \A u \in 0..0 : u = 0 /\ u + 1 = 1
    OBVIOUS
  <2>2. SubSeq(<< >>, 1, 0) = << >>
    OBVIOUS
  <2>3. Images!Bytes(<< >>) + Images!Bytes(<< >>) = Images!Bytes(<< >>)
    BY BytesOfNone
  <2>. QED
    BY <2>1, <2>2, <2>3
<1>2. ASSUME NEW q \in Seq(X), NEW x \in X, q \in Good PROVE Append(q, x) \in Good
  <2>. DEFINE r == Append(q, x)
              n == Len(q)
  <2>1. n \in Nat /\ r \in Seq(X) /\ Len(r) = n + 1
    OBVIOUS
  <2>2. Images!Bytes(r) = Images!Bytes(q) + x.size /\ Images!Bytes(q) \in Nat /\ x.size \in Nat
    BY BytesOfAppend
  <2>3. ASSUME NEW u \in 0..(n + 1)
        PROVE  Images!Bytes(SubSeq(r, 1, u)) + Images!Bytes(SubSeq(r, u + 1, n + 1)) = Images!Bytes(r)
    <3>1. CASE u = n + 1
      <4>1. SubSeq(r, 1, u) = r /\ SubSeq(r, u + 1, n + 1) = << >>
        BY <2>1, <3>1
      <4>2. Images!Bytes(SubSeq(r, 1, u)) = Images!Bytes(r) /\ Images!Bytes(SubSeq(r, u + 1, n + 1)) = 0
        BY <4>1, BytesOfNone, Zenon
      <4>3. Images!Bytes(r) \in Nat
        BY <2>2
      <4>. HIDE DEF r, n
      <4>. QED
        BY <4>2, <4>3, SumsMove
    <3>2. CASE u # n + 1
      <4>. DEFINE b == SubSeq(q, u + 1, n)
      <4>1. u \in 0..n
        BY <2>1, <3>2
      <4>2. b \in Seq(X) /\ SubSeq(q, 1, u) \in Seq(X)
        BY <4>1
      <4>3. SubSeq(r, 1, u) = SubSeq(q, 1, u)
        BY <4>1
      <4>4. SubSeq(r, u + 1, n + 1) = Append(b, x)
        <5>1. b \in Seq(X) /\ Len(b) = n - u /\ \A j \in 1..(n - u) : b[j] = q[u + j]
          BY <4>1
        <5>. HIDE DEF b
        <5>. DEFINE e == n - u
        <5>7. e \in Nat /\ n \in Nat /\ u \in Nat
          BY <4>1
        <5>2. /\ Append(b, x) \in Seq(X) /\ Len(Append(b, x)) = n - u + 1
              /\ \A j \in 1..(n - u + 1) : Append(b, x)[j] = IF j = n - u + 1 THEN x ELSE q[u + j]
          <6>1. b \in Seq(X) /\ Len(b) = e /\ \A j \in 1..e : b[j] = q[u + j]
            BY <5>1
          <6>. HIDE DEF e
          <6>2. /\ Append(b, x) \in Seq(X) /\ Len(Append(b, x)) = e + 1 /\ Append(b, x)[e + 1] = x
                /\ \A j \in 1..e : Append(b, x)[j] = b[j]
            BY <5>7, <6>1
          <6>3. \A j \in 1..(e + 1) : j = e + 1 \/ j \in 1..e
            BY <5>7
          <6>4. \A j \in 1..(e + 1) : Append(b, x)[j] = IF j = e + 1 THEN x ELSE q[u + j]
            BY <6>1, <6>2, <6>3
          <6>. QED
            BY <6>2, <6>4 DEF e
        <5>3. /\ SubSeq(r, u + 1, n + 1) \in Seq(X) /\ Len(SubSeq(r, u + 1, n + 1)) = n - u + 1
              /\ \A j \in 1..(n - u + 1) : SubSeq(r, u + 1, n + 1)[j] = r[u + j]
          <6>1. \A j \in (u + 1)..(n + 1) : r[j] \in X
            BY <2>1, <5>7
          <6>. HIDE DEF r, n
          <6>2. /\ u + 1 \in Int /\ n + 1 \in Int /\ (n + 1) - (u + 1) + 1 = n - u + 1
                /\ u + 1 <= n + 1 /\ \A j \in Int : (u + 1) + j - 1 = u + j
            BY <4>1, <5>7
          <6>3. /\ SubSeq(r, u + 1, n + 1) \in Seq(X)
                /\ Len(SubSeq(r, u + 1, n + 1)) = IF u + 1 <= n + 1 THEN (n + 1) - (u + 1) + 1 ELSE 0
                /\ \A j \in 1..((n + 1) - (u + 1) + 1) : SubSeq(r, u + 1, n + 1)[j] = r[(u + 1) + j - 1]
            BY <6>1, <6>2, SubSeqProperties
          <6>. QED
            BY <6>2, <6>3
        <5>4. \A j \in 1..(n - u + 1) : r[u + j] = IF j = n - u + 1 THEN x ELSE q[u + j]
          BY <4>1
        <5>. DEFINE c == SubSeq(r, u + 1, n + 1)
                    d == Append(b, x)
        <5>5. c \in Seq(X) /\ d \in Seq(X) /\ Len(c) = Len(d) /\ \A j \in 1..Len(c) : c[j] = d[j]
          <6>. HIDE DEF r, n
          <6>. QED
            BY <5>2, <5>3, <5>4
        <5>. HIDE DEF c, d
        <5>6. c = d
          BY <5>5, SeqEqual
        <5>. QED
          BY <5>6 DEF c, d
      <4>5. Images!Bytes(Append(b, x)) = Images!Bytes(b) + x.size /\ Images!Bytes(b) \in Nat
        <5>. HIDE DEF b
        <5>. QED
          BY <4>2, BytesOfAppend
      <4>6. Images!Bytes(SubSeq(q, 1, u)) + Images!Bytes(b) = Images!Bytes(q)
        BY <1>2, <4>1
      <4>7. Images!Bytes(SubSeq(q, 1, u)) \in Nat
        BY <4>2, SizesTotal
      <4>8. /\ Images!Bytes(SubSeq(r, 1, u)) = Images!Bytes(SubSeq(q, 1, u))
            /\ Images!Bytes(SubSeq(r, u + 1, n + 1)) = Images!Bytes(b) + x.size
        BY <4>3, <4>4, <4>5, Zenon
      <4>. HIDE DEF b, r, n
      <4>. QED
        BY <2>2, <4>5, <4>6, <4>7, <4>8, SumsMove
    <3>. QED
      BY <3>1, <3>2
  <2>. HIDE DEF r, n
  <2>. QED
    BY <2>1, <2>3 DEF r
<1>. HIDE DEF Good
<1>3. Seq(X) \subseteq Good
  BY <1>1, <1>2, SeqsByAppend
<1>4. s \in Good
  BY <1>3
<1>. QED
  BY <1>4 DEF Good

LEMMA RemovedIs ==
    ASSUME NEW X, NEW s \in Seq(X), NEW i \in 1..Len(s)
    PROVE  /\ Images!RemoveAt(s, i) \in Seq(X) /\ Len(Images!RemoveAt(s, i)) = Len(s) - 1
           /\ \A j \in 1..(Len(s) - 1) : Images!RemoveAt(s, i)[j] = IF j < i THEN s[j] ELSE s[j + 1]
<1>. DEFINE n == Len(s)
            a == SubSeq(s, 1, i - 1)
            b == SubSeq(s, i + 1, n)
<1>1. n \in Nat /\ i \in 1..n
  OBVIOUS
<1>2. a \in Seq(X) /\ Len(a) = i - 1 /\ \A j \in 1..(i - 1) : a[j] = s[j]
  OBVIOUS
<1>3. b \in Seq(X) /\ Len(b) = n - i /\ \A j \in 1..(n - i) : b[j] = s[i + j]
  OBVIOUS
<1>4. Images!RemoveAt(s, i) = a \o b
  BY DEF Images!RemoveAt
<1>. HIDE DEF a, b, n
<1>5. /\ a \o b \in Seq(X) /\ Len(a \o b) = Len(a) + Len(b)
      /\ \A j \in 1..(Len(a) + Len(b)) : (a \o b)[j] = IF j <= Len(a) THEN a[j] ELSE b[j - Len(a)]
  BY <1>2, <1>3, ConcatProperties
<1>6. Len(a \o b) = n - 1
  BY <1>1, <1>2, <1>3, <1>5
<1>7. ASSUME NEW j \in 1..(n - 1) PROVE (a \o b)[j] = IF j < i THEN s[j] ELSE s[j + 1]
  <2>1. (a \o b)[j] = IF j <= i - 1 THEN a[j] ELSE b[j - (i - 1)]
    BY <1>1, <1>2, <1>3, <1>5
  <2>2. CASE j < i
    BY <1>1, <1>2, <2>1, <2>2
  <2>3. CASE ~(j < i)
    <3>1. j - (i - 1) \in 1..(n - i) /\ i + (j - (i - 1)) = j + 1 /\ ~(j <= i - 1)
      BY <1>1, <2>3
    <3>. QED
      BY <1>3, <2>1, <2>3, <3>1
  <2>. QED
    BY <2>2, <2>3
<1>. QED
  BY <1>4, <1>5, <1>6, <1>7 DEF n

LEMMA BytesOfRemoved ==
    ASSUME NEW X, Sized(X), NEW s \in Seq(X), NEW i \in 1..Len(s)
    PROVE  Images!Bytes(Images!RemoveAt(s, i)) + s[i].size = Images!Bytes(s)
<1>. DEFINE Good == {q \in Seq(X) : \A u \in 1..Len(q) :
                        Images!Bytes(Images!RemoveAt(q, u)) + q[u].size = Images!Bytes(q)}
<1>1. << >> \in Good
  <2>1. << >> \in Seq(X) /\ Len(<< >>) = 0 /\ 1..0 = {}
    OBVIOUS
  <2>. QED
    BY <2>1
<1>2. ASSUME NEW q \in Seq(X), NEW x \in X, q \in Good PROVE Append(q, x) \in Good
  <2>. DEFINE r == Append(q, x)
              n == Len(q)
  <2>1. /\ n \in Nat /\ r \in Seq(X) /\ Len(r) = n + 1 /\ r[n + 1] = x
        /\ \A j \in 1..n : r[j] = q[j]
    OBVIOUS
  <2>2. Images!Bytes(r) = Images!Bytes(q) + x.size /\ Images!Bytes(q) \in Nat /\ x.size \in Nat
    BY BytesOfAppend
  <2>. HIDE DEF r
  <2>3. ASSUME NEW u \in 1..(n + 1)
        PROVE  Images!Bytes(Images!RemoveAt(r, u)) + r[u].size = Images!Bytes(r)
    <3>0. /\ Images!RemoveAt(r, u) \in Seq(X) /\ Len(Images!RemoveAt(r, u)) = n
          /\ \A j \in 1..n : Images!RemoveAt(r, u)[j] = IF j < u THEN r[j] ELSE r[j + 1]
      <4>1. Len(r) - 1 = n /\ u \in 1..Len(r)
        BY <2>1
      <4>. HIDE DEF n
      <4>. QED
        BY <2>1, <4>1, RemovedIs
    <3>. DEFINE m == Images!RemoveAt(r, u)
    <3>. HIDE DEF m
    <3>1. CASE u = n + 1
      <4>1. m = q
        <5>1. m \in Seq(X) /\ Len(m) = Len(q) /\ \A j \in 1..Len(m) : m[j] = q[j]
          BY <2>1, <3>0, <3>1 DEF m
        <5>. QED
          BY <5>1, SeqEqual
      <4>. QED
        BY <2>1, <2>2, <3>1, <4>1 DEF m
    <3>2. CASE u # n + 1
      <4>. DEFINE b == Images!RemoveAt(q, u)
      <4>1. u \in 1..n
        BY <2>1, <3>2
      <4>2. /\ b \in Seq(X) /\ Len(b) = n - 1
            /\ \A j \in 1..(n - 1) : b[j] = IF j < u THEN q[j] ELSE q[j + 1]
        BY <4>1, RemovedIs
      <4>. HIDE DEF b
      <4>. DEFINE c == Append(b, x)
      <4>3. c \in Seq(X) /\ Len(c) = n /\ c[n] = x /\ \A j \in 1..(n - 1) : c[j] = b[j]
        BY <2>1, <4>1, <4>2
      <4>. HIDE DEF c
      <4>4. ASSUME NEW j \in 1..n PROVE m[j] = c[j]
        <5>1. m[j] = IF j < u THEN r[j] ELSE r[j + 1]
          BY <3>0 DEF m
        <5>2. CASE j = n
          BY <2>1, <4>1, <4>3, <5>1, <5>2
        <5>3. CASE j # n
          <6>1. j \in 1..(n - 1) /\ j + 1 \in 1..n
            BY <2>1, <5>3
          <6>. QED
            BY <2>1, <4>2, <4>3, <5>1, <6>1
        <5>. QED
          BY <5>2, <5>3
      <4>5. m = c
        <5>1. m \in Seq(X) /\ Len(m) = Len(c) /\ \A j \in 1..Len(m) : m[j] = c[j]
          BY <3>0, <4>3, <4>4 DEF m
        <5>. QED
          BY <4>3, <5>1, SeqEqual
      <4>6. Images!Bytes(c) = Images!Bytes(b) + x.size /\ Images!Bytes(b) \in Nat
        BY <4>2, BytesOfAppend DEF c
      <4>7. Images!Bytes(b) + q[u].size = Images!Bytes(q) /\ q[u].size \in Nat /\ r[u] = q[u]
        BY <1>2, <2>1, <4>1 DEF b, Sized
      <4>8. Images!Bytes(m) + r[u].size = (Images!Bytes(b) + x.size) + q[u].size
        BY <4>5, <4>6, <4>7
      <4>. HIDE DEF m, b, c, n
      <4>9. (Images!Bytes(b) + x.size) + q[u].size = Images!Bytes(r)
        BY <2>2, <4>6, <4>7
      <4>. QED
        BY <4>8, <4>9 DEF m
    <3>. QED
      BY <3>1, <3>2
  <2>. HIDE DEF n
  <2>. QED
    BY <2>1, <2>3 DEF r
<1>. HIDE DEF Good
<1>3. Seq(X) \subseteq Good
  BY <1>1, <1>2, SeqsByAppend
<1>4. s \in Good
  BY <1>3
<1>. QED
  BY <1>4 DEF Good

\* No key has two entries.
OneEach(s) == \A i, j \in DOMAIN s : s[i].key = s[j].key => i = j

\* Every entry of t is one of s.
From(t, s) == \A i \in DOMAIN t : \E j \in DOMAIN s : t[i] = s[j]

LEMMA WithoutIs ==
    ASSUME NEW X, Sized(X), NEW s \in Seq(X), OneEach(s), NEW k
    PROVE  LET t == Images!Without(s, k)
           IN  /\ t \in Seq(X) /\ OneEach(t) /\ ~Images!Hit(t, k) /\ From(t, s)
               /\ Images!Hit(s, k) => /\ Images!Entry(s, k) \in X /\ Images!Entry(s, k).key = k
                                      /\ \E j \in DOMAIN s : Images!Entry(s, k) = s[j]
                                      /\ Len(t) = Len(s) - 1
                                      /\ Images!Bytes(t) + Images!Entry(s, k).size = Images!Bytes(s)
               /\ ~Images!Hit(s, k) => t = s
<1>. DEFINE t == Images!Without(s, k)
            n == Len(s)
<1>0. n \in Nat /\ DOMAIN s = 1..n /\ \A j \in 1..n : s[j] \in X
  OBVIOUS
<1>1. CASE ~Images!Hit(s, k)
  <2>1. t = s
    BY <1>1 DEF Images!Without
  <2>2. From(s, s)
    BY DEF From
  <2>. HIDE DEF t
  <2>. QED
    BY <1>1, <2>1, <2>2 DEF t
<1>2. CASE Images!Hit(s, k)
  <2>. DEFINE i == Images!Place(s, k)
  <2>1. i \in DOMAIN s /\ s[i].key = k /\ Images!Entry(s, k) = s[i]
    BY <1>2 DEF Images!Hit, Images!Place, Images!Entry
  <2>2. t = Images!RemoveAt(s, i)
    BY <1>2 DEF Images!Without
  <2>. HIDE DEF t, i
  <2>3. /\ t \in Seq(X) /\ Len(t) = n - 1
        /\ \A j \in 1..(n - 1) : t[j] = IF j < i THEN s[j] ELSE s[j + 1]
    BY <1>0, <2>1, <2>2, RemovedIs
  <2>4. Images!Bytes(t) + s[i].size = Images!Bytes(s)
    BY <1>0, <2>1, <2>2, BytesOfRemoved
  <2>. DEFINE f == [j \in 1..(n - 1) |-> IF j < i THEN j ELSE j + 1]
  <2>5. DOMAIN t = 1..(n - 1)
    BY <1>0, <2>1, <2>3
  <2>6. \A j \in 1..(n - 1) : f[j] \in 1..n /\ f[j] # i /\ t[j] = s[f[j]]
    BY <1>0, <2>1, <2>3
  <2>7. \A j, m \in 1..(n - 1) : f[j] = f[m] => j = m
    BY <1>0, <2>1
  <2>. HIDE DEF f, n
  <2>8. OneEach(t)
    BY <1>0, <2>5, <2>6, <2>7 DEF OneEach
  <2>9. ~Images!Hit(t, k)
    BY <1>0, <2>1, <2>5, <2>6 DEF OneEach, Images!Hit
  <2>10. From(t, s)
    BY <1>0, <2>5, <2>6 DEF From
  <2>. QED
    BY <1>0, <1>2, <2>1, <2>3, <2>4, <2>8, <2>9, <2>10 DEF t, n
<1>. QED
  BY <1>1, <1>2

LEMMA AppendIsWell ==
    ASSUME NEW X, NEW s \in Seq(X), OneEach(s), NEW x \in X, ~Images!Hit(s, x.key)
    PROVE  /\ Append(s, x) \in Seq(X) /\ OneEach(Append(s, x)) /\ Len(Append(s, x)) = Len(s) + 1
           /\ \A i \in DOMAIN Append(s, x) : Append(s, x)[i] = x \/ \E j \in DOMAIN s : Append(s, x)[i] = s[j]
<1>. DEFINE r == Append(s, x)
            n == Len(s)
<1>1. /\ n \in Nat /\ r \in Seq(X) /\ Len(r) = n + 1 /\ DOMAIN r = 1..(n + 1) /\ DOMAIN s = 1..n
      /\ r[n + 1] = x /\ \A i \in 1..n : r[i] = s[i]
  OBVIOUS
<1>2. \A i \in 1..(n + 1) : i = n + 1 \/ i \in 1..n
  BY <1>1
<1>. HIDE DEF r, n
<1>3. \A i \in 1..n : s[i].key # x.key
  BY <1>1 DEF Images!Hit
<1>4. OneEach(r)
  BY <1>1, <1>2, <1>3 DEF OneEach
<1>. QED
  BY <1>1, <1>2, <1>4 DEF r, n

\* A cache within its limits, whose counter counts what is in it.
CacheOK(s, n, X) ==
    /\ s \in Seq(X) /\ OneEach(s) /\ n = Images!Bytes(s)
    /\ Len(s) <= ImMaxEntries /\ Images!Bytes(s) <= ImMaxBytes

\* Eviction brings a cache back within its limits.
LEMMA KeptIsCache ==
    ASSUME NEW X, Sized(X), NEW s \in Seq(X), OneEach(s), NEW n, n = Images!Bytes(s)
    PROVE  CacheOK(Images!Kept(s, n), Images!BytesKept(s, n), X) /\ From(Images!Kept(s, n), s)
<1>. DEFINE m == Len(s)
            S == {v \in 0..m : \/ v = m
                               \/ /\ m - v <= ImMaxEntries
                                  /\ n - Images!Bytes(SubSeq(s, 1, v)) <= ImMaxBytes}
            v == Images!Victims(s, n)
            a == SubSeq(s, 1, v)
            b == SubSeq(s, v + 1, m)
<1>1. v \in S
  <2>1. v = CHOOSE x \in S : \A y \in S : x <= y
    BY DEF Images!Victims, Images!Min
  <2>2. m \in S /\ S \in SUBSET Nat
    OBVIOUS
  <2>3. \E x \in S : \A y \in S : x <= y
    <3>. HIDE DEF S
    <3>. QED
      BY <2>2, LeastNat
  <2>. HIDE DEF S, v
  <2>. QED
    BY <2>1, <2>3
<1>2. v \in 0..m /\ m \in Nat
  BY <1>1
<1>. HIDE DEF v
<1>3. a \in Seq(X) /\ b \in Seq(X) /\ Images!Bytes(a) + Images!Bytes(b) = Images!Bytes(s)
  BY <1>2, BytesOfParts
<1>4. Images!Bytes(a) \in Nat /\ Images!Bytes(b) \in Nat /\ Images!Bytes(s) \in Nat
  BY <1>3, SizesTotal
<1>5. Images!Kept(s, n) = b
  BY DEF Images!Kept, v
<1>6. Images!BytesKept(s, n) = Images!Bytes(b)
  <2>. DEFINE d == n - Images!Bytes(a)
  <2>1. Images!BytesKept(s, n) = CHOOSE x \in {0, d} : \A y \in {0, d} : x >= y
    BY DEF Images!BytesKept, Images!Max, v
  <2>2. d = Images!Bytes(b)
    BY <1>3, <1>4
  <2>. HIDE DEF d
  <2>3. d \in Nat
    BY <1>4, <2>2
  <2>4. d \in {0, d} /\ \A y \in {0, d} : d >= y
    BY <2>3
  <2>5. \A x \in {0, d} : (\A y \in {0, d} : x >= y) => x = d
    BY <2>3
  <2>. QED
    BY <2>1, <2>2, <2>4, <2>5
<1>7. Len(b) = m - v /\ DOMAIN b = 1..(m - v) /\ \A i \in 1..(m - v) : b[i] = s[v + i]
  BY <1>2
<1>8. Len(b) <= ImMaxEntries /\ Images!Bytes(b) <= ImMaxBytes
  <2>1. CASE v = m
    <3>1. b = << >> /\ Len(<< >>) = 0
      BY <1>2, <2>1
    <3>. HIDE DEF b
    <3>2. Images!Bytes(b) = 0
      BY <3>1, BytesOfNone
    <3>. QED
      BY <3>1, <3>2, ImagesAssumption
  <2>2. CASE v # m
    <3>1. m - v <= ImMaxEntries /\ n - Images!Bytes(a) <= ImMaxBytes
      BY <1>1, <2>2
    <3>. HIDE DEF a, b
    <3>2. n - Images!Bytes(a) = Images!Bytes(b)
      BY <1>3, <1>4
    <3>. QED
      BY <1>7, <3>1, <3>2
  <2>. QED
    BY <2>1, <2>2
<1>9. \A i \in 1..(m - v) : v + i \in 1..m
  BY <1>2
<1>10. \A i, j \in 1..(m - v) : v + i = v + j => i = j
  BY <1>2
<1>11. DOMAIN s = 1..m
  OBVIOUS
<1>. HIDE DEF b, m
<1>12. OneEach(b) /\ From(b, s)
  BY <1>7, <1>9, <1>10, <1>11 DEF OneEach, From
<1>. QED
  BY <1>3, <1>5, <1>6, <1>8, <1>12 DEF CacheOK

LEMMA MovedIsCache ==
    ASSUME NEW X, Sized(X), NEW s, NEW n, CacheOK(s, n, X), NEW k, Images!Hit(s, k)
    PROVE  CacheOK(Images!MoveToEnd(s, k), n, X) /\ From(Images!MoveToEnd(s, k), s)
<1>. DEFINE t == Images!Without(s, k)
            e == Images!Entry(s, k)
            r == Append(t, e)
<1>1. s \in Seq(X) /\ OneEach(s) /\ n = Images!Bytes(s) /\ Len(s) <= ImMaxEntries /\ n <= ImMaxBytes
  BY DEF CacheOK
<1>2. /\ t \in Seq(X) /\ OneEach(t) /\ ~Images!Hit(t, k) /\ From(t, s) /\ e \in X /\ e.key = k
      /\ \E j \in DOMAIN s : e = s[j]
      /\ Len(t) = Len(s) - 1 /\ Images!Bytes(t) + e.size = Images!Bytes(s)
  BY <1>1, WithoutIs
<1>3. Images!MoveToEnd(s, k) = r
  BY DEF Images!MoveToEnd
<1>. HIDE DEF t, e
<1>4. /\ r \in Seq(X) /\ OneEach(r) /\ Len(r) = Len(t) + 1
      /\ \A i \in DOMAIN r : r[i] = e \/ \E j \in DOMAIN t : r[i] = t[j]
  BY <1>2, AppendIsWell
<1>5. Images!Bytes(r) = Images!Bytes(t) + e.size
  BY <1>2, BytesOfAppend
<1>6. Len(r) = Len(s)
  BY <1>1, <1>2, <1>4
<1>. HIDE DEF r
<1>7. From(r, s)
  BY <1>2, <1>4 DEF From
<1>. QED
  BY <1>1, <1>2, <1>3, <1>4, <1>5, <1>6, <1>7 DEF CacheOK

-----------------------------------------------------------------------------
(* Pictures and their descriptions *)

Keys == ImPaths \X Nat
UriRec == [key : Keys, size : Nat]
DescRec == [key : Keys, size : Nat, of : Nat]

\* What a stored description is of.
Matches(e, quick) == e.of = e.key[2] \/ e.of = Images!Blind \/ e.key \in quick

\* A request shows the model the version it asks for, or nothing.
CallSound(c) ==
    c # Images!NoCall => c.path \in ImPaths /\ c.asked \in Nat /\ c.shown \in {c.asked, Images!Blind}

ImInv ==
    /\ imVersion \in [ImPaths -> Nat] /\ written \in [ImPaths -> Nat]
    /\ CacheOK(uris, uriBytes, UriRec) /\ CacheOK(descs, descBytes, DescRec)
    /\ call = [c \in ImCalls |-> call[c]] /\ \A c \in ImCalls : CallSound(call[c])
    /\ \A i \in DOMAIN descs : Matches(descs[i], hasty)

LEMMA RecsSized == Sized(UriRec) /\ Sized(DescRec)
BY DEF Sized, UriRec, DescRec

LEMMA EmptyCache == ASSUME NEW X, Sized(X) PROVE CacheOK(<< >>, 0, X)
<1>1. << >> \in Seq(X) /\ Len(<< >>) = 0 /\ DOMAIN << >> = {}
  OBVIOUS
<1>. QED
  BY <1>1, BytesOfNone, ImagesAssumption DEF CacheOK, OneEach

LEMMA ImBegins == RcInit => ImInv
<1>. SUFFICES ASSUME RcInit PROVE ImInv
  OBVIOUS
<1>1. /\ imVersion = [p \in ImPaths |-> 0] /\ written = imVersion /\ uris = << >> /\ uriBytes = 0
      /\ descs = << >> /\ descBytes = 0 /\ call = [c \in ImCalls |-> Images!NoCall]
  BY DEF RcInit, Images!ImInit
<1>2. CacheOK(uris, uriBytes, UriRec) /\ CacheOK(descs, descBytes, DescRec)
  BY <1>1, EmptyCache, RecsSized
<1>3. DOMAIN descs = {}
  BY <1>1
<1>. QED
  BY <1>1, <1>2, <1>3 DEF ImInv, CallSound

\* A picture is inlined, from the cache or into it.
LEMMA InlineKeeps ==
    ASSUME ImInv, NEW p \in ImPaths, Images!Inline(p) PROVE CacheOK(uris', uriBytes', UriRec)
<1>. DEFINE v == imVersion[p]
            k == <<p, v>>
            e == [key |-> k, size |-> IF ImWeight[v] = "oversized" THEN 2 ELSE 1]
            s == Append(uris, e)
            n == uriBytes + e.size
<1>0. CacheOK(uris, uriBytes, UriRec) /\ k \in Keys /\ e \in UriRec /\ e.key = k
  BY DEF ImInv, Keys, UriRec
<1>1. CASE uris' = uris /\ uriBytes' = uriBytes
  BY <1>0, <1>1
<1>2. CASE Images!Hit(uris, k) /\ uris' = Images!MoveToEnd(uris, k) /\ uriBytes' = uriBytes
  <2>. HIDE DEF k
  <2>. QED
    BY <1>0, <1>2, RecsSized, MovedIsCache
<1>3. CASE ~Images!Hit(uris, k) /\ uris' = Images!Kept(s, n) /\ uriBytes' = Images!BytesKept(s, n)
  <2>. HIDE DEF e, k
  <2>1. uris \in Seq(UriRec) /\ OneEach(uris) /\ uriBytes = Images!Bytes(uris)
    BY <1>0 DEF CacheOK
  <2>2. s \in Seq(UriRec) /\ OneEach(s)
    BY <1>0, <1>3, <2>1, AppendIsWell
  <2>3. n = Images!Bytes(s)
    BY <1>0, <2>1, RecsSized, BytesOfAppend
  <2>. HIDE DEF s, n
  <2>. QED
    BY <1>3, <2>2, <2>3, RecsSized, KeptIsCache
<1>4. Images!Last(s) = e
  <2>1. uris \in Seq(UriRec)
    BY <1>0 DEF CacheOK
  <2>. HIDE DEF e
  <2>. QED
    BY <1>0, <2>1 DEF Images!Last
<1>5. \/ uris' = uris /\ uriBytes' = uriBytes
      \/ Images!Hit(uris, k) /\ uris' = Images!MoveToEnd(uris, k) /\ uriBytes' = uriBytes
      \/ ~Images!Hit(uris, k) /\ uris' = Images!Kept(s, n) /\ uriBytes' = Images!BytesKept(s, n)
  BY <1>4 DEF Images!Inline
<1>. QED
  BY <1>1, <1>2, <1>3, <1>5

LEMMA PutKeeps ==
    ASSUME ImInv, NEW e \in DescRec, Images!Put(e.key, e)
    PROVE  /\ CacheOK(descs', descBytes', DescRec)
           /\ \A i \in DOMAIN descs' : descs'[i] = e \/ \E j \in DOMAIN descs : descs'[i] = descs[j]
<1>. DEFINE k == e.key
            t == Images!Without(descs, k)
            old == IF Images!Hit(descs, k) THEN Images!Entry(descs, k).size ELSE 0
            s == Append(t, e)
            n == descBytes - old + e.size
<1>1. descs \in Seq(DescRec) /\ OneEach(descs) /\ descBytes = Images!Bytes(descs)
  BY DEF ImInv, CacheOK
<1>2. descs' = Images!Kept(s, n) /\ descBytes' = Images!BytesKept(s, n)
  BY DEF Images!Put
<1>3. /\ t \in Seq(DescRec) /\ OneEach(t) /\ ~Images!Hit(t, k) /\ From(t, descs)
      /\ Images!Hit(descs, k) => /\ Images!Entry(descs, k) \in DescRec
                                 /\ Images!Bytes(t) + Images!Entry(descs, k).size = Images!Bytes(descs)
      /\ ~Images!Hit(descs, k) => t = descs
  BY <1>1, RecsSized, WithoutIs
<1>4. Images!Bytes(descs) \in Nat /\ Images!Bytes(t) \in Nat
  BY <1>1, <1>3, RecsSized, SizesTotal
<1>5. old \in Nat /\ Images!Bytes(t) + old = Images!Bytes(descs)
  <2>. HIDE DEF t
  <2>. QED
    BY <1>3, <1>4 DEF DescRec
<1>. HIDE DEF t, old
<1>6. /\ s \in Seq(DescRec) /\ OneEach(s)
      /\ \A i \in DOMAIN s : s[i] = e \/ \E j \in DOMAIN t : s[i] = t[j]
  BY <1>3, AppendIsWell
<1>7. Images!Bytes(s) = Images!Bytes(t) + e.size /\ e.size \in Nat
  BY <1>3, RecsSized, BytesOfAppend
<1>8. n = Images!Bytes(s)
  <2>. HIDE DEF s
  <2>. QED
    BY <1>1, <1>4, <1>5, <1>7
<1>. HIDE DEF s, n
<1>9. CacheOK(descs', descBytes', DescRec) /\ From(descs', s)
  BY <1>2, <1>6, <1>8, RecsSized, KeptIsCache
<1>. QED
  BY <1>3, <1>6, <1>9 DEF From

LEMMA ImDescribe ==
    ASSUME ImInv, NEW c \in ImCalls, NEW p \in ImPaths, Images!Describe(c, p) PROVE ImInv'
<1>. DEFINE k == <<p, imVersion[p]>>
<1>1. UNCHANGED <<imVersion, written, descBytes, hasty>> /\ Images!Ask(c, p)
  BY DEF Images!Describe
<1>2. CASE Images!Hit(descs, k)
  <2>1. descs' = Images!MoveToEnd(descs, k) /\ uris' = uris /\ uriBytes' = uriBytes /\ call' = call
    BY <1>1, <1>2 DEF Images!Ask
  <2>. HIDE DEF k
  <2>2. CacheOK(descs', descBytes, DescRec) /\ From(descs', descs)
    BY <1>2, <2>1, RecsSized, MovedIsCache DEF ImInv
  <2>3. \A i \in DOMAIN descs' : Matches(descs'[i], hasty)
    BY <2>2 DEF From, ImInv
  <2>. QED
    BY <1>1, <2>1, <2>2, <2>3 DEF ImInv
<1>3. CASE ~Images!Hit(descs, k)
  <2>. DEFINE w == [path |-> p, asked |-> imVersion[p],
                    shown |-> IF Images!Inlined(imVersion[p]) THEN imVersion[p] ELSE Images!Blind]
  <2>1. call' = [call EXCEPT ![c] = w] /\ Images!Inline(p) /\ descs' = descs
    BY <1>1, <1>3 DEF Images!Ask
  <2>2. CallSound(w)
    BY DEF ImInv, CallSound
  <2>. HIDE DEF w
  <2>3. call' = [x \in ImCalls |-> call'[x]] /\ \A x \in ImCalls : CallSound(call'[x])
    BY <2>1, <2>2 DEF ImInv
  <2>4. CacheOK(uris', uriBytes', UriRec)
    BY <2>1, InlineKeeps
  <2>. QED
    BY <1>1, <2>1, <2>3, <2>4 DEF ImInv
<1>. QED
  BY <1>2, <1>3

LEMMA CallEndsSound ==
    ASSUME ImInv, NEW c \in ImCalls, call' = [call EXCEPT ![c] = Images!NoCall]
    PROVE  call' = [x \in ImCalls |-> call'[x]] /\ \A x \in ImCalls : CallSound(call'[x])
BY DEF ImInv, CallSound

LEMMA ImDescribed == ASSUME ImInv, NEW c \in ImCalls, Images!Described(c) PROVE ImInv'
<1>. DEFINE p == call[c].path
            v == imVersion[p]
            k == <<p, v>>
            shown_ == call[c].shown
<1>1. /\ call[c] # Images!NoCall /\ call' = [call EXCEPT ![c] = Images!NoCall]
      /\ UNCHANGED <<imVersion, written, uris, uriBytes>>
      /\ hasty' = IF v # call[c].asked THEN hasty \cup {k} ELSE hasty
      /\ \/ UNCHANGED <<descs, descBytes>>
         \/ \E size \in 1..2 : Images!Put(k, [key |-> k, size |-> size, of |-> shown_])
  BY DEF Images!Described
<1>2. p \in ImPaths /\ v \in Nat /\ k \in Keys /\ call[c].asked \in Nat /\ shown_ \in {call[c].asked, Images!Blind}
      /\ shown_ \in Nat
  <2>1. CallSound(call[c]) /\ imVersion \in [ImPaths -> Nat]
    BY DEF ImInv
  <2>2. p \in ImPaths /\ call[c].asked \in Nat /\ shown_ \in {call[c].asked, Images!Blind}
    BY <1>1, <2>1 DEF CallSound
  <2>. QED
    BY <2>1, <2>2 DEF Keys, Images!Blind
<1>3. hasty \subseteq hasty' /\ (v # call[c].asked => k \in hasty')
  BY <1>1
<1>4. call' = [x \in ImCalls |-> call'[x]] /\ \A x \in ImCalls : CallSound(call'[x])
  BY <1>1, CallEndsSound
<1>5. \A i \in DOMAIN descs : Matches(descs[i], hasty')
  BY <1>3 DEF ImInv, Matches
<1>6. CASE UNCHANGED <<descs, descBytes>>
  BY <1>1, <1>4, <1>5, <1>6 DEF ImInv
<1>7. ASSUME NEW size \in 1..2, Images!Put(k, [key |-> k, size |-> size, of |-> shown_]) PROVE ImInv'
  <2>. DEFINE e == [key |-> k, size |-> size, of |-> shown_]
  <2>1. e \in DescRec /\ e.key = k /\ e.of = shown_
    BY <1>2 DEF DescRec
  <2>2. Matches(e, hasty')
    <3>1. k[2] = v
      OBVIOUS
    <3>. QED
      BY <1>2, <1>3, <2>1, <3>1 DEF Matches
  <2>. HIDE DEF e
  <2>3. Images!Put(e.key, e)
    BY <1>7, <2>1 DEF e
  <2>4. /\ CacheOK(descs', descBytes', DescRec)
        /\ \A i \in DOMAIN descs' : descs'[i] = e \/ \E j \in DOMAIN descs : descs'[i] = descs[j]
    BY <2>1, <2>3, PutKeeps
  <2>5. \A i \in DOMAIN descs' : Matches(descs'[i], hasty')
    BY <1>5, <2>2, <2>4
  <2>. QED
    BY <1>1, <1>4, <2>4, <2>5 DEF ImInv
<1>. QED
  BY <1>1, <1>6, <1>7

LEMMA ImInvariant == ImInv /\ [RcNext]_RcVars => ImInv'
<1>. SUFFICES ASSUME ImInv, Images!ImNext \/ UNCHANGED imAll PROVE ImInv'
  BY ImSteps
<1>1. CASE UNCHANGED imAll
  BY <1>1 DEF imAll, ImInv
<1>2. ASSUME NEW p \in ImPaths, Images!WriteImage(p) \/ Images!RemoveImage(p) PROVE ImInv'
  <2>1. UNCHANGED <<uris, uriBytes, descs, descBytes, call, hasty>>
    BY <1>2 DEF Images!WriteImage, Images!RemoveImage
  <2>2. imVersion' \in [ImPaths -> Nat] /\ written' \in [ImPaths -> Nat]
    BY <1>2 DEF Images!WriteImage, Images!RemoveImage, ImInv
  <2>. QED
    BY <2>1, <2>2 DEF ImInv
<1>3. ASSUME NEW p \in ImPaths, Images!ShowDirectly(p) PROVE ImInv'
  <2>1. UNCHANGED <<imVersion, written, descs, descBytes, call, hasty>> /\ Images!Inline(p)
    BY <1>3 DEF Images!ShowDirectly
  <2>. QED
    BY <2>1, InlineKeeps DEF ImInv
<1>4. CASE Images!Reconfigure
  <2>1. uris' = << >> /\ uriBytes' = 0 /\ UNCHANGED <<imVersion, written, descs, descBytes, call, hasty>>
    BY <1>4 DEF Images!Reconfigure
  <2>2. CacheOK(uris', uriBytes', UriRec)
    BY <2>1, EmptyCache, RecsSized
  <2>. QED
    BY <2>1, <2>2 DEF ImInv
<1>5. ASSUME NEW c \in ImCalls, Images!NotDescribed(c) PROVE ImInv'
  BY <1>5, CallEndsSound DEF Images!NotDescribed, ImInv
<1>. QED
  BY <1>1, <1>2, <1>3, <1>4, <1>5, ImDescribe, ImDescribed DEF Images!ImNext

\* Both caches of pictures stay within their limits, their counters are the
\* bytes of what is in them, and no description is kept for a version of a file
\* it was not given for, unless the file changed meanwhile: for any files,
\* requests, kinds of pictures and limits (image_cache.py:266-277,
\* image_description_cache.py:64-90, describe_image.py).
THEOREM ImagesStaySound == RcSpec => []ImagesSound
<1>1. ImInv => ImagesSound
  <2>. SUFFICES ASSUME ImInv PROVE ImagesSound
    OBVIOUS
  <2>1. Images!CachesAccounted
    BY DEF ImInv, CacheOK, OneEach, Images!CachesAccounted
  <2>2. Images!DescriptionsMatch
    BY DEF ImInv, Matches, Images!DescriptionsMatch
  <2>. QED
    BY <2>1, <2>2 DEF ImagesSound
<1>. QED
  BY ImBegins, ImInvariant, <1>1, PTL DEF RcSpec

-----------------------------------------------------------------------------
(* The times after a cutoff *)

\* What the cutoff leaves of each prefix of the list.
Filters(F, s, c) ==
    /\ F[0] = << >>
    /\ \A i \in 1..Len(s) : F[i] = IF s[i] > c THEN Append(F[i - 1], s[i]) ELSE F[i - 1]

Top(t) == CHOOSE x \in t : \A y \in t : x >= y

LEMMA TopOfRange == ASSUME NEW n \in Nat \ {0} PROVE Top(1..n) = n /\ (1..n) \ {n} = 1..(n - 1)
<1>1. n \in 1..n /\ \A y \in 1..n : n >= y
  OBVIOUS
<1>2. \A x \in 1..n : (\A y \in 1..n : x >= y) => x = n
  BY <1>1
<1>3. Top(1..n) \in 1..n /\ \A y \in 1..n : Top(1..n) >= y
  BY <1>1 DEF Top
<1>. QED
  BY <1>2, <1>3

LEMMA AfterExists ==
    ASSUME NEW s \in Seq(Nat), NEW c \in Int
    PROVE  \E F \in [0..Len(s) -> Seq(Nat)] : Filters(F, s, c) /\ After(s, c) = F[Len(s)]
<1>. DEFINE D == DOMAIN s
            V == Seq(Nat)
            ch == [t \in SUBSET D |-> Top(t)]
            st == [i \in D |-> [v \in V |-> IF s[i] > c THEN Append(v, s[i]) ELSE v]]
            H == CHOOSE iter : iter = [t \in SUBSET D |-> IF t = {} THEN << >>
                                          ELSE IF s[Top(t)] > c THEN Append(iter[t \ {Top(t)}], s[Top(t)])
                                               ELSE iter[t \ {Top(t)}]]
<1>1. After(s, c) = H[D]
  BY DEF After, FoldLeft, MapThenFoldSet, Max, Top
<1>2. D = 1..Len(s) /\ Len(s) \in Nat /\ IsFiniteSet(D)
  BY FS_Interval
<1>3. \A t \in SUBSET D : ch[t] = Top(t) /\ (t # {} => Top(t) \in t)
  <2>1. ASSUME NEW t \in SUBSET D, t # {} PROVE Top(t) \in t
    <3>1. t \in SUBSET (1..Len(s))
      BY <1>2
    <3>2. \E x \in t : \A y \in t : x >= y
      BY <1>2, <2>1, <3>1, GreatestNat
    <3>. QED
      BY <3>2 DEF Top
  <2>. QED
    BY <2>1
<1>4. \A i \in D, v \in V : st[i][v] = (IF s[i] > c THEN Append(v, s[i]) ELSE v) /\ st[i][v] \in V
  <2>1. \A i \in D : s[i] \in Nat
    OBVIOUS
  <2>. QED
    BY <2>1
<1>5. CanFold(D, V, << >>, st, ch)
  <2>1. << >> \in V
    OBVIOUS
  <2>2. \A t \in SUBSET D : t # {} => ch[t] \in t
    BY <1>3
  <2>3. \A i \in D, v \in V : st[i][v] \in V
    BY <1>4
  <2>. HIDE DEF D, V, ch, st
  <2>. QED
    BY <1>2, <2>1, <2>2, <2>3 DEF CanFold
<1>. HIDE DEF ch, st, D, V
<1>6. PICK G \in [SUBSET D -> V] : Folds_(G, D, << >>, st, ch)
  BY <1>5, FoldExists
<1>7. \A t \in SUBSET D : G[t] = IF t = {} THEN << >>
                                  ELSE IF s[Top(t)] > c THEN Append(G[t \ {Top(t)}], s[Top(t)])
                                       ELSE G[t \ {Top(t)}]
  <2>. TAKE t \in SUBSET D
  <2>1. G[t] = IF t = {} THEN << >> ELSE st[ch[t]][G[t \ {ch[t]}]]
    BY <1>6 DEF Folds_
  <2>2. G[t \ {Top(t)}] \in V
    BY <1>6
  <2>3. t # {} => Top(t) \in D
    BY <1>3
  <2>. DEFINE i == Top(t)
              v == G[t \ {i}]
  <2>4. t # {} => /\ ch[t] = i /\ i \in D /\ v \in V
                  /\ st[i][v] = IF s[i] > c THEN Append(v, s[i]) ELSE v
    BY <1>3, <1>4, <2>2, <2>3
  <2>. QED
    BY <2>1, <2>4
<1>8. H = [t \in SUBSET D |-> IF t = {} THEN << >>
                                  ELSE IF s[Top(t)] > c THEN Append(H[t \ {Top(t)}], s[Top(t)])
                                       ELSE H[t \ {Top(t)}]]
  <2>1. G = [t \in SUBSET D |-> IF t = {} THEN << >>
                                  ELSE IF s[Top(t)] > c THEN Append(G[t \ {Top(t)}], s[Top(t)])
                                       ELSE G[t \ {Top(t)}]]
    BY <1>6, <1>7
  <2>. QED
    BY <2>1
<1>. HIDE DEF H
<1>9. G[D] = H[D]
  <2>1. \A t \in SUBSET D : H[t] = IF t = {} THEN << >>
                                  ELSE IF s[Top(t)] > c THEN Append(H[t \ {Top(t)}], s[Top(t)])
                                       ELSE H[t \ {Top(t)}]
    BY <1>8
  <2>2. G[{}] = H[{}] /\ IsFiniteSet(D)
    BY <1>2, <1>7, <2>1
  <2>3. \A t \in SUBSET D : t # {} => ch[t] \in t
    BY <1>3
  <2>4. ASSUME NEW t \in SUBSET D, t # {}, G[t \ {ch[t]}] = H[t \ {ch[t]}] PROVE G[t] = H[t]
    <3>1. ch[t] = Top(t) /\ G[t \ {Top(t)}] = H[t \ {Top(t)}]
      BY <1>3, <2>4
    <3>2. G[t] = IF s[Top(t)] > c THEN Append(G[t \ {Top(t)}], s[Top(t)]) ELSE G[t \ {Top(t)}]
      BY <1>7, <2>4
    <3>3. H[t] = IF s[Top(t)] > c THEN Append(H[t \ {Top(t)}], s[Top(t)]) ELSE H[t \ {Top(t)}]
      BY <2>1, <2>4
    <3>. QED
      BY <3>1, <3>2, <3>3
  <2>5. \A t \in SUBSET D : t # {} /\ G[t \ {ch[t]}] = H[t \ {ch[t]}] => G[t] = H[t]
    BY <2>4
  <2>6. Alike(D, ch, G, H)
    BY <2>2, <2>3, <2>5 DEF Alike
  <2>. QED
    BY <2>6, AlikeIsOne
<1>. DEFINE F == [i \in 0..Len(s) |-> G[1..i]]
<1>10. \A i \in 0..Len(s) : 1..i \in SUBSET D /\ F[i] = G[1..i] /\ F[i] \in V
  BY <1>2, <1>6
<1>11. Filters(F, s, c)
  <2>1. F[0] = << >>
    <3>1. 1..0 = {} /\ 0 \in 0..Len(s) /\ {} \in SUBSET D
      BY <1>2
    <3>. HIDE DEF F
    <3>. QED
      BY <1>7, <1>10, <3>1
  <2>2. ASSUME NEW i \in 1..Len(s) PROVE F[i] = IF s[i] > c THEN Append(F[i - 1], s[i]) ELSE F[i - 1]
    <3>1. Top(1..i) = i /\ (1..i) \ {i} = 1..(i - 1) /\ 1..i # {} /\ i \in Nat
      BY TopOfRange
    <3>2. i - 1 \in 0..Len(s) /\ i \in 0..Len(s)
      OBVIOUS
    <3>. HIDE DEF F
    <3>3. 1..i \in SUBSET D /\ F[i] = G[1..i] /\ F[i - 1] = G[1..(i - 1)]
      BY <1>10, <3>2
    <3>. QED
      BY <1>7, <3>1, <3>3
  <2>. HIDE DEF F
  <2>. QED
    BY <2>1, <2>2 DEF Filters
<1>12. F \in [0..Len(s) -> Seq(Nat)] /\ F[Len(s)] = G[D]
  BY <1>2, <1>10 DEF V
<1>. HIDE DEF F
<1>. QED
  BY <1>1, <1>9, <1>11, <1>12

LEMMA AfterEmpty == ASSUME NEW c \in Int PROVE After(<< >>, c) = << >>
<1>1. << >> \in Seq(Nat) /\ Len(<< >>) = 0
  OBVIOUS
<1>2. PICK F \in [0..0 -> Seq(Nat)] : Filters(F, << >>, c) /\ After(<< >>, c) = F[0]
  <2>. DEFINE e == << >>
  <2>1. e \in Seq(Nat) /\ Len(e) = 0
    BY <1>1
  <2>. HIDE DEF e
  <2>2. \E F \in [0..Len(e) -> Seq(Nat)] : Filters(F, e, c) /\ After(e, c) = F[Len(e)]
    BY <2>1, AfterExists
  <2>. QED
    BY <2>1, <2>2 DEF e
<1>. QED
  BY <1>2 DEF Filters

LEMMA AfterAppend ==
    ASSUME NEW s \in Seq(Nat), NEW x \in Nat, NEW c \in Int
    PROVE  /\ After(s, c) \in Seq(Nat) /\ After(Append(s, x), c) \in Seq(Nat)
           /\ After(Append(s, x), c) = IF x > c THEN Append(After(s, c), x) ELSE After(s, c)
<1>. DEFINE n == Len(s)
            t == Append(s, x)
<1>1. n \in Nat /\ t \in Seq(Nat) /\ Len(t) = n + 1 /\ t[n + 1] = x /\ \A i \in 1..n : t[i] = s[i]
  OBVIOUS
<1>. HIDE DEF t
<1>2. PICK F \in [0..n -> Seq(Nat)] : Filters(F, s, c) /\ After(s, c) = F[n]
  BY AfterExists
<1>3. PICK G \in [0..(n + 1) -> Seq(Nat)] : Filters(G, t, c) /\ After(t, c) = G[n + 1]
  BY <1>1, AfterExists
<1>. DEFINE Good == {i \in Nat : i \in 0..n => F[i] = G[i]}
<1>4. 0 \in Good
  BY <1>2, <1>3 DEF Filters
<1>5. ASSUME NEW i \in Nat, i \in Good PROVE i + 1 \in Good
  <2>. SUFFICES ASSUME i + 1 \in 0..n PROVE F[i + 1] = G[i + 1]
    OBVIOUS
  <2>1. i + 1 \in 1..n /\ i + 1 \in 1..(n + 1) /\ (i + 1) - 1 = i /\ i \in 0..n
    BY <1>1
  <2>2. F[i + 1] = IF s[i + 1] > c THEN Append(F[(i + 1) - 1], s[i + 1]) ELSE F[(i + 1) - 1]
    BY <1>2, <2>1 DEF Filters
  <2>3. G[i + 1] = IF t[i + 1] > c THEN Append(G[(i + 1) - 1], t[i + 1]) ELSE G[(i + 1) - 1]
    BY <1>1, <1>3, <2>1 DEF Filters
  <2>4. t[i + 1] = s[i + 1] /\ F[i] = G[i]
    BY <1>1, <1>5, <2>1
  <2>. QED
    BY <2>1, <2>2, <2>3, <2>4
<1>6. F[n] = G[n]
  <2>. HIDE DEF Good, n
  <2>1. Nat \subseteq Good
    BY <1>4, <1>5, NumbersFrom0
  <2>2. n \in Good
    BY <1>1, <2>1
  <2>. QED
    BY <1>1, <2>2 DEF Good
<1>7. G[n + 1] = IF t[n + 1] > c THEN Append(G[n], t[n + 1]) ELSE G[n]
  <2>1. n + 1 \in 1..(n + 1) /\ (n + 1) - 1 = n
    BY <1>1
  <2>. HIDE DEF n
  <2>2. G[n + 1] = IF t[n + 1] > c THEN Append(G[(n + 1) - 1], t[n + 1]) ELSE G[(n + 1) - 1]
    BY <1>1, <1>3, <2>1 DEF Filters
  <2>. QED
    BY <2>1, <2>2
<1>8. G[n + 1] \in Seq(Nat) /\ F[n] \in Seq(Nat)
  <2>1. n + 1 \in 0..(n + 1) /\ n \in 0..n
    BY <1>1
  <2>. HIDE DEF n
  <2>. QED
    BY <1>2, <1>3, <2>1
<1>. HIDE DEF n
<1>. QED
  BY <1>1, <1>2, <1>3, <1>6, <1>7, <1>8 DEF t

LEMMA AfterTyped == ASSUME NEW s \in Seq(Nat), NEW c \in Int PROVE After(s, c) \in Seq(Nat)
BY AfterAppend

\* Pruning does not lengthen a list, and a later pruning makes up for one left out.
LEMMA AfterPrunes ==
    ASSUME NEW s \in Seq(Nat), NEW c \in Int, NEW d \in Int, c <= d
    PROVE  Len(After(s, c)) <= Len(s) /\ After(After(s, c), d) = After(s, d)
<1>. DEFINE Good == {q \in Seq(Nat) : Len(After(q, c)) <= Len(q) /\ After(After(q, c), d) = After(q, d)}
<1>1. << >> \in Good
  <2>1. After(<< >>, c) = << >> /\ After(<< >>, d) = << >> /\ Len(<< >>) = 0 /\ << >> \in Seq(Nat)
    BY AfterEmpty
  <2>. QED
    BY <2>1
<1>2. ASSUME NEW q \in Seq(Nat), NEW x \in Nat, q \in Good PROVE Append(q, x) \in Good
  <2>. DEFINE r == Append(q, x)
              a == After(q, c)
  <2>1. /\ a \in Seq(Nat) /\ r \in Seq(Nat) /\ Len(r) = Len(q) + 1 /\ Len(q) \in Nat
        /\ After(r, c) = IF x > c THEN Append(a, x) ELSE a
    BY AfterAppend
  <2>2. After(r, d) = IF x > d THEN Append(After(q, d), x) ELSE After(q, d)
    BY AfterAppend
  <2>3. Len(a) <= Len(q) /\ Len(a) \in Nat /\ After(a, d) = After(q, d) /\ Len(Append(a, x)) = Len(a) + 1
    BY <1>2, <2>1
  <2>4. After(Append(a, x), d) = IF x > d THEN Append(After(a, d), x) ELSE After(a, d)
    BY <2>1, AfterAppend
  <2>. HIDE DEF r, a
  <2>5. Len(After(r, c)) <= Len(r)
    BY <2>1, <2>3
  <2>6. After(After(r, c), d) = After(r, d)
    <3>1. CASE x > c
      BY <2>1, <2>2, <2>3, <2>4, <3>1
    <3>2. CASE ~(x > c)
      <4>1. ~(x > d)
        BY <3>2
      <4>. QED
        BY <2>1, <2>2, <2>3, <3>2, <4>1
    <3>. QED
      BY <3>1, <3>2
  <2>. QED
    BY <2>1, <2>5, <2>6 DEF r, a
<1>. HIDE DEF Good
<1>3. Seq(Nat) \subseteq Good
  BY <1>1, <1>2, SeqsByAppend
<1>4. s \in Good
  BY <1>3
<1>. QED
  BY <1>4 DEF Good

-----------------------------------------------------------------------------
(* The admin panel *)

Past == Nat \cup {Never}

\* The expiry of a session is that of its last hit.
SessionsInv ==
    /\ clock \in Nat
    /\ expires \in [ApSids -> Past] /\ lastUse \in [ApSids -> Past]
    /\ \A s \in ApSids : expires[s] # Never => lastUse[s] \in Nat /\ expires[s] = lastUse[s] + ApIdle
    /\ ~misserved

\* What the limiter keeps of the failures of an address counts like all of them
\* would, from now on.
LimiterInv ==
    /\ clock \in Nat
    /\ failures \in [ApIps -> Seq(Nat)] /\ wrong \in [ApIps -> Seq(Nat)]
    /\ \A i \in ApIps : Len(failures[i]) <= ApMaxFailures
    /\ \A i \in ApIps : \A c \in Int : c >= clock - ApWindow => After(wrong[i], c) = After(failures[i], c)

\* A measurement is cached under the moment it was begun.
DiskInv ==
    /\ clock \in Nat /\ cached.at \in Int
    /\ doing = [r \in ApRequests |-> doing[r]] /\ \A r \in ApRequests : doing[r].since \in Nat
    /\ cached.measured = Never \/ cached.at = cached.measured
    /\ ~outdated

ApInv == SessionsInv /\ LimiterInv /\ DiskInv

LEMMA ApBegins == RcInit => ApInv
<1>. SUFFICES ASSUME RcInit PROVE ApInv
  OBVIOUS
<1>1. ApInit
  BY DEF RcInit
<1>2. SessionsInv
  BY <1>1 DEF ApInit, SessionsInv, Past, Never
<1>4. DiskInv
  <2>1. clock = 0 /\ cached = [measured |-> Never, at |-> Never] /\ ~outdated
        /\ doing = [r \in ApRequests |-> Idle]
    BY <1>1 DEF ApInit
  <2>2. doing = [r \in ApRequests |-> doing[r]] /\ \A r \in ApRequests : doing[r].since \in Nat
    BY <2>1 DEF Idle
  <2>3. cached.measured = Never /\ cached.at \in Int /\ clock \in Nat
    BY <2>1 DEF Never
  <2>. QED
    BY <2>1, <2>2, <2>3 DEF DiskInv
<1>3. LimiterInv
  <2>1. clock \in Nat /\ failures = [i \in ApIps |-> << >>] /\ wrong = [i \in ApIps |-> << >>]
    BY <1>1 DEF ApInit
  <2>2. Len(<< >>) <= ApMaxFailures /\ << >> \in Seq(Nat)
    BY ApAssumption
  <2>. QED
    BY <2>1, <2>2 DEF LimiterInv
<1>. QED
  BY <1>2, <1>3, <1>4 DEF ApInv

\* The sessions

SessionsKept == UNCHANGED <<expires, lastUse, misserved>>

LEMMA SessionsStay == SessionsInv /\ SessionsKept /\ (clock' = clock \/ clock' = clock + 1) => SessionsInv'
BY DEF SessionsInv, SessionsKept

LEMMA NotedIsHonest ==
    ASSUME SessionsInv, NEW s \in ApSids, Holds(s), Noted(s) PROVE ~misserved'
<1>1. expires[s] \in Past /\ expires[s] > clock /\ clock \in Nat /\ ~misserved
  BY DEF SessionsInv, Holds
<1>2. expires[s] # Never
  BY <1>1 DEF Past, Never
<1>3. lastUse[s] \in Nat /\ expires[s] = lastUse[s] + ApIdle
  BY <1>2 DEF SessionsInv
<1>4. lastUse[s] # Never /\ ~(clock - lastUse[s] >= ApIdle)
  BY <1>1, <1>3, ApAssumption DEF Never
<1>. QED
  BY <1>1, <1>4 DEF Noted

LEMMA SessionUsed ==
    ASSUME SessionsInv, NEW s \in ApSids, Holds(s), expires' = Hit(s), Served(s), clock' = clock
    PROVE  SessionsInv'
<1>1. ~misserved'
  BY NotedIsHonest DEF Served
<1>2. lastUse' = [lastUse EXCEPT ![s] = clock]
  BY DEF Served
<1>3. expires' = [expires EXCEPT ![s] = clock + ApIdle]
  BY CookieAssumption DEF Hit
<1>4. clock + ApIdle \in Past /\ clock \in Past /\ clock \in Nat
  BY ApAssumption DEF SessionsInv, Past
<1>. QED
  BY <1>1, <1>2, <1>3, <1>4 DEF SessionsInv

LEMMA SessionEnds ==
    ASSUME SessionsInv, NEW s \in ApSids, clock' = clock, ~misserved',
           expires' = [expires EXCEPT ![s] = Never],
           lastUse' = lastUse \/ lastUse' = [lastUse EXCEPT ![s] = Never]
    PROVE  SessionsInv'
<1>1. Never \in Past
  BY DEF Past
<1>2. expires' \in [ApSids -> Past] /\ lastUse' \in [ApSids -> Past]
  BY <1>1 DEF SessionsInv
<1>3. ASSUME NEW x \in ApSids, expires'[x] # Never
      PROVE  lastUse'[x] \in Nat /\ expires'[x] = lastUse'[x] + ApIdle
  <2>1. x # s
    BY <1>3 DEF SessionsInv
  <2>2. expires'[x] = expires[x] /\ lastUse'[x] = lastUse[x]
    BY <2>1 DEF SessionsInv
  <2>. QED
    BY <1>3, <2>2 DEF SessionsInv
<1>. QED
  BY <1>2, <1>3 DEF SessionsInv

LEMMA SessionBegins ==
    ASSUME SessionsInv, NEW s \in ApSids, UNCHANGED <<clock, misserved>>,
           expires' = [expires EXCEPT ![s] = clock + ApIdle], lastUse' = [lastUse EXCEPT ![s] = clock]
    PROVE  SessionsInv'
<1>1. clock + ApIdle \in Past /\ clock \in Past /\ clock \in Nat
  BY ApAssumption DEF SessionsInv, Past
<1>. QED
  BY <1>1 DEF SessionsInv

LEMMA PassKeeps ==
    ASSUME SessionsInv, NEW s \in ApSids, PassMiddleware(s) PROVE SessionsInv'
<1>1. clock' = clock /\ expires' = Hit(s)
  BY DEF PassMiddleware
<1>2. CASE Holds(s)
  BY <1>1, <1>2, SessionUsed DEF PassMiddleware
<1>3. CASE ~Holds(s)
  <2>1. expires' = [expires EXCEPT ![s] = Never]
    BY <1>1, <1>3, CookieAssumption DEF Hit
  <2>2. misserved' = misserved /\ lastUse' = lastUse
    BY <1>3 DEF PassMiddleware
  <2>. QED
    BY <1>1, <2>1, <2>2, SessionEnds DEF SessionsInv
<1>. QED
  BY <1>2, <1>3

LEMMA PurgeKeeps == SessionsInv /\ PurgeExpired => SessionsInv'
<1>. SUFFICES ASSUME SessionsInv, PurgeExpired PROVE SessionsInv'
  OBVIOUS
<1>1. /\ expires' = [s \in ApSids |-> IF Holds(s) THEN expires[s] ELSE Never]
      /\ UNCHANGED <<clock, lastUse, misserved>>
  BY DEF PurgeExpired
<1>2. expires' \in [ApSids -> Past]
  BY <1>1 DEF SessionsInv, Past
<1>3. \A s \in ApSids : expires'[s] # Never => expires'[s] = expires[s]
  BY <1>1
<1>. QED
  BY <1>1, <1>2, <1>3 DEF SessionsInv

\* The sessions, through all actions.
LEMMA SessionsInvariant == SessionsInv /\ (ApNext \/ UNCHANGED apVars) => SessionsInv'
<1>. SUFFICES ASSUME SessionsInv, ApNext \/ UNCHANGED apVars PROVE SessionsInv'
  OBVIOUS
<1>1. ASSUME NEW r \in ApRequests, NEW s \in ApSids, NEW what, Begin(r, s, what), clock' = clock
      PROVE  SessionsInv'
  BY <1>1, SessionUsed DEF Begin
<1>2. ASSUME NEW s \in ApSids, Logout(s) PROVE SessionsInv'
  <2>1. /\ Holds(s) /\ Noted(s) /\ clock' = clock
        /\ expires' = [expires EXCEPT ![s] = Never] /\ lastUse' = [lastUse EXCEPT ![s] = Never]
    BY <1>2 DEF Logout
  <2>. QED
    BY <2>1, NotedIsHonest, SessionEnds
<1>3. ASSUME NEW s \in ApSids, NEW i \in ApIps, LoginSuccess(i, s) PROVE SessionsInv'
  BY <1>3, SessionBegins DEF LoginSuccess
<1>4. ASSUME NEW s \in ApSids, NEW ck \in AnyCookie, NEW h \in AnyCookie, CsrfRefused(s, ck, h)
      PROVE  SessionsInv'
  BY <1>4, PassKeeps DEF CsrfRefused
<1>5. CASE UNCHANGED apVars
  BY <1>5, SessionsStay DEF apVars, SessionsKept
<1>6. CASE Tick \/ ServiceFlips
  BY <1>6, SessionsStay DEF Tick, ServiceFlips, SessionsKept
<1>7. ASSUME NEW i \in ApIps, LoginBlocked(i) \/ LoginFailed(i) PROVE SessionsInv'
  BY <1>7, SessionsStay DEF LoginBlocked, LoginFailed, SessionsKept
<1>8. ASSUME NEW r \in ApRequests,
             \/ \E rc \in {0, 1} : RestartReturned(r, rc)
             \/ RestartPolled(r) \/ ReloadReturned(r) \/ ReadReturned(r)
             \/ AnswerCached(r) \/ StartScan(r) \/ EndScan(r)
      PROVE  SessionsInv'
  BY <1>8, SessionsStay DEF RestartReturned, RestartPolled, ReloadReturned, ReadReturned,
     AnswerCached, StartScan, EndScan, SessionsKept
<1>9. ASSUME NEW r \in ApRequests, NEW s \in ApSids,
             \/ ApiDisk(r, s) \/ ApiRead(r, s)
             \/ \E ck, h \in AnyCookie : ApiRestart(r, s, ck, h) \/ ApiReload(r, s, ck, h)
      PROVE  SessionsInv'
  BY <1>1, <1>9 DEF ApiDisk, ApiRead, ApiRestart, ApiReload
<1>. QED
  BY <1>2, <1>3, <1>4, <1>5, <1>6, <1>7, <1>8, <1>9, PassKeeps, PurgeKeeps DEF ApNext

\* The limiter

LEMMA LimiterStays ==
    ASSUME LimiterInv, UNCHANGED <<failures, wrong>>, clock' = clock \/ clock' = clock + 1
    PROVE  LimiterInv'
<1>1. clock' \in Nat /\ clock \in Nat /\ clock <= clock' /\ ApWindow \in Nat
  BY ApAssumption DEF LimiterInv
<1>2. failures' = failures /\ wrong' = wrong
  OBVIOUS
<1>3. \A c \in Int : c >= clock' - ApWindow => c >= clock - ApWindow
  <2>1. ASSUME NEW m \in Nat, NEW n \in Nat, NEW w \in Nat, m <= n, NEW c \in Int, c >= n - w
        PROVE  c >= m - w
    BY <2>1
  <2>. QED
    BY <1>1, <2>1
<1>. QED
  BY <1>1, <1>2, <1>3 DEF LimiterInv

\* An address is asked about, and its list pruned.
LEMMA LimiterPrunes ==
    ASSUME LimiterInv, NEW i \in ApIps, failures' = [failures EXCEPT ![i] = Pruned(i)],
           UNCHANGED <<clock, wrong>>
    PROVE  LimiterInv'
<1>. DEFINE d == clock - ApWindow
            p == Pruned(i)
<1>1. failures[i] \in Seq(Nat) /\ d \in Int
  BY ApAssumption DEF LimiterInv
<1>2. p \in Seq(Nat) /\ p = After(failures[i], d)
  BY <1>1, AfterTyped DEF Pruned
<1>3. Len(p) <= Len(failures[i]) /\ \A c \in Int : c >= d => After(p, c) = After(failures[i], c)
  <2>. HIDE DEF p, d
  <2>1. ASSUME NEW c \in Int, c >= d
        PROVE  Len(p) <= Len(failures[i]) /\ After(p, c) = After(failures[i], c)
    <3>1. d <= c
      BY <1>1, <2>1
    <3>. QED
      BY <1>1, <1>2, <3>1, AfterPrunes
  <2>2. d >= d
    BY <1>1
  <2>. QED
    BY <1>1, <2>1, <2>2
<1>4. Len(p) <= ApMaxFailures
  BY <1>1, <1>2, <1>3, ApAssumption DEF LimiterInv
<1>. HIDE DEF p
<1>5. failures' \in [ApIps -> Seq(Nat)] /\ \A x \in ApIps : failures'[x] = IF x = i THEN p ELSE failures[x]
  <2>1. failures' = [failures EXCEPT ![i] = p] /\ failures \in [ApIps -> Seq(Nat)]
    BY DEF LimiterInv, p
  <2>. QED
    BY <1>2, <2>1
<1>6. \A x \in ApIps : Len(failures'[x]) <= ApMaxFailures
  BY <1>4, <1>5 DEF LimiterInv
<1>7. \A x \in ApIps : \A c \in Int : c >= clock' - ApWindow => After(wrong'[x], c) = After(failures'[x], c)
  BY <1>3, <1>5 DEF LimiterInv
<1>. QED
  BY <1>5, <1>6, <1>7 DEF LimiterInv

LEMMA LimiterRecords == ASSUME LimiterInv, NEW i \in ApIps, LoginFailed(i) PROVE LimiterInv'
<1>. DEFINE d == clock - ApWindow
            p == Pruned(i)
            q == Recent(i)
<1>1. failures[i] \in Seq(Nat) /\ wrong[i] \in Seq(Nat) /\ d \in Int /\ clock \in Nat
  BY ApAssumption DEF LimiterInv
<1>2. p \in Seq(Nat) /\ p = After(failures[i], d) /\ q \in Seq(Nat) /\ q = After(wrong[i], d)
  BY <1>1, AfterTyped DEF Pruned, Recent
<1>3. /\ failures' = [failures EXCEPT ![i] = Append(p, clock)] /\ clock' = clock
      /\ wrong' = [wrong EXCEPT ![i] = Append(q, clock)] /\ ~(Len(p) >= ApMaxFailures)
  BY DEF LoginFailed, RecordFailure, IsRateLimited
<1>4. ASSUME NEW c \in Int, c >= d PROVE After(Append(q, clock), c) = After(Append(p, clock), c)
  <2>1. After(q, c) = After(wrong[i], c) /\ After(p, c) = After(failures[i], c)
    <3>1. /\ failures[i] \in Seq(Nat) /\ wrong[i] \in Seq(Nat) /\ d \in Int /\ c \in Int /\ c >= d
          /\ p = After(failures[i], d) /\ q = After(wrong[i], d)
      BY <1>1, <1>2, <1>4
    <3>. HIDE DEF p, q, d
    <3>2. After(After(wrong[i], d), c) = After(wrong[i], c)
      BY <3>1, AfterPrunes
    <3>3. After(After(failures[i], d), c) = After(failures[i], c)
      BY <3>1, AfterPrunes
    <3>. QED
      BY <3>1, <3>2, <3>3
  <2>2. After(wrong[i], c) = After(failures[i], c)
    BY <1>4 DEF LimiterInv
  <2>. HIDE DEF p, q
  <2>3. /\ After(Append(q, clock), c) = IF clock > c THEN Append(After(q, c), clock) ELSE After(q, c)
        /\ After(Append(p, clock), c) = IF clock > c THEN Append(After(p, c), clock) ELSE After(p, c)
    BY <1>1, <1>2, AfterAppend
  <2>. QED
    BY <2>1, <2>2, <2>3
<1>5. /\ Append(p, clock) \in Seq(Nat) /\ Append(q, clock) \in Seq(Nat)
      /\ Len(Append(p, clock)) <= ApMaxFailures
  BY <1>1, <1>2, <1>3, ApAssumption
<1>. DEFINE pp == Append(p, clock)
            qq == Append(q, clock)
<1>. HIDE DEF pp, qq
<1>6. /\ failures' \in [ApIps -> Seq(Nat)] /\ wrong' \in [ApIps -> Seq(Nat)]
      /\ \A x \in ApIps : failures'[x] = IF x = i THEN pp ELSE failures[x]
      /\ \A x \in ApIps : wrong'[x] = IF x = i THEN qq ELSE wrong[x]
  BY <1>3, <1>5 DEF LimiterInv, pp, qq
<1>7. \A x \in ApIps : Len(failures'[x]) <= ApMaxFailures
  BY <1>5, <1>6 DEF LimiterInv, pp
<1>8. \A x \in ApIps : \A c \in Int : c >= clock' - ApWindow => After(wrong'[x], c) = After(failures'[x], c)
  <2>. TAKE x \in ApIps
  <2>. TAKE c \in Int
  <2>. HAVE c >= clock' - ApWindow
  <2>1. c >= d
    BY <1>3
  <2>2. After(qq, c) = After(pp, c)
    BY <1>4, <2>1 DEF pp, qq
  <2>3. After(wrong[x], c) = After(failures[x], c)
    BY <2>1 DEF LimiterInv
  <2>. QED
    BY <1>6, <2>2, <2>3
<1>. QED
  BY <1>1, <1>3, <1>6, <1>7, <1>8 DEF LimiterInv

LEMMA LimiterInvariant == LimiterInv /\ (ApNext \/ UNCHANGED apVars) => LimiterInv'
<1>. SUFFICES ASSUME LimiterInv, ApNext \/ UNCHANGED apVars PROVE LimiterInv'
  OBVIOUS
<1>1. CASE UNCHANGED apVars
  BY <1>1, LimiterStays DEF apVars, apLogin
<1>2. CASE Tick \/ ServiceFlips \/ PurgeExpired
  BY <1>2, LimiterStays DEF Tick, ServiceFlips, PurgeExpired, apLogin
<1>3. ASSUME NEW i \in ApIps, LoginBlocked(i) PROVE LimiterInv'
  BY <1>3, LimiterPrunes DEF LoginBlocked
<1>4. ASSUME NEW i \in ApIps, NEW s \in ApSids, LoginSuccess(i, s) PROVE LimiterInv'
  BY <1>4, LimiterPrunes DEF LoginSuccess
<1>5. ASSUME NEW s \in ApSids,
             \/ PassMiddleware(s) \/ Logout(s)
             \/ \E ck, h \in AnyCookie : CsrfRefused(s, ck, h)
      PROVE  LimiterInv'
  BY <1>5, LimiterStays DEF PassMiddleware, Logout, CsrfRefused, apLogin
<1>6. ASSUME NEW r \in ApRequests,
             \/ \E rc \in {0, 1} : RestartReturned(r, rc)
             \/ RestartPolled(r) \/ ReloadReturned(r) \/ ReadReturned(r)
             \/ AnswerCached(r) \/ StartScan(r) \/ EndScan(r)
      PROVE  LimiterInv'
  BY <1>6, LimiterStays DEF RestartReturned, RestartPolled, ReloadReturned, ReadReturned,
     AnswerCached, StartScan, EndScan, apLogin
<1>7. ASSUME NEW r \in ApRequests, NEW s \in ApSids,
             \/ ApiDisk(r, s) \/ ApiRead(r, s)
             \/ \E ck, h \in AnyCookie : ApiRestart(r, s, ck, h) \/ ApiReload(r, s, ck, h)
      PROVE  LimiterInv'
  BY <1>7, LimiterStays DEF ApiDisk, ApiRead, ApiRestart, ApiReload, apLogin
<1>. QED
  BY <1>1, <1>2, <1>3, <1>4, <1>5, <1>6, <1>7, LimiterRecords DEF ApNext

\* The disk usage

LEMMA DoingStays ==
    ASSUME DiskInv, NEW r \in ApRequests, NEW w, w.since \in Nat,
           doing' = doing \/ doing' = [doing EXCEPT ![r] = w]
    PROVE  doing' = [x \in ApRequests |-> doing'[x]] /\ \A x \in ApRequests : doing'[x].since \in Nat
BY DEF DiskInv

LEMMA DiskStays ==
    ASSUME DiskInv, UNCHANGED <<cached, outdated, doing>>, clock' = clock \/ clock' = clock + 1
    PROVE  DiskInv'
BY DEF DiskInv

LEMMA DiskWaits ==
    ASSUME DiskInv, UNCHANGED <<cached, outdated, clock>>, NEW r \in ApRequests, NEW w,
           w.since \in Nat, doing' = [doing EXCEPT ![r] = w]
    PROVE  DiskInv'
BY DoingStays DEF DiskInv

LEMMA DiskInvariant == DiskInv /\ (ApNext \/ UNCHANGED apVars) => DiskInv'
<1>. SUFFICES ASSUME DiskInv, ApNext \/ UNCHANGED apVars PROVE DiskInv'
  OBVIOUS
<1>0. clock \in Nat /\ Idle.since \in Nat
  BY DEF DiskInv, Idle
<1>1. ASSUME NEW r \in ApRequests, AnswerCached(r) PROVE DiskInv'
  <2>1. /\ cached.measured # Never /\ clock - cached.at < ApTtl /\ clock' = clock /\ cached' = cached
        /\ outdated' = (outdated \/ (cached.measured < doing[r].since /\ clock - cached.measured >= ApTtl))
        /\ doing' = [doing EXCEPT ![r] = Idle]
    BY <1>1 DEF AnswerCached, CacheHolds, Shows, Answer
  <2>2. cached.at = cached.measured /\ ~outdated /\ cached.at \in Int
    BY <2>1 DEF DiskInv
  <2>3. ~(clock - cached.measured >= ApTtl)
    BY <1>0, <2>1, <2>2, ApAssumption
  <2>4. ~outdated'
    BY <2>1, <2>2, <2>3
  <2>. QED
    BY <1>0, <2>1, <2>2, <2>4, DoingStays DEF DiskInv
<1>2. ASSUME NEW r \in ApRequests, EndScan(r) PROVE DiskInv'
  <2>1. /\ cached' = [measured |-> doing[r].since, at |-> doing[r].since] /\ clock' = clock
        /\ outdated' = (outdated \/ (doing[r].since < doing[r].since /\ clock - doing[r].since >= ApTtl))
        /\ doing' = [doing EXCEPT ![r] = Idle]
    BY <1>2 DEF EndScan, Stamp, Shows, Answer
  <2>2. doing[r].since \in Nat /\ ~outdated
    BY DEF DiskInv
  <2>3. ~(doing[r].since < doing[r].since)
    BY <2>2
  <2>4. ~outdated'
    BY <2>1, <2>2, <2>3, Zenon
  <2>5. cached'.at = cached'.measured /\ cached'.at \in Int
    BY <2>1, <2>2
  <2>. QED
    BY <1>0, <2>1, <2>4, <2>5, DoingStays DEF DiskInv
<1>3. CASE UNCHANGED apVars
  BY <1>3, DiskStays DEF apVars, apDisk
<1>4. CASE Tick \/ ServiceFlips \/ PurgeExpired
  BY <1>4, DiskStays DEF Tick, ServiceFlips, PurgeExpired, apDisk
<1>5. ASSUME NEW i \in ApIps,
             LoginBlocked(i) \/ LoginFailed(i) \/ \E s \in ApSids : LoginSuccess(i, s)
      PROVE  DiskInv'
  BY <1>5, DiskStays DEF LoginBlocked, LoginFailed, LoginSuccess, apDisk
<1>6. ASSUME NEW s \in ApSids,
             \/ PassMiddleware(s) \/ Logout(s)
             \/ \E ck, h \in AnyCookie : CsrfRefused(s, ck, h)
      PROVE  DiskInv'
  BY <1>6, DiskStays DEF PassMiddleware, Logout, CsrfRefused, apDisk
<1>7. ASSUME NEW r \in ApRequests,
             \/ \E rc \in {0, 1} : RestartReturned(r, rc)
             \/ RestartPolled(r) \/ ReloadReturned(r) \/ ReadReturned(r) \/ StartScan(r)
      PROVE  DiskInv'
  <2>1. \E w : w.since \in Nat /\ doing' = [doing EXCEPT ![r] = w]
    <3>1. [do |-> "poll", since |-> clock].since \in Nat /\ [do |-> "scan", since |-> clock].since \in Nat
      BY <1>0
    <3>. QED
      BY <1>0, <1>7, <3>1 DEF RestartReturned, RestartPolled, ReloadReturned, ReadReturned, StartScan, Answer
  <2>2. UNCHANGED <<cached, outdated, clock>>
    BY <1>7 DEF RestartReturned, RestartPolled, ReloadReturned, ReadReturned, StartScan, apDisk
  <2>. QED
    BY <2>1, <2>2, DiskWaits
<1>8. ASSUME NEW r \in ApRequests, NEW s \in ApSids,
             \/ ApiDisk(r, s) \/ ApiRead(r, s)
             \/ \E ck, h \in AnyCookie : ApiRestart(r, s, ck, h) \/ ApiReload(r, s, ck, h)
      PROVE  DiskInv'
  <2>1. \E what : doing' = [doing EXCEPT ![r] = [do |-> what, since |-> clock]]
    BY <1>8 DEF ApiDisk, ApiRead, ApiRestart, ApiReload, Begin
  <2>2. PICK what : doing' = [doing EXCEPT ![r] = [do |-> what, since |-> clock]]
    BY <2>1
  <2>3. [do |-> what, since |-> clock].since \in Nat
    BY <1>0
  <2>4. UNCHANGED <<cached, outdated, clock>>
    BY <1>8 DEF ApiDisk, ApiRead, ApiRestart, ApiReload, apDisk
  <2>. QED
    BY <2>2, <2>3, <2>4, DiskWaits
<1>. QED
  BY <1>1, <1>2, <1>3, <1>4, <1>5, <1>6, <1>7, <1>8 DEF ApNext

\* No session is served past its end, no address has more passwords refused in
\* any window than the limit, no disk usage is shown past its time: for any
\* sessions, addresses and requests, any idle time, window, limit and cache
\* time, and a clock that has no bound (auth.py:225-295, inspect.py:487-505).
THEOREM PanelStaysSound == RcSpec => []PanelSound
<1>1. ApInv /\ [RcNext]_RcVars => ApInv'
  BY ApSteps, SessionsInvariant, LimiterInvariant, DiskInvariant DEF ApInv
<1>2. ApInv => PanelSound
  <2>. SUFFICES ASSUME ApInv PROVE PanelSound
    OBVIOUS
  <2>1. ASSUME NEW i \in ApIps PROVE Len(Recent(i)) <= ApMaxFailures
    <3>. DEFINE d == clock - ApWindow
    <3>1. d \in Int /\ d >= d /\ failures[i] \in Seq(Nat) /\ Len(failures[i]) <= ApMaxFailures
      BY ApAssumption DEF ApInv, LimiterInv
    <3>2. Recent(i) = After(failures[i], d)
      BY <3>1 DEF ApInv, LimiterInv, Recent
    <3>. HIDE DEF d
    <3>3. Len(After(failures[i], d)) <= Len(failures[i]) /\ After(failures[i], d) \in Seq(Nat)
      <4>1. d <= d
        BY <3>1
      <4>. QED
        BY <3>1, <4>1, AfterPrunes, AfterTyped
    <3>4. Len(After(failures[i], d)) \in Nat /\ Len(failures[i]) \in Nat /\ ApMaxFailures \in Nat
      BY <3>1, <3>3, ApAssumption
    <3>. QED
      BY <3>1, <3>2, <3>3, <3>4
  <2>. QED
    BY <2>1 DEF ApInv, SessionsInv, DiskInv, PanelSound, SessionsHonest, FailuresCapped, DiskIsFresh
<1>. QED
  BY ApBegins, <1>1, <1>2, PTL DEF RcSpec
=============================================================================
