---------------------------- MODULE LibraryLemmas ----------------------------
(* What the folds and the sequences of the community modules compute.      *)
(* None of the provers does induction over data; what is shown here for    *)
(* sets and sequences of every size is shown by way of a least             *)
(* counterexample.                                                         *)
EXTENDS Integers, SequencesExt, FiniteSetTheorems, WellFoundedInduction,
        SequenceTheorems, TLAPS

(* Every set of numbers that is not empty has a least one.                 *)
LEMMA LeastNumber ==
  ASSUME NEW I \in SUBSET Nat, I # {}
  PROVE  \E m \in I : \A i \in I : m <= i
<1> DEFINE R == {ss \in Nat \X Nat : ss[1] < ss[2]}
<1>1. IsWellFoundedOn(R, Nat)
  BY NatLessThanWellFounded DEF OpToRel
<1> HIDE DEF R
<1>2. PICK m \in I : \A j \in I : ~(<<j, m>> \in R)
  BY <1>1, WFMin
<1>3. \A j, k \in Nat : j < k => <<j, k>> \in R
  BY Zenon DEF R
<1>4. \A j \in I : ~(j < m)
  BY <1>2, <1>3
<1>5. \A j \in I : m <= j
  BY <1>4, SMT
<1> QED BY <1>5

(* What holds of 0 and is passed on holds up to n.                         *)
LEMMA CountingUp ==
  ASSUME NEW n \in Nat, NEW P, 0 \in P, \A k \in 1..n : k - 1 \in P => k \in P
  PROVE  0..n \subseteq P
<1> DEFINE Fails == {k \in 0..n : k \notin P}
<1> SUFFICES ASSUME Fails # {} PROVE FALSE
  OBVIOUS
<1>1. Fails \in SUBSET Nat
  OBVIOUS
<1>2. PICK k \in Fails : \A i \in Fails : k <= i
  BY <1>1, LeastNumber
<1>3. k \in 1..n /\ k - 1 \in 0..n
  BY <1>2
<1>4. k - 1 \notin Fails
  BY <1>2, <1>3
<1> QED BY <1>2, <1>3, <1>4

-----------------------------------------------------------------------------
(* The folds of the community modules are recursive functions on subsets,  *)
(* the element that pick gives taken out first.                            *)

FoldsSet(g, base, put, pick, S) ==
  \A T \in SUBSET S :
    g[T] = IF T = {} THEN base ELSE put[pick[T]][g[T \ {pick[T]}]]

(* There is such a function: up to any number of elements, hence for all.  *)
LEMMA FoldExists ==
  ASSUME NEW S, IsFiniteSet(S), NEW V, NEW base \in V,
         NEW put \in [S -> [V -> V]], NEW pick,
         \A T \in SUBSET S : T # {} => pick[T] \in T
  PROVE  \E g \in [SUBSET S -> V] : FoldsSet(g, base, put, pick, S)
<1> DEFINE Upto(n) == {T \in SUBSET S : Cardinality(T) <= n}
           Good(g, n) == /\ g \in [Upto(n) -> V]
                         /\ \A T \in Upto(n) :
                              g[T] = IF T = {} THEN base
                                     ELSE put[pick[T]][g[T \ {pick[T]}]]
           Fails == {n \in Nat : \A g : ~Good(g, n)}
<1>0. \A T \in SUBSET S : /\ IsFiniteSet(T) /\ Cardinality(T) \in Nat
                          /\ Cardinality(T) <= Cardinality(S)
                          /\ Cardinality(T) = 0 <=> T = {}
                          /\ \A x \in T : Cardinality(T \ {x}) = Cardinality(T) - 1
  BY FS_Subset, FS_CardinalityType, FS_EmptySet, FS_RemoveElement
<1>1. Fails = {}
  <2> SUFFICES ASSUME Fails # {} PROVE FALSE
    OBVIOUS
  <2>1. PICK n \in Fails : \A k \in Fails : n <= k
    BY LeastNumber
  <2>2. n \in Nat /\ \A g : ~Good(g, n)
    BY <2>1
  <2>3. n # 0
    <3> SUFFICES ASSUME n = 0 PROVE FALSE
      OBVIOUS
    <3> DEFINE g == [T \in Upto(0) |-> base]
    <3>1. \A T \in Upto(0) : T = {}
      BY <1>0
    <3>2. Good(g, 0)
      BY <3>1
    <3> QED BY <2>2, <3>2
  <2>4. n - 1 \in Nat /\ ~(n <= n - 1)
    BY <2>2, <2>3
  <2>5. n - 1 \notin Fails
    BY <2>1, <2>4
  <2> HIDE DEF Good
  <2>6. PICK g : Good(g, n - 1)
    BY <2>4, <2>5
  <2>7. \A T \in Upto(n) : /\ T \in SUBSET S
                           /\ T # {} => /\ T \ {pick[T]} \in Upto(n - 1)
                                        /\ T \ {pick[T]} \in Upto(n)
                                        /\ pick[T] \in S
    <3> SUFFICES ASSUME NEW T \in Upto(n), T # {}
                 PROVE  /\ T \ {pick[T]} \in Upto(n - 1)
                        /\ T \ {pick[T]} \in Upto(n)
                        /\ pick[T] \in S
      OBVIOUS
    <3>1. T \in SUBSET S /\ Cardinality(T) <= n
      OBVIOUS
    <3>2. pick[T] \in T
      BY <3>1
    <3>3. Cardinality(T \ {pick[T]}) = Cardinality(T) - 1 /\ Cardinality(T) \in Nat
      BY <1>0, <3>1, <3>2
    <3>4. T \ {pick[T]} \in SUBSET S
      BY <3>1
    <3>5. Cardinality(T \ {pick[T]}) <= n - 1 /\ Cardinality(T \ {pick[T]}) <= n
      BY <2>2, <3>1, <3>3
    <3> QED BY <3>1, <3>2, <3>4, <3>5
  <2>8. \A T \in Upto(n - 1) : T \in Upto(n)
    <3> SUFFICES ASSUME NEW T \in Upto(n - 1) PROVE T \in Upto(n)
      OBVIOUS
    <3>1. T \in SUBSET S /\ Cardinality(T) <= n - 1
      OBVIOUS
    <3>2. Cardinality(T) \in Nat
      BY <1>0, <3>1
    <3>3. Cardinality(T) <= n
      BY <2>2, <3>1, <3>2
    <3> QED BY <3>1, <3>3
  <2> DEFINE h == [T \in Upto(n) |->
                     IF T = {} THEN base ELSE put[pick[T]][g[T \ {pick[T]}]]]
  <2> HIDE DEF Upto
  <2>9. h \in [Upto(n) -> V]
    BY <2>6, <2>7 DEF Good
  <2>10. \A T \in Upto(n - 1) : g[T] = h[T]
    BY <2>6, <2>8 DEF Good
  <2>11. Good(h, n)
    BY <2>7, <2>9, <2>10 DEF Good
  <2> QED BY <2>2, <2>11
<1>2. Cardinality(S) \in Nat
  BY FS_CardinalityType
<1>3. \A T \in SUBSET S : T \in Upto(Cardinality(S))
  BY <1>0
<1>4. Cardinality(S) \notin Fails
  BY <1>1
<1>5. \E g : Good(g, Cardinality(S))
  BY <1>2, <1>4
<1>6. PICK g : Good(g, Cardinality(S))
  BY <1>5
<1>7. Upto(Cardinality(S)) = SUBSET S
  BY <1>3
<1>8. g \in [SUBSET S -> V] /\ FoldsSet(g, base, put, pick, S)
  BY <1>6, <1>7 DEF FoldsSet
<1> QED BY <1>8

(* Sums: the number added for each element, and what they come to.         *)

One(T) == CHOOSE x \in T : TRUE

Sums(g, f, S) ==
  g = [T \in SUBSET S |-> IF T = {} THEN 0 ELSE f[One(T)] + g[T \ {One(T)}]]

LEMMA SumExists ==
  ASSUME NEW S, IsFiniteSet(S), NEW f, \A x \in S : f[x] \in Nat
  PROVE  \E g : Sums(g, f, S)
<1> DEFINE pick == [T \in SUBSET S |-> One(T)]
           put == [x \in S |-> [v \in Nat |-> f[x] + v]]
<1>1. \A T \in SUBSET S : T # {} => pick[T] = One(T) /\ pick[T] \in T
  BY DEF One
<1>2. put \in [S -> [Nat -> Nat]]
  OBVIOUS
<1> HIDE DEF pick, put
<1>3. PICK g \in [SUBSET S -> Nat] : FoldsSet(g, 0, put, pick, S)
  BY <1>1, <1>2, FoldExists
<1>4. ASSUME NEW T \in SUBSET S
      PROVE  g[T] = IF T = {} THEN 0 ELSE f[One(T)] + g[T \ {One(T)}]
  <2>1. CASE T = {}
    BY <1>3, <2>1 DEF FoldsSet
  <2>2. CASE T # {}
    <3>1. g[T] = put[One(T)][g[T \ {One(T)}]] /\ One(T) \in S
      BY <1>1, <1>3, <2>2 DEF FoldsSet
    <3>2. g[T \ {One(T)}] \in Nat
      BY <1>3
    <3> QED BY <2>2, <3>1, <3>2 DEF put
  <2> QED BY <2>1, <2>2
<1>5. g = [T \in SUBSET S |-> IF T = {} THEN 0 ELSE f[One(T)] + g[T \ {One(T)}]]
  BY <1>3, <1>4
<1> QED BY <1>5 DEF Sums

(* What MapThenSumSet gives.                                               *)
SumOf(f, S) ==
  (CHOOSE g : g = [T \in SUBSET S |->
                     IF T = {} THEN 0 ELSE f[One(T)] + g[T \ {One(T)}]])[S]

LEMMA SumSums ==
  ASSUME NEW S, IsFiniteSet(S), NEW f, \A x \in S : f[x] \in Nat
  PROVE  \E g : Sums(g, f, S) /\ SumOf(f, S) = g[S]
<1> DEFINE G == CHOOSE g : g = [T \in SUBSET S |->
                   IF T = {} THEN 0 ELSE f[One(T)] + g[T \ {One(T)}]]
<1>1. SumOf(f, S) = G[S]
  BY DEF SumOf
<1>2. PICK g : Sums(g, f, S)
  BY SumExists
<1>3. G = [T \in SUBSET S |-> IF T = {} THEN 0 ELSE f[One(T)] + G[T \ {One(T)}]]
  BY <1>2 DEF Sums
<1> HIDE DEF G
<1> QED BY <1>1, <1>3 DEF Sums

With(D, key, x) == {i \in D : key[i] = x}
Within(D, key, S) == {i \in D : key[i] \in S}

(* Where f counts the elements of D by their key, the sum counts all those *)
(* that have a key in the set.                                             *)
LEMMA SumCounts ==
  ASSUME NEW S, IsFiniteSet(S), NEW D, IsFiniteSet(D), NEW key, NEW f, NEW g,
         \A x \in S : f[x] = Cardinality(With(D, key, x)), Sums(g, f, S)
  PROVE  g[S] = Cardinality(Within(D, key, S))
<1> DEFINE Under(T) == {i \in D : key[i] \in T}
           Bad == {T \in SUBSET S : g[T] # Cardinality(Under(T))}
           Sizes == {Cardinality(T) : T \in Bad}
<1>1. \A T \in SUBSET S : IsFiniteSet(T) /\ Cardinality(T) \in Nat
  BY FS_Subset, FS_CardinalityType
<1>2. \A T : IsFiniteSet(Under(T)) /\ Cardinality(Under(T)) \in Nat
  <2> SUFFICES ASSUME NEW T
               PROVE  IsFiniteSet(Under(T)) /\ Cardinality(Under(T)) \in Nat
    OBVIOUS
  <2>1. Under(T) \in SUBSET D
    OBVIOUS
  <2> QED BY <2>1, FS_Subset, FS_CardinalityType
<1>3. Bad = {}
  <2> SUFFICES ASSUME Bad # {} PROVE FALSE
    OBVIOUS
  <2>1. Sizes \in SUBSET Nat /\ Sizes # {}
    BY <1>1
  <2>2. PICK n \in Sizes : \A m \in Sizes : n <= m
    BY <2>1, LeastNumber
  <2>3. PICK T \in Bad : Cardinality(T) = n
    BY <2>2
  <2> DEFINE x == One(T)
  <2>4. T # {}
    <3> SUFFICES ASSUME T = {} PROVE FALSE
      OBVIOUS
    <3>1. g[T] = 0
      BY DEF Sums
    <3>2. Under(T) = {}
      OBVIOUS
    <3> QED BY <2>3, <3>1, <3>2, FS_EmptySet
  <2>5. x \in T /\ x \in S
    BY <2>4 DEF One
  <2>6. Cardinality(T \ {x}) = Cardinality(T) - 1 /\ Cardinality(T) \in Nat
    BY <1>1, <2>5, FS_RemoveElement
  <2>7. T \ {x} \notin Bad
    <3> SUFFICES ASSUME T \ {x} \in Bad PROVE FALSE
      OBVIOUS
    <3>1. Cardinality(T \ {x}) \in Sizes
      OBVIOUS
    <3>2. n <= n - 1 /\ n \in Nat
      BY <2>2, <2>3, <2>6, <3>1
    <3> QED BY <3>2
  <2>8. g[T \ {x}] = Cardinality(Under(T \ {x}))
    BY <2>7
  <2>9. g[T] = f[x] + g[T \ {x}]
    BY <2>4 DEF Sums
  <2>10. Under({x}) \cup Under(T \ {x}) = Under(T) /\ Under({x}) \cap Under(T \ {x}) = {}
    BY <2>5
  <2>11. Cardinality(Under(T)) = Cardinality(Under({x})) + Cardinality(Under(T \ {x}))
    <3>1. Cardinality(Under({x}) \cup Under(T \ {x}))
            = Cardinality(Under({x})) + Cardinality(Under(T \ {x}))
                - Cardinality(Under({x}) \cap Under(T \ {x}))
      BY <1>2, FS_Union
    <3>2. Cardinality(Under({x}) \cap Under(T \ {x})) = 0
      BY <2>10, FS_EmptySet
    <3>3. Cardinality(Under({x})) \in Nat /\ Cardinality(Under(T \ {x})) \in Nat
      BY <1>2
    <3>4. Cardinality(Under({x}) \cup Under(T \ {x})) = Cardinality(Under(T))
      BY <2>10
    <3> HIDE DEF Under, x
    <3> QED BY <3>1, <3>2, <3>3, <3>4
  <2>12. f[x] = Cardinality(Under({x}))
    <3>1. Under({x}) = With(D, key, x)
      BY DEF With
    <3> QED BY <2>5, <3>1
  <2> QED BY <2>8, <2>9, <2>11, <2>12
<1>4. Under(S) = Within(D, key, S)
  BY DEF Within
<1> QED BY <1>3, <1>4

(* One more for each element.                                              *)
LEMMA SumPlusOne ==
  ASSUME NEW S, IsFiniteSet(S), NEW f, \A x \in S : f[x] \in Nat,
         NEW e, \A x \in S : e[x] = f[x] + 1,
         NEW g, Sums(g, f, S), NEW h, Sums(h, e, S)
  PROVE  g[S] \in Nat /\ h[S] = g[S] + Cardinality(S)
<1> DEFINE Good(T) == g[T] \in Nat /\ h[T] = g[T] + Cardinality(T)
           Bad == {T \in SUBSET S : ~Good(T)}
           Sizes == {Cardinality(T) : T \in Bad}
<1>1. \A T \in SUBSET S : IsFiniteSet(T) /\ Cardinality(T) \in Nat
  BY FS_Subset, FS_CardinalityType
<1>2. Bad = {}
  <2> SUFFICES ASSUME Bad # {} PROVE FALSE
    OBVIOUS
  <2>1. Sizes \in SUBSET Nat /\ Sizes # {}
    BY <1>1
  <2>2. PICK n \in Sizes : \A m \in Sizes : n <= m
    BY <2>1, LeastNumber
  <2>3. PICK T \in Bad : Cardinality(T) = n
    BY <2>2
  <2>4. T # {}
    <3> SUFFICES ASSUME T = {} PROVE FALSE
      OBVIOUS
    <3>1. g[T] = 0 /\ h[T] = 0
      BY DEF Sums
    <3>2. Cardinality(T) = 0
      BY FS_EmptySet
    <3> QED BY <2>3, <3>1, <3>2
  <2>5. PICK x : x = One(T)
    OBVIOUS
  <2>6. x \in T /\ x \in S
    BY <2>4, <2>5 DEF One
  <2>7. Cardinality(T \ {x}) = n - 1 /\ n \in Nat
    BY <1>1, <2>3, <2>6, FS_RemoveElement
  <2>8. Good(T \ {x})
    <3> SUFFICES ASSUME T \ {x} \in Bad PROVE FALSE
      OBVIOUS
    <3>1. Cardinality(T \ {x}) \in Sizes
      OBVIOUS
    <3>2. n <= n - 1
      BY <2>2, <2>7, <3>1
    <3> QED BY <2>7, <3>2
  <2>9. g[T] = f[x] + g[T \ {x}] /\ h[T] = e[x] + h[T \ {x}]
    BY <2>4, <2>5 DEF Sums
  <2>10. Good(T)
    <3>1. PICK a, b, c : a = g[T \ {x}] /\ b = h[T \ {x}] /\ c = f[x]
      OBVIOUS
    <3>2. a \in Nat /\ b = a + (n - 1) /\ c \in Nat /\ e[x] = c + 1
      BY <2>6, <2>7, <2>8, <3>1
    <3>3. g[T] = c + a /\ h[T] = (c + 1) + b
      BY <2>9, <3>1, <3>2
    <3> QED BY <2>3, <2>7, <3>2, <3>3
  <2> QED BY <2>10
<1> QED BY <1>2

DiagonalOf(f, S) ==
  (CHOOSE g : g = [T \in SUBSET S |->
                     IF T = {} THEN 0 ELSE f[One(T)][One(T)] + g[T \ {One(T)}]])[S]

LEMMA DiagonalSums ==
  ASSUME NEW S, IsFiniteSet(S), NEW f, NEW e,
         \A x \in S : e[x] = f[x][x] /\ e[x] \in Nat
  PROVE  \E g : Sums(g, e, S) /\ DiagonalOf(f, S) = g[S]
<1> DEFINE Fold(g) == [T \in SUBSET S |->
                         IF T = {} THEN 0 ELSE f[One(T)][One(T)] + g[T \ {One(T)}]]
           G == CHOOSE g : g = Fold(g)
<1>1. DiagonalOf(f, S) = G[S]
  BY DEF DiagonalOf
<1>2. \A T \in SUBSET S : T # {} => One(T) \in S /\ e[One(T)] = f[One(T)][One(T)]
  BY DEF One
<1>3. \A g : Fold(g) = [T \in SUBSET S |->
                          IF T = {} THEN 0 ELSE e[One(T)] + g[T \ {One(T)}]]
  BY <1>2
<1>4. PICK g : Sums(g, e, S)
  BY SumExists
<1>5. g = Fold(g)
  BY <1>3, <1>4 DEF Sums
<1>6. G = Fold(G)
  BY <1>5
<1> HIDE DEF G
<1>7. Sums(G, e, S)
  BY <1>3, <1>6 DEF Sums
<1> QED BY <1>1, <1>7

-----------------------------------------------------------------------------
(* FlattenSeq puts sequences one after the other.                          *)

Joins(g, ss, n) ==
  g = [i \in 1..n |-> IF i = 1 THEN ss[i] ELSE g[i - 1] \o ss[i]]

LEMMA JoinExists ==
  ASSUME NEW ss, NEW n \in Nat
  PROVE  \E g : Joins(g, ss, n)
<1> DEFINE Fails == {k \in Nat : \A g : ~Joins(g, ss, k)}
<1>1. Fails = {}
  <2> SUFFICES ASSUME Fails # {} PROVE FALSE
    OBVIOUS
  <2>1. PICK m \in Fails : \A k \in Fails : m <= k
    BY LeastNumber
  <2>2. m \in Nat /\ \A g : ~Joins(g, ss, m)
    BY <2>1
  <2>3. CASE m = 0
    <3> DEFINE g == [i \in 1..0 |-> <<>>]
    <3>1. Joins(g, ss, 0)
      BY DEF Joins
    <3> QED BY <2>2, <2>3, <3>1
  <2>4. CASE m # 0
    <3>1. m - 1 \in Nat /\ ~(m <= m - 1)
      BY <2>2, <2>4
    <3>2. m - 1 \notin Fails
      BY <2>1, <3>1
    <3>3. PICK g : Joins(g, ss, m - 1)
      BY <3>1, <3>2
    <3> DEFINE h == [i \in 1..m |-> IF i = 1 THEN ss[i] ELSE g[i - 1] \o ss[i]]
    <3>4. \A i \in 1..m : i # 1 => i - 1 \in 1..(m - 1)
      BY <2>2
    <3>5. \A i \in 1..m : i # 1 => g[i - 1] = h[i - 1]
      <4>1. \A i \in 1..(m - 1) : i \in 1..m
        BY <2>2
      <4>2. \A i \in 1..(m - 1) : g[i] = IF i = 1 THEN ss[i] ELSE g[i - 1] \o ss[i]
        BY <3>3 DEF Joins
      <4>3. \A i \in 1..(m - 1) : g[i] = h[i]
        BY <4>1, <4>2
      <4> QED BY <3>4, <4>3
    <3>6. h = [i \in 1..m |-> IF i = 1 THEN ss[i] ELSE h[i - 1] \o ss[i]]
      BY <3>5
    <3>7. Joins(h, ss, m)
      BY <3>6 DEF Joins
    <3> QED BY <2>2, <3>7
  <2> QED BY <2>3, <2>4
<1>2. n \notin Fails
  BY <1>1
<1> QED BY <1>2

LEMMA FlattenJoins ==
  ASSUME NEW ss, Len(ss) \in Nat, Len(ss) # 0
  PROVE  \E g : /\ FlattenSeq(ss) = g[Len(ss)] /\ g[1] = ss[1]
               /\ \A i \in 1..Len(ss) : i # 1 => g[i] = g[i - 1] \o ss[i]
<1> DEFINE G == CHOOSE g : g = [i \in 1..Len(ss) |->
                                  IF i = 1 THEN ss[i] ELSE g[i - 1] \o ss[i]]
<1>1. FlattenSeq(ss) = G[Len(ss)]
  BY DEF FlattenSeq
<1>2. PICK g : Joins(g, ss, Len(ss))
  BY JoinExists
<1>3. Joins(G, ss, Len(ss))
  BY <1>2 DEF Joins
<1> HIDE DEF G
<1>4. \A i \in 1..Len(ss) : G[i] = IF i = 1 THEN ss[i] ELSE G[i - 1] \o ss[i]
  BY <1>3 DEF Joins
<1>5. 1 \in 1..Len(ss)
  OBVIOUS
<1> QED BY <1>1, <1>4, <1>5

(* at[i] is where the i-th of the sequences begins in the sequence s.      *)
Concatenates(s, ss, at, n) ==
  /\ \A i \in 1..n : at[i] \in Nat /\ at[i] + Len(ss[i]) <= Len(s)
  /\ \A i \in 1..n : \A k \in DOMAIN ss[i] :
       at[i] + k \in DOMAIN s /\ s[at[i] + k] = ss[i][k]
  /\ \A m \in DOMAIN s : \E i \in 1..n : \E k \in DOMAIN ss[i] : m = at[i] + k

LEMMA Flattened ==
  ASSUME NEW T, NEW ss \in Seq(Seq(T))
  PROVE  /\ FlattenSeq(ss) \in Seq(T)
         /\ \E at : Concatenates(FlattenSeq(ss), ss, at, Len(ss))
<1>0. /\ Len(ss) \in Nat /\ DOMAIN ss = 1..Len(ss)
      /\ \A i \in DOMAIN ss : /\ ss[i] \in Seq(T) /\ Len(ss[i]) \in Nat
                              /\ DOMAIN ss[i] = 1..Len(ss[i])
  OBVIOUS
<1>1. CASE Len(ss) = 0
  <2>1. ss = <<>> /\ FlattenSeq(ss) = ss
    BY <1>1 DEF FlattenSeq
  <2>2. Concatenates(FlattenSeq(ss), ss, <<>>, Len(ss))
    BY <1>1, <2>1 DEF Concatenates
  <2>3. <<>> \in Seq(T)
    OBVIOUS
  <2> QED BY <2>1, <2>2, <2>3
<1>2. CASE Len(ss) # 0
  <2>1. PICK G : /\ FlattenSeq(ss) = G[Len(ss)] /\ G[1] = ss[1]
                 /\ \A i \in 1..Len(ss) : i # 1 => G[i] = G[i - 1] \o ss[i]
    BY <1>0, <1>2, FlattenJoins
  <2>2. G[1] = ss[1] /\ \A i \in 1..Len(ss) : i # 1 => G[i] = G[i - 1] \o ss[i]
    BY <2>1
  <2> DEFINE Good(n) == /\ G[n] \in Seq(T)
                        /\ \E at : Concatenates(G[n], ss, at, n)
             Fails == {n \in 1..Len(ss) : ~Good(n)}
  <2>3. Good(1)
    <3>1. G[1] \in Seq(T)
      BY <1>0, <1>2, <2>2
    <3>2. Concatenates(G[1], ss, <<0>>, 1)
      BY <1>0, <1>2, <2>2 DEF Concatenates
    <3> QED BY <3>1, <3>2
  <2>4. ASSUME NEW n \in 1..Len(ss), n # 1, Good(n - 1)
        PROVE  Good(n)
    <3>1. n \in Nat /\ n - 1 \in Nat /\ n - 1 \in 1..Len(ss)
      BY <1>0, <2>4
    <3>2. PICK at : Concatenates(G[n - 1], ss, at, n - 1)
      BY <2>4
    <3>3. PICK a : a = G[n - 1]
      OBVIOUS
    <3>4. a \in Seq(T) /\ Len(a) \in Nat /\ DOMAIN a = 1..Len(a)
      BY <2>4, <3>3
    <3>5. PICK b : b = ss[n]
      OBVIOUS
    <3>6. b \in Seq(T) /\ Len(b) \in Nat /\ DOMAIN b = 1..Len(b)
      BY <1>0, <3>5
    <3>7. G[n] = a \o b
      BY <2>2, <2>4, <3>3, <3>5
    <3>8. PICK c : c = a \o b
      OBVIOUS
    <3>9. /\ c \in Seq(T) /\ Len(c) = Len(a) + Len(b) /\ DOMAIN c = 1..(Len(a) + Len(b))
          /\ \A k \in DOMAIN a : k \in DOMAIN c /\ c[k] = a[k]
          /\ \A k \in DOMAIN b : Len(a) + k \in DOMAIN c /\ c[Len(a) + k] = b[k]
      <4>1. c \in Seq(T) /\ Len(c) = Len(a) + Len(b)
        BY <3>4, <3>6, <3>8
      <4>2. DOMAIN c = 1..(Len(a) + Len(b))
        BY <4>1
      <4>3. \A k \in DOMAIN a : k \in DOMAIN c /\ c[k] = a[k]
        BY <3>4, <3>6, <3>8, <4>2
      <4>4. \A k \in DOMAIN b : Len(a) + k \in DOMAIN c /\ c[Len(a) + k] = b[k]
        BY <3>4, <3>6, <3>8, <4>2
      <4> QED BY <4>1, <4>2, <4>3, <4>4
    <3> DEFINE to == [i \in 1..n |-> IF i = n THEN Len(a) ELSE at[i]]
    <3>10. \A i \in 1..n : i # n => i \in 1..(n - 1)
      BY <3>1
    <3>11. /\ \A i \in 1..(n - 1) : at[i] \in Nat /\ at[i] + Len(ss[i]) <= Len(a)
           /\ \A i \in 1..(n - 1) : \A k \in DOMAIN ss[i] :
                at[i] + k \in DOMAIN a /\ a[at[i] + k] = ss[i][k]
           /\ \A m \in DOMAIN a :
                \E i \in 1..(n - 1) : \E k \in DOMAIN ss[i] : m = at[i] + k
      BY <3>2, <3>3 DEF Concatenates
    <3>12. \A i \in 1..n : to[i] \in Nat
      BY <3>4, <3>10, <3>11
    <3>13. \A i \in 1..n : \A k \in DOMAIN ss[i] :
             to[i] + k \in DOMAIN c /\ c[to[i] + k] = ss[i][k]
      BY <3>5, <3>9, <3>10, <3>11
    <3>14. \A m \in DOMAIN c : \E i \in 1..n : \E k \in DOMAIN ss[i] : m = to[i] + k
      <4> SUFFICES ASSUME NEW m \in DOMAIN c
                   PROVE  \E i \in 1..n : \E k \in DOMAIN ss[i] : m = to[i] + k
        OBVIOUS
      <4>1. CASE m \in DOMAIN a
        <5>1. PICK i \in 1..(n - 1) : \E k \in DOMAIN ss[i] : m = at[i] + k
          BY <3>11, <4>1
        <5>2. i \in 1..n /\ to[i] = at[i]
          BY <3>1
        <5> HIDE DEF to
        <5> QED BY <5>1, <5>2
      <4>2. CASE m \notin DOMAIN a
        <5>1. m - Len(a) \in DOMAIN b /\ m = Len(a) + (m - Len(a))
          BY <3>4, <3>6, <3>9, <4>2
        <5>2. n \in 1..n /\ to[n] = Len(a)
          BY <3>1
        <5> HIDE DEF to
        <5> QED BY <3>5, <5>1, <5>2
      <4> QED BY <4>1, <4>2
    <3>15. \A i \in 1..n : to[i] + Len(ss[i]) <= Len(c)
      <4> SUFFICES ASSUME NEW i \in 1..n PROVE to[i] + Len(ss[i]) <= Len(c)
        OBVIOUS
      <4>1. CASE i = n
        <5>1. to[i] = Len(a) /\ Len(ss[i]) = Len(b)
          BY <3>1, <3>5, <4>1
        <5>2. Len(c) = Len(a) + Len(b)
          BY <3>9
        <5> HIDE DEF to
        <5> QED BY <3>4, <3>6, <5>1, <5>2
      <4>2. CASE i # n
        <5>1. i \in 1..(n - 1) /\ to[i] = at[i] /\ i \in DOMAIN ss
          BY <1>0, <3>10, <4>2
        <5>2. at[i] + Len(ss[i]) <= Len(a)
          BY <3>11, <5>1
        <5>3. at[i] \in Nat /\ Len(ss[i]) \in Nat
          BY <1>0, <3>11, <5>1
        <5>4. Len(c) = Len(a) + Len(b) /\ Len(a) \in Nat /\ Len(b) \in Nat
          BY <3>4, <3>6, <3>9
        <5> HIDE DEF to
        <5> QED BY <5>1, <5>2, <5>3, <5>4
      <4> QED BY <4>1, <4>2
    <3> HIDE DEF to
    <3>16. Concatenates(c, ss, to, n)
      BY <3>12, <3>13, <3>14, <3>15 DEF Concatenates
    <3> QED BY <3>7, <3>8, <3>9, <3>16
  <2> HIDE DEF Good
  <2>5. Fails = {}
    <3> SUFFICES ASSUME Fails # {} PROVE FALSE
      OBVIOUS
    <3>1. Fails \in SUBSET Nat
      BY <1>0
    <3>2. PICK n \in Fails : \A k \in Fails : n <= k
      BY <3>1, LeastNumber
    <3>3. n \in 1..Len(ss) /\ ~Good(n)
      BY <3>2
    <3>4. n # 1
      BY <2>3, <3>3
    <3>5. n - 1 \in 1..Len(ss) /\ ~(n <= n - 1)
      BY <1>0, <3>3, <3>4
    <3>6. Good(n - 1)
      BY <3>2, <3>5
    <3> QED BY <2>4, <3>3, <3>4, <3>6
  <2>6. Len(ss) \in 1..Len(ss)
    BY <1>0, <1>2
  <2>7. Good(Len(ss))
    BY <2>5, <2>6
  <2> QED BY <2>1, <2>7 DEF Good
<1> QED BY <1>1, <1>2

LEMMA FlattenOne ==
  ASSUME NEW s
  PROVE  FlattenSeq(<<s>>) = s
<1>1. PICK ss : ss = <<s>>
  OBVIOUS
<1>2. Len(ss) = 1 /\ ss[1] = s
  BY <1>1
<1>3. Len(ss) \in Nat /\ Len(ss) # 0
  BY <1>2
<1>4. PICK g : FlattenSeq(ss) = g[Len(ss)] /\ g[1] = ss[1]
  BY <1>3, FlattenJoins
<1> QED BY <1>1, <1>2, <1>4

-----------------------------------------------------------------------------
(* Listings, and what the loops over them go through.                      *)

(* s has every element of S at one place.                                  *)
Enumerates(s, S) ==
  /\ s \in Seq(S)
  /\ \A x \in S : \E i \in DOMAIN s : s[i] = x
  /\ \A i, j \in DOMAIN s : s[i] = s[j] => i = j

LEMMA EnumerationLen ==
  ASSUME NEW S, NEW s, Enumerates(s, S)
  PROVE  Len(s) = Cardinality(S)
<1>1. /\ Len(s) \in Nat /\ DOMAIN s = 1..Len(s) /\ s \in [1..Len(s) -> S]
  BY DEF Enumerates
<1>2. s \in Injection(1..Len(s), S) /\ s \in Surjection(1..Len(s), S)
  BY <1>1 DEF Enumerates, Injection, IsInjective, Surjection
<1>3. ExistsBijection(1..Len(s), S)
  BY <1>2 DEF ExistsBijection, Bijection
<1> QED BY <1>1, <1>3, FS_CountingElements, FS_NatBijection

LEMMA SeqsOfSet ==
  ASSUME NEW S, IsFiniteSet(S), NEW s \in SetToSeqs(S)
  PROVE  Enumerates(s, S)
<1> DEFINE n == Cardinality(S)
<1>1. n \in Nat /\ IsFiniteSet(1..n) /\ Cardinality(1..n) = n
  BY FS_CardinalityType, FS_Interval
<1>2. s \in [1..n -> S] /\ \A i, j \in 1..n : i # j => s[i] # s[j]
  BY DEF SetToSeqs
<1>3. s \in Injection(1..n, S)
  BY <1>2 DEF Injection, IsInjective
<1>4. s \in Surjection(1..n, S)
  BY <1>1, <1>3, FS_Injection
<1> HIDE DEF n
<1>5. s \in Seq(S) /\ DOMAIN s = 1..n
  BY <1>1, <1>2
<1> QED BY <1>2, <1>4, <1>5 DEF Enumerates, Surjection

-----------------------------------------------------------------------------
(* FoldLeft goes through a sequence place by place.                        *)

LEMMA MaxPlace ==
  ASSUME NEW n \in Nat, NEW T \in SUBSET (1..n), T # {}
  PROVE  Max(T) \in T
<1> DEFINE I == {n - x : x \in T}
<1>1. I \in SUBSET Nat /\ I # {}
  <2>1. \A x \in T : n - x \in Nat
    OBVIOUS
  <2> QED BY <2>1
<1>2. PICK m \in I : \A i \in I : m <= i
  BY <1>1, LeastNumber
<1>3. PICK x \in T : m = n - x
  BY <1>2
<1>4. \A y \in T : x >= y
  <2> SUFFICES ASSUME NEW y \in T PROVE x >= y
    OBVIOUS
  <2>1. n - y \in I
    OBVIOUS
  <2>2. n - x <= n - y
    BY <1>2, <1>3, <2>1
  <2> QED BY <2>2
<1> QED BY <1>4 DEF Max

LEMMA MaxUpto ==
  ASSUME NEW n \in Nat, NEW i \in 1..n
  PROVE  /\ 1..i \in SUBSET (1..n) /\ 1..i # {}
         /\ Max(1..i) = i
         /\ (1..i) \ {i} = 1..(i - 1)
<1>1. i \in 1..i /\ \A y \in 1..i : i >= y
  OBVIOUS
<1>2. \A x \in 1..i : (\A y \in 1..i : x >= y) => x = i
  BY <1>1
<1>3. Max(1..i) = i
  BY <1>1, <1>2 DEF Max
<1> QED BY <1>1, <1>3

LEMMA HeadAndTail ==
  ASSUME NEW T, NEW s \in Seq(T), s # <<>>
  PROVE  /\ Head(s) \in T /\ Tail(s) \in Seq(T)
         /\ Len(Tail(s)) = Len(s) - 1
         /\ Head(s) = s[1] /\ 1 \in DOMAIN s
         /\ \A i \in DOMAIN Tail(s) : i + 1 \in DOMAIN s /\ Tail(s)[i] = s[i + 1]
         /\ ToSet(s) = {Head(s)} \cup ToSet(Tail(s))
<1>1. Len(s) \in Nat /\ DOMAIN s = 1..Len(s) /\ Len(s) > 0
  BY EmptySeq
<1>2. /\ Head(s) \in T /\ Tail(s) \in Seq(T)
      /\ Len(Tail(s)) = Len(s) - 1
      /\ Head(s) = s[1] /\ 1 \in DOMAIN s
      /\ \A i \in 1..Len(Tail(s)) : Tail(s)[i] = s[i + 1]
  BY <1>1, HeadTailProperties
<1>3. PICK t \in Seq(T) : t = Tail(s)
  BY <1>2
<1>4. DOMAIN t = 1..(Len(s) - 1)
  BY <1>2, <1>3
<1>5. \A i \in DOMAIN t : i + 1 \in DOMAIN s /\ t[i] = s[i + 1]
  BY <1>1, <1>2, <1>3, <1>4
<1>6. \A j \in DOMAIN s : j = 1 \/ (j - 1 \in DOMAIN t /\ t[j - 1] = s[j])
  BY <1>1, <1>4, <1>5
<1>7. {s[i] : i \in DOMAIN s} = {s[1]} \cup {t[i] : i \in DOMAIN t}
  BY <1>2, <1>5, <1>6
<1> QED BY <1>2, <1>3, <1>5, <1>7 DEF ToSet
-----------------------------------------------------------------------------
(* A recursive function on the numbers up to n, each value made from the   *)
(* one before.                                                             *)
Recurs(g, base, step, n) ==
  g[0] = base /\ \A k \in 1..n : g[k] = step[k][g[k - 1]]

LEMMA StepsExist ==
  ASSUME NEW n \in Nat, NEW V, NEW base \in V, NEW step \in [1..n -> [V -> V]]
  PROVE  \E g \in [0..n -> V] : Recurs(g, base, step, n)
<1> DEFINE Steps(g, m) == /\ g \in [0..m -> V] /\ g[0] = base
                          /\ \A k \in 1..m : g[k] = step[k][g[k - 1]]
           P == {m \in 0..n : \E g : Steps(g, m)}
<1>1. 0 \in P
  <2> DEFINE g == [k \in 0..0 |-> base]
  <2>1. Steps(g, 0)
    OBVIOUS
  <2> HIDE DEF g, Steps
  <2> QED BY <2>1
<1>2. ASSUME NEW m \in 1..n, m - 1 \in P
      PROVE  m \in P
  <2>1. PICK g : Steps(g, m - 1)
    BY <1>2
  <2>2. m \in Nat /\ m - 1 \in 0..(m - 1) /\ 0 \in 0..(m - 1)
    OBVIOUS
  <2>3. PICK w : w = step[m][g[m - 1]]
    OBVIOUS
  <2>4. w \in V
    BY <2>1, <2>2, <2>3
  <2> DEFINE h == [k \in 0..m |-> IF k = m THEN w ELSE g[k]]
  <2>5. \A k \in 0..m : k # m => k \in 0..(m - 1)
    BY <2>2
  <2>6. h \in [0..m -> V]
    BY <2>1, <2>4, <2>5
  <2>7. \A k \in 0..(m - 1) : h[k] = g[k]
    BY <2>2
  <2>8. h[0] = base
    BY <2>1, <2>2, <2>7
  <2>9. h[m] = w
    BY <2>2
  <2> HIDE DEF h
  <2>10. ASSUME NEW k \in 1..m
         PROVE  h[k] = step[k][h[k - 1]]
    <3>1. CASE k = m
      BY <2>2, <2>3, <2>7, <2>9, <3>1
    <3>2. CASE k # m
      <4>1. k \in 1..(m - 1) /\ k \in 0..(m - 1) /\ k - 1 \in 0..(m - 1)
        BY <2>2, <3>2
      <4> QED BY <2>1, <2>7, <4>1
    <3> QED BY <3>1, <3>2
  <2>11. Steps(h, m)
    BY <2>6, <2>8, <2>10
  <2> HIDE DEF Steps
  <2> QED BY <2>11
<1> HIDE DEF P
<1>3. 0..n \subseteq P
  BY <1>1, <1>2, CountingUp
<1>4. n \in P
  BY <1>3
<1> QED BY <1>4 DEF P, Recurs

(* The sum of a function's values.                                         *)
LEMMA SumFunctionSums ==
  ASSUME NEW f, IsFiniteSet(DOMAIN f), \A x \in DOMAIN f : f[x] \in Nat
  PROVE  \E g : Sums(g, f, DOMAIN f) /\ SumFunction(f) = g[DOMAIN f]
<1>1. SumFunction(f) = SumOf(f, DOMAIN f)
  BY DEF SumFunction, SumFunctionOnSet, FoldFunctionOnSet, MapThenFoldSet, SumOf, One
<1> QED BY <1>1, SumSums

(* Between as many times the least value and as many times the greatest.   *)
LEMMA SumBetween ==
  ASSUME NEW f, NEW S, DOMAIN f = S, IsFiniteSet(S), NEW a \in Nat, NEW b \in Nat,
         \A x \in S : f[x] \in a..b
  PROVE  SumFunction(f) \in (a * Cardinality(S))..(b * Cardinality(S))
<1>1. PICK g : Sums(g, f, S) /\ SumFunction(f) = g[S]
  BY SumFunctionSums
<1> DEFINE Good(T) == g[T] \in (a * Cardinality(T))..(b * Cardinality(T))
           Bad == {T \in SUBSET S : ~Good(T)}
           Sizes == {Cardinality(T) : T \in Bad}
<1>2. \A T \in SUBSET S : IsFiniteSet(T) /\ Cardinality(T) \in Nat
  BY FS_Subset, FS_CardinalityType
<1>3. Bad = {}
  <2> SUFFICES ASSUME Bad # {} PROVE FALSE
    OBVIOUS
  <2>1. Sizes \in SUBSET Nat /\ Sizes # {}
    BY <1>2
  <2>2. PICK n \in Sizes : \A m \in Sizes : n <= m
    BY <2>1, LeastNumber
  <2>3. PICK T \in Bad : Cardinality(T) = n
    BY <2>2
  <2>4. T # {}
    <3> SUFFICES ASSUME T = {} PROVE FALSE
      OBVIOUS
    <3>1. g[T] = 0
      BY <1>1 DEF Sums
    <3>2. Cardinality(T) = 0
      BY FS_EmptySet
    <3>3. a * 0 = 0 /\ b * 0 = 0
      OBVIOUS
    <3> QED BY <2>3, <3>1, <3>2, <3>3
  <2>5. PICK x : x = One(T)
    OBVIOUS
  <2>6. x \in T /\ x \in S
    BY <2>4, <2>5 DEF One
  <2>7. Cardinality(T \ {x}) = n - 1 /\ n \in Nat /\ n - 1 \in Nat
    <3>1. Cardinality(T \ {x}) = n - 1 /\ n \in Nat
      BY <1>2, <2>3, <2>6, FS_RemoveElement
    <3>2. Cardinality(T \ {x}) \in Nat
      BY <1>2
    <3> QED BY <3>1, <3>2
  <2>8. Good(T \ {x})
    <3> SUFFICES ASSUME T \ {x} \in Bad PROVE FALSE
      OBVIOUS
    <3>1. Cardinality(T \ {x}) \in Sizes
      OBVIOUS
    <3>2. n <= n - 1
      BY <2>2, <2>7, <3>1
    <3> QED BY <2>7, <3>2
  <2>9. g[T] = f[x] + g[T \ {x}]
    BY <1>1, <2>4, <2>5 DEF Sums
  <2>10. Good(T)
    <3>1. PICK v, w : v = g[T \ {x}] /\ w = f[x]
      OBVIOUS
    <3>2. v \in (a * (n - 1))..(b * (n - 1)) /\ w \in a..b
      BY <2>6, <2>7, <2>8, <3>1
    <3>3. a * (n - 1) = a * n - a /\ b * (n - 1) = b * n - b
      BY <2>7
    <3>4. PICK an, bn \in Int : an = a * n /\ bn = b * n
      BY <2>7
    <3>5. v + w \in an..bn
      BY <3>2, <3>3, <3>4
    <3>6. g[T] = v + w
      BY <2>9, <3>1, <3>2, <3>3, <3>4
    <3> QED BY <2>3, <3>4, <3>5, <3>6
  <2> QED BY <2>10
<1> QED BY <1>1, <1>3

(* Three values, one after the other.                                      *)
LEMMA SumThree ==
  ASSUME NEW f, NEW a, NEW b, NEW c, a # b, a # c, b # c, DOMAIN f = {a, b, c},
         f[a] \in Nat, f[b] \in Nat, f[c] \in Nat
  PROVE  SumFunction(f) = f[a] + f[b] + f[c]
<1>1. PICK S : S = {a, b, c}
  OBVIOUS
<1>2. IsFiniteSet(S)
  <2>1. S = ({} \cup {a} \cup {b}) \cup {c}
    BY <1>1
  <2> QED BY <2>1, FS_EmptySet, FS_AddElement
<1>3. PICK g : Sums(g, f, S) /\ SumFunction(f) = g[S]
  BY <1>1, <1>2, SumFunctionSums
<1>4. \A T \in SUBSET S : T # {} => One(T) \in T /\ g[T] = f[One(T)] + g[T \ {One(T)}]
  BY <1>3 DEF Sums, One
<1>5. g[{}] = 0
  BY <1>3 DEF Sums
<1>6. ASSUME NEW x \in S
      PROVE  g[{x}] = f[x]
  <2>1. {x} \in SUBSET S /\ {x} \ {x} = {} /\ f[x] \in Nat
    BY <1>1
  <2>2. One({x}) = x /\ g[{x}] = f[One({x})] + g[{x} \ {One({x})}]
    BY <1>4, <2>1
  <2>3. g[{x}] = f[x] + g[{}]
    BY <2>1, <2>2
  <2> QED BY <1>5, <2>1, <2>3
<1>7. ASSUME NEW x \in S, NEW y \in S, x # y
      PROVE  g[{x, y}] = f[x] + f[y]
  <2>1. {x, y} \in SUBSET S /\ {x, y} \ {x} = {y} /\ {x, y} \ {y} = {x}
    BY <1>7
  <2>2. f[x] \in Nat /\ f[y] \in Nat
    BY <1>1
  <2>3. PICK o : o = One({x, y})
    OBVIOUS
  <2>4. o \in {x, y} /\ g[{x, y}] = f[o] + g[{x, y} \ {o}]
    BY <1>4, <2>1, <2>3
  <2>5. g[{x}] = f[x] /\ g[{y}] = f[y]
    BY <1>6
  <2>6. CASE o = x
    BY <2>1, <2>4, <2>5, <2>6
  <2>7. CASE o = y
    <3>1. g[{x, y}] = f[y] + f[x]
      BY <2>1, <2>4, <2>5, <2>7
    <3> QED BY <2>2, <3>1
  <2> QED BY <2>4, <2>6, <2>7
<1>8. S \ {a} = {b, c} /\ S \ {b} = {a, c} /\ S \ {c} = {a, b}
  BY <1>1
<1>9. g[{b, c}] = f[b] + f[c] /\ g[{a, c}] = f[a] + f[c] /\ g[{a, b}] = f[a] + f[b]
  BY <1>1, <1>7
<1>10. PICK o : o \in {a, b, c} /\ g[S] = f[o] + g[S \ {o}]
  BY <1>1, <1>4
<1>11. PICK u, v, w \in Nat : u = f[a] /\ v = f[b] /\ w = f[c]
  OBVIOUS
<1>12. \/ g[S] = f[a] + (f[b] + f[c])
       \/ g[S] = f[b] + (f[a] + f[c])
       \/ g[S] = f[c] + (f[a] + f[b])
  BY <1>8, <1>9, <1>10
<1>13. g[S] = u + (v + w) \/ g[S] = v + (u + w) \/ g[S] = w + (u + v)
  BY <1>11, <1>12
<1>14. g[S] = u + v + w
  BY <1>13
<1> QED BY <1>3, <1>11, <1>14

-----------------------------------------------------------------------------
LEMMA ProductMonotone ==
  ASSUME NEW m \in Nat, NEW n \in Nat, m <= n
  PROVE  m * m <= n * n /\ m * m \in Nat
<1>1. PICK d \in Nat : n = m + d
  <2>1. n - m \in Nat /\ n = m + (n - m)
    OBVIOUS
  <2> QED BY <2>1
<1>2. n * n = m * m + 2 * (m * d) + d * d
  BY <1>1
<1>3. m * m \in Nat /\ m * d \in Nat /\ d * d \in Nat
  OBVIOUS
<1> QED BY <1>2, <1>3

(* A square number has one root, and one number is the rounded root.       *)
LEMMA RootUnique ==
  ASSUME NEW m \in Nat, NEW n \in Nat, m * m <= n * n, n * n < (m + 1) * (m + 1)
  PROVE  m = n
<1>1. ASSUME m < n PROVE FALSE
  <2>1. (m + 1) * (m + 1) <= n * n
    BY <1>1, ProductMonotone
  <2>2. n * n \in Nat /\ (m + 1) * (m + 1) \in Nat
    OBVIOUS
  <2> QED BY <2>1, <2>2
<1>2. ASSUME n < m PROVE FALSE
  <2>1. (n + 1) * (n + 1) <= m * m
    BY <1>2, ProductMonotone
  <2>2. (n + 1) * (n + 1) = n * n + 2 * n + 1
    OBVIOUS
  <2>3. n * n \in Nat /\ m * m \in Nat
    OBVIOUS
  <2> QED BY <2>1, <2>2, <2>3
<1> QED BY <1>1, <1>2

LEMMA SquareUnique ==
  ASSUME NEW m \in Nat, NEW n \in Nat, m * m = n * n
  PROVE  m = n
<1>1. (m + 1) * (m + 1) = m * m + 2 * m + 1 /\ m * m \in Nat
  OBVIOUS
<1>2. n * n < (m + 1) * (m + 1) /\ m * m <= n * n
  BY <1>1
<1> QED BY <1>2, RootUnique

LEMMA RootBelow ==
  ASSUME NEW n \in Nat
  PROVE  n <= n * n /\ n * n \in Nat /\ n * n < (n + 1) * (n + 1)
<1>1. n * n \in Nat /\ (n + 1) * (n + 1) = n * n + 2 * n + 1
  OBVIOUS
<1>2. n <= n * n
  <2>1. CASE n = 0
    BY <2>1
  <2>2. CASE n # 0
    <3>1. n * n = n + n * (n - 1) /\ n * (n - 1) \in Nat
      <4>1. n - 1 \in Nat
        BY <2>2
      <4> QED BY <4>1
    <3> QED BY <1>1, <3>1
  <2> QED BY <2>1, <2>2
<1> QED BY <1>1, <1>2

(* The average of values from 0 to b is one of them.                       *)
LEMMA AverageBetween ==
  ASSUME NEW k \in Nat, k # 0, NEW b \in Nat, NEW s \in 0..(b * k)
  PROVE  s \div k \in 0..b
<1>1. PICK q, r \in Int : q = s \div k /\ r = s % k
  OBVIOUS
<1>2. s = q * k + r /\ 0 <= r /\ r < k
  BY <1>1
<1>3. q >= 0
  <2> SUFFICES ASSUME ~(q >= 0) PROVE FALSE
    OBVIOUS
  <2>1. PICK e \in Nat : q = -1 - e
    <3>1. -1 - q \in Nat /\ q = -1 - (-1 - q)
      OBVIOUS
    <3> QED BY <3>1
  <2>2. q * k = -k - e * k /\ e * k \in Nat
    BY <2>1
  <2> QED BY <1>2, <2>2
<1>4. q <= b
  <2> SUFFICES ASSUME ~(q <= b) PROVE FALSE
    OBVIOUS
  <2>1. PICK e \in Nat : q = b + 1 + e
    <3>1. q - b - 1 \in Nat /\ q = b + 1 + (q - b - 1)
      OBVIOUS
    <3> QED BY <3>1
  <2>2. q * k = b * k + k + e * k /\ e * k \in Nat
    BY <2>1
  <2>3. PICK c, d \in Int : c = b * k /\ d = e * k
    OBVIOUS
  <2>4. s <= c /\ s = c + k + d + r /\ d >= 0
    BY <1>2, <2>2, <2>3
  <2> QED BY <1>2, <2>4
<1> QED BY <1>1, <1>3, <1>4

LEMMA PowersOfTwo ==
  /\ 2 ^ 0 = 1
  /\ \A k \in Nat : 2 ^ k \in Nat \ {0} /\ 2 ^ (k + 1) = 2 * 2 ^ k
<1>1. 2 ^ 0 = 1
  <2>1. SUBSET {} = {{}}
    OBVIOUS
  <2>2. Cardinality({{}}) = 1 /\ IsFiniteSet({}) /\ Cardinality({}) = 0
    BY FS_Singleton, FS_EmptySet
  <2> QED BY <2>1, <2>2, FS_SUBSET
<1>2. ASSUME NEW k \in Nat
      PROVE  2 ^ k \in Nat /\ 2 ^ (k + 1) = 2 * 2 ^ k
  <2> DEFINE S == 1..k
             T == 1..(k + 1)
             A == SUBSET S
             B == {U \cup {k + 1} : U \in A}
  <2>1. /\ IsFiniteSet(S) /\ Cardinality(S) = k
        /\ IsFiniteSet(T) /\ Cardinality(T) = k + 1
    BY FS_Interval
  <2>2. /\ IsFiniteSet(A) /\ Cardinality(A) = 2 ^ k
        /\ IsFiniteSet(SUBSET T) /\ Cardinality(SUBSET T) = 2 ^ (k + 1)
    BY <2>1, FS_SUBSET
  <2>3. Cardinality(A) \in Nat
    BY <2>2, FS_CardinalityType
  <2>4. k + 1 \notin S /\ T = S \cup {k + 1}
    OBVIOUS
  <2> HIDE DEF S, T
  <2>5. SUBSET T = A \cup B
    <3>1. ASSUME NEW U \in SUBSET T
          PROVE  U \in A \cup B
      <4>1. CASE k + 1 \in U
        <5>1. U \ {k + 1} \in A /\ U = (U \ {k + 1}) \cup {k + 1}
          BY <2>4, <4>1
        <5> QED BY <5>1
      <4>2. CASE k + 1 \notin U
        BY <2>4, <4>2
      <4> QED BY <4>1, <4>2
    <3>2. A \cup B \subseteq SUBSET T
      BY <2>4
    <3> QED BY <3>1, <3>2
  <2>6. A \cap B = {}
    BY <2>4
  <2> DEFINE f == [U \in A |-> U \cup {k + 1}]
  <2>7. f \in Bijection(A, B)
    <3>1. f \in [A -> B]
      OBVIOUS
    <3>2. \A U, W \in A : f[U] = f[W] => U = W
      <4> SUFFICES ASSUME NEW U \in A, NEW W \in A, f[U] = f[W]
                   PROVE  U = W
        OBVIOUS
      <4>1. U \cup {k + 1} = W \cup {k + 1} /\ k + 1 \notin U /\ k + 1 \notin W
        BY <2>4
      <4> QED BY <4>1
    <3>3. \A W \in B : \E U \in A : f[U] = W
      OBVIOUS
    <3> QED BY <3>1, <3>2, <3>3 DEF Bijection, Injection, Surjection, IsInjective
  <2>8. IsFiniteSet(B) /\ Cardinality(B) = Cardinality(A)
    BY <2>2, <2>7, FS_Bijection DEF ExistsBijection
  <2>9. Cardinality(A \cup B) = Cardinality(A) + Cardinality(B) - Cardinality(A \cap B)
    BY <2>2, <2>8, FS_Union
  <2>10. Cardinality(A \cap B) = 0
    BY <2>6, FS_EmptySet
  <2> HIDE DEF A, B
  <2>11. PICK a \in Nat : a = Cardinality(A)
    BY <2>3
  <2>12. Cardinality(SUBSET T) = a + a - 0
    <3>1. Cardinality(A \cup B) = a + a - 0
      BY <2>8, <2>9, <2>10, <2>11
    <3> QED BY <2>5, <3>1
  <2> QED BY <2>2, <2>11, <2>12
<1>3. {k \in Nat : 2 ^ k = 0} = {}
  <2> SUFFICES ASSUME {k \in Nat : 2 ^ k = 0} # {} PROVE FALSE
    OBVIOUS
  <2>1. PICK m \in Nat : 2 ^ m = 0 /\ \A k \in Nat : 2 ^ k = 0 => m <= k
    <3>1. PICK I : I = {k \in Nat : 2 ^ k = 0}
      OBVIOUS
    <3>2. PICK m \in I : \A i \in I : m <= i
      BY <3>1, LeastNumber
    <3> QED BY <3>1, <3>2
  <2>2. m # 0
    <3> SUFFICES ASSUME m = 0 PROVE FALSE
      OBVIOUS
    <3>1. 2 ^ m = 2 ^ 0
      BY Zenon
    <3> QED BY <1>1, <2>1, <3>1
  <2>3. m - 1 \in Nat /\ ~(m <= m - 1) /\ (m - 1) + 1 = m
    BY <2>2
  <2>4. 2 ^ (m - 1) \in Nat /\ 2 ^ m = 2 * 2 ^ (m - 1)
    BY <1>2, <2>3
  <2>5. 2 ^ (m - 1) # 0
    BY <2>1, <2>3
  <2>6. PICK a \in Nat : a = 2 ^ (m - 1)
    BY <2>4
  <2>7. 2 ^ m = 2 * a /\ a # 0
    BY <2>4, <2>5, <2>6
  <2> QED BY <2>1, <2>7
<1> QED BY <1>1, <1>2, <1>3
=============================================================================
