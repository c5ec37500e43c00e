-------------------------- MODULE BigmulProduct_proofs -------------------------
(***************************************************************************)
(* The coprocessor multiplies: its carries are exact and what a program    *)
(* sees of LDBM and BIGMUL is what BigMultiply promises, for every number  *)
(* of limbs, every batch size, every word size and all operands.           *)
(*                                                                         *)
(* The proofs need operand sizes that fit the caches (as those of          *)
(* BigmulUnit_proofs do), run loops that wait for the unit, and doublewords *)
(* wide enough for the carry out of a diagonal: CarryRoom, which 64 limbs  *)
(* of 64 bits meet with much to spare.                                     *)
(*                                                                         *)
(* First the sums: SumFunction is a recursive CHOOSE, so that it adds up   *)
(* in any order has to be proved, by induction on the set summed over.     *)
(***************************************************************************)
EXTENDS BigmulUnit_proofs, FiniteSetTheorems, WellFoundedInduction

(* A set of numbers that has 0 and the successor of each of its members has *)
(* them all.                                                                *)
LEMMA NatSet ==
  ASSUME NEW S \in SUBSET Nat, 0 \in S, \A n \in S : n + 1 \in S
  PROVE  S = Nat
<1> DEFINE Less == OpToRel(<, Nat)
           T    == Nat \ S
<1>1. SUFFICES ASSUME T # {} PROVE FALSE
  OBVIOUS
<1>2. IsWellFoundedOn(Less, Nat)
  BY NatLessThanWellFounded
<1>3. PICK x \in T : \A y \in T : <<y, x>> \notin Less
  <2> HIDE DEF Less, T
  <2>1. T \subseteq Nat /\ T # {}
    BY <1>1 DEF T
  <2> QED
    BY <1>2, <2>1, WFMin, Zenon
<1>4. x - 1 \in Nat /\ x - 1 \notin S
  <2>1. x \in Nat /\ x \notin S
    BY <1>3
  <2>2. x # 0
    BY <2>1
  <2>3. x - 1 \in Nat /\ (x - 1) + 1 = x
    BY <2>1, <2>2
  <2> QED
    BY <2>1, <2>3
<1>5. <<x - 1, x>> \in Less
  BY <1>3, <1>4 DEF OpToRel
<1> QED
  BY <1>3, <1>4, <1>5

(* The element that a fold takes first. *)
Pick(s) == CHOOSE x \in s : TRUE

(* What it leaves is smaller. *)
LEMMA PickLess ==
  ASSUME NEW S, IsFiniteSet(S), S # {}
  PROVE  /\ Pick(S) \in S
         /\ IsFiniteSet(S \ {Pick(S)})
         /\ Cardinality(S) \in Nat /\ Cardinality(S \ {Pick(S)}) \in Nat
         /\ Cardinality(S) = Cardinality(S \ {Pick(S)}) + 1
<1>1. Pick(S) \in S
  BY DEF Pick
<1>2. /\ IsFiniteSet(S \ {Pick(S)})
      /\ Cardinality(S \ {Pick(S)}) = Cardinality(S) - 1
  BY <1>1, FS_RemoveElement
<1>3. Cardinality(S) \in Nat /\ Cardinality(S \ {Pick(S)}) \in Nat
  BY <1>2, FS_CardinalityType
<1> QED
  BY <1>1, <1>2, <1>3

(* g folds h over the subsets of S. *)
Folds(g, S, T, base, h) ==
  /\ g \in [SUBSET S -> T]
  /\ \A u \in SUBSET S :
       g[u] = IF u = {} THEN base ELSE h[<<Pick(u), g[u \ {Pick(u)}]>>]

(* Every step on values of a set T can be folded. *)
LEMMA FoldExists ==
  ASSUME NEW S, IsFiniteSet(S), NEW T, NEW base \in T, NEW h \in [S \X T -> T]
  PROVE  \E g : Folds(g, S, T, base, h)
<1> DEFINE Step(g, u) == IF u = {} THEN base ELSE h[<<Pick(u), g[u \ {Pick(u)}]>>]
           N == {n \in Nat : \E g \in [SUBSET S -> T] : \A u \in SUBSET S :
                               Cardinality(u) <= n => g[u] = Step(g, u)}
<1>0. ASSUME NEW u \in SUBSET S PROVE IsFiniteSet(u) /\ Cardinality(u) \in Nat
  BY FS_Subset, FS_CardinalityType
<1>1. 0 \in N
  <2> DEFINE g == [u \in SUBSET S |-> base]
  <2>1. g \in [SUBSET S -> T]
    OBVIOUS
  <2>2. ASSUME NEW u \in SUBSET S, Cardinality(u) <= 0 PROVE g[u] = Step(g, u)
    <3>1. u = {}
      BY <1>0, <2>2, FS_EmptySet
    <3> QED
      BY <3>1
  <2> HIDE DEF g
  <2> QED
    BY <2>1, <2>2
<1>2. ASSUME NEW n \in N PROVE n + 1 \in N
  <2>0. n \in Nat
    OBVIOUS
  <2>1. PICK g \in [SUBSET S -> T] : \A u \in SUBSET S :
                Cardinality(u) <= n => g[u] = Step(g, u)
    OBVIOUS
  <2> DEFINE k == [u \in SUBSET S |-> Step(g, u)]
  <2>2. ASSUME NEW u \in SUBSET S, u # {} PROVE Pick(u) \in S /\ u \ {Pick(u)} \in SUBSET S
    BY <2>2, <1>0, PickLess
  <2>3. k \in [SUBSET S -> T]
    <3>1. ASSUME NEW u \in SUBSET S PROVE Step(g, u) \in T
      BY <2>2
    <3> QED
      BY <3>1
  <2>4. ASSUME NEW u \in SUBSET S, Cardinality(u) <= n + 1 PROVE k[u] = Step(k, u)
    <3>1. CASE u = {}
      BY <3>1
    <3>2. CASE u # {}
      <4> DEFINE w == u \ {Pick(u)}
      <4>1. w \in SUBSET S
        BY <2>2, <3>2
      <4>2. Cardinality(w) <= n
        BY <1>0, <2>0, <2>4, <3>2, PickLess
      <4>3. k[w] = g[w]
        BY <2>1, <4>1, <4>2
      <4> QED
        BY <3>2, <4>3
    <3> QED
      BY <3>1, <3>2
  <2> HIDE DEF k, Step
  <2> QED
    BY <2>0, <2>3, <2>4
<1> HIDE DEF N
<1>3. N = Nat
  <2>1. N \in SUBSET Nat
    BY DEF N
  <2> QED
    BY <1>1, <1>2, <2>1, NatSet
<1>4. Cardinality(S) \in N
  BY <1>3, FS_CardinalityType
<1>5. PICK g \in [SUBSET S -> T] : \A u \in SUBSET S :
              Cardinality(u) <= Cardinality(S) => g[u] = Step(g, u)
  BY <1>4 DEF N
<1>6. ASSUME NEW u \in SUBSET S PROVE Cardinality(u) <= Cardinality(S)
  BY FS_Subset
<1> QED
  BY <1>5, <1>6 DEF Folds

(* A fold has one solution only. *)
LEMMA FoldUnique ==
  ASSUME NEW S, IsFiniteSet(S), NEW f, NEW g, f[{}] = g[{}],
         \A u \in SUBSET S :
            u # {} /\ f[u \ {Pick(u)}] = g[u \ {Pick(u)}] => f[u] = g[u]
  PROVE  \A u \in SUBSET S : f[u] = g[u]
<1> DEFINE N == {n \in Nat : \A u \in SUBSET S : Cardinality(u) = n => f[u] = g[u]}
<1>0. ASSUME NEW u \in SUBSET S PROVE IsFiniteSet(u) /\ Cardinality(u) \in Nat
  BY FS_Subset, FS_CardinalityType
<1>1. 0 \in N
  BY <1>0, FS_EmptySet
<1>2. ASSUME NEW n \in N PROVE n + 1 \in N
  <2> SUFFICES ASSUME NEW u \in SUBSET S, Cardinality(u) = n + 1 PROVE f[u] = g[u]
    OBVIOUS
  <2>0. n \in Nat /\ Cardinality({}) = 0
    BY FS_EmptySet
  <2>1. u # {}
    BY <2>0
  <2>2. Cardinality(u \ {Pick(u)}) = n
    BY <1>0, <2>1, PickLess
  <2>3. f[u \ {Pick(u)}] = g[u \ {Pick(u)}]
    BY <2>2
  <2> QED
    BY <2>1, <2>3
<1> HIDE DEF N
<1>3. N = Nat
  <2>1. N \in SUBSET Nat
    BY DEF N
  <2> QED
    BY <1>1, <1>2, <2>1, NatSet
<1> QED
  BY <1>0, <1>3 DEF N

(* A property of the empty set that adding an element keeps holds of every  *)
(* finite set.                                                              *)
LEMMA FiniteInduct ==
  ASSUME NEW S, IsFiniteSet(S), NEW F, {} \in F,
         \A u \in SUBSET S : \A x \in S : u \in F /\ x \notin u => u \cup {x} \in F
  PROVE  S \in F
<1> DEFINE N == {n \in Nat : \A u \in SUBSET S : Cardinality(u) = n => u \in F}
<1>0. ASSUME NEW u \in SUBSET S PROVE IsFiniteSet(u) /\ Cardinality(u) \in Nat
  BY FS_Subset, FS_CardinalityType
<1>1. 0 \in N
  BY <1>0, FS_EmptySet
<1>2. ASSUME NEW n \in N PROVE n + 1 \in N
  <2> SUFFICES ASSUME NEW u \in SUBSET S, Cardinality(u) = n + 1 PROVE u \in F
    OBVIOUS
  <2>0. n \in Nat /\ Cardinality({}) = 0
    BY FS_EmptySet
  <2>1. u # {}
    BY <2>0
  <2>2. /\ Cardinality(u \ {Pick(u)}) = n
        /\ Pick(u) \in u
    BY <1>0, <2>1, PickLess
  <2>3. u \ {Pick(u)} \in F
    BY <2>2
  <2>4. (u \ {Pick(u)}) \cup {Pick(u)} = u
    BY <2>2
  <2>5. u \ {Pick(u)} \in SUBSET S /\ Pick(u) \in S /\ Pick(u) \notin u \ {Pick(u)}
    BY <2>2
  <2> QED
    BY <2>3, <2>4, <2>5
<1> HIDE DEF N
<1>3. N = Nat
  <2>1. N \in SUBSET Nat
    BY DEF N
  <2> QED
    BY <1>1, <1>2, <2>1, NatSet
<1> QED
  BY <1>0, <1>3 DEF N

(* g sums f over the subsets of S. *)
Sums(g, S, f) ==
  /\ g \in [SUBSET S -> Int]
  /\ \A u \in SUBSET S :
       g[u] = IF u = {} THEN 0 ELSE f[Pick(u)] + g[u \ {Pick(u)}]
  /\ \A u \in SUBSET S : SumFunctionOnSet(f, u) = g[u]

(* The recursive definition of a sum has a solution, and so is one. *)
LEMMA SumSolved ==
  ASSUME NEW S, IsFiniteSet(S), NEW f, \A x \in S : f[x] \in Int
  PROVE  \E g : Sums(g, S, f)
<1> DEFINE h == [p \in S \X Int |-> f[p[1]] + p[2]]
<1>1. h \in [S \X Int -> Int] /\ 0 \in Int
  OBVIOUS
<1>2. PICK g : Folds(g, S, Int, 0, h)
  <2> HIDE DEF h
  <2> QED
    BY <1>1, FoldExists
<1>3. ASSUME NEW u \in SUBSET S, u # {}
      PROVE  g[u] = f[Pick(u)] + g[u \ {Pick(u)}]
  <2>1. Pick(u) \in S /\ g[u \ {Pick(u)}] \in Int
    BY <1>2, <1>3, FS_Subset, PickLess DEF Folds
  <2> QED
    BY <1>2, <1>3, <2>1 DEF Folds
<1>4. \A u \in SUBSET S :
         g[u] = IF u = {} THEN 0 ELSE f[Pick(u)] + g[u \ {Pick(u)}]
  BY <1>2, <1>3 DEF Folds
<1> HIDE DEF h
<1>5. ASSUME NEW v \in SUBSET S PROVE SumFunctionOnSet(f, v) = g[v]
  <2> DEFINE Rec(it) == it = [s \in SUBSET v |->
                               IF s = {} THEN 0
                               ELSE f[CHOOSE x \in s : TRUE]
                                      + it[s \ {CHOOSE x \in s : TRUE}]]
             r == [s \in SUBSET v |-> g[s]]
             it == CHOOSE it : Rec(it)
  <2>1. Rec(r)
    <3>1. ASSUME NEW s \in SUBSET v
          PROVE  r[s] = IF s = {} THEN 0 ELSE f[Pick(s)] + r[s \ {Pick(s)}]
      BY <1>4
    <3> QED
      BY <3>1 DEF Pick
  <2>2. SumFunctionOnSet(f, v) = it[v]
    BY DEF SumFunctionOnSet, FoldFunctionOnSet, MapThenFoldSet
  <2>3. Rec(it)
    <3> HIDE DEF Rec, r
    <3> QED
      BY <2>1
  <2> HIDE DEF it
  <2>4. \A s \in SUBSET v : it[s] = IF s = {} THEN 0 ELSE f[Pick(s)] + it[s \ {Pick(s)}]
    BY <2>3 DEF Pick
  <2>5. it[{}] = g[{}]
    BY <2>4, <1>4
  <2>6. \A u \in SUBSET v :
          u # {} /\ it[u \ {Pick(u)}] = g[u \ {Pick(u)}] => it[u] = g[u]
    BY <2>4, <1>4
  <2>7. IsFiniteSet(v)
    BY FS_Subset
  <2>8. it[v] = g[v]
    <3> HIDE DEF Rec
    <3> QED
      BY <2>5, <2>6, <2>7, FoldUnique
  <2> QED
    BY <2>2, <2>8
<1> QED
  BY <1>2, <1>4, <1>5 DEF Folds, Sums

(* The sum takes its elements in any order. *)
LEMMA SumRemove ==
  ASSUME NEW S, IsFiniteSet(S), NEW f, \A x \in S : f[x] \in Int, NEW y \in S
  PROVE  SumFunctionOnSet(f, S) = f[y] + SumFunctionOnSet(f, S \ {y})
<1>1z. PICK g : Sums(g, S, f)
  BY SumSolved
<1>1. /\ g \in [SUBSET S -> Int]
      /\ \A u \in SUBSET S :
           g[u] = IF u = {} THEN 0 ELSE f[Pick(u)] + g[u \ {Pick(u)}]
      /\ \A u \in SUBSET S : SumFunctionOnSet(f, u) = g[u]
  BY <1>1z DEF Sums
<1> DEFINE N == {n \in Nat : \A u \in SUBSET S : Cardinality(u) = n =>
                               \A x \in u : g[u] = f[x] + g[u \ {x}]}
<1>2. ASSUME NEW u \in SUBSET S PROVE IsFiniteSet(u) /\ Cardinality(u) \in Nat
  BY FS_Subset, FS_CardinalityType
<1>3. 0 \in N
  BY <1>2, FS_EmptySet
<1>4. ASSUME NEW n \in N PROVE n + 1 \in N
  <2> SUFFICES ASSUME NEW u \in SUBSET S, Cardinality(u) = n + 1, NEW x \in u
               PROVE  g[u] = f[x] + g[u \ {x}]
    OBVIOUS
  <2> DEFINE c == Pick(u)
  <2>0. u # {} /\ c \in u /\ n \in Nat
    BY <1>2, PickLess
  <2>1. g[u] = f[c] + g[u \ {c}]
    BY <1>1, <2>0
  <2>2. CASE x = c
    BY <2>1, <2>2
  <2>3. CASE x # c
    <3>1. /\ u \ {c} \in SUBSET S /\ u \ {x} \in SUBSET S
          /\ Cardinality(u \ {c}) = n /\ Cardinality(u \ {x}) = n
      <4>1. /\ IsFiniteSet(u) /\ Cardinality(u \ {c}) = Cardinality(u) - 1
            /\ Cardinality(u \ {x}) = Cardinality(u) - 1
        BY <1>2, <2>0, FS_RemoveElement
      <4> QED
        BY <2>0, <4>1
    <3>2. x \in u \ {c} /\ c \in u \ {x}
      BY <2>0, <2>3
    <3>3. g[u \ {c}] = f[x] + g[(u \ {c}) \ {x}]
      BY <3>1, <3>2
    <3>4. g[u \ {x}] = f[c] + g[(u \ {x}) \ {c}]
      BY <3>1, <3>2
    <3>5. (u \ {c}) \ {x} = (u \ {x}) \ {c} /\ (u \ {x}) \ {c} \in SUBSET S
      OBVIOUS
    <3>6. f[c] \in Int /\ f[x] \in Int /\ g[(u \ {x}) \ {c}] \in Int
      BY <1>1, <2>0, <3>5
    <3> DEFINE w == (u \ {x}) \ {c}
    <3>7. g[u] = f[c] + (f[x] + g[w]) /\ g[u \ {x}] = f[c] + g[w]
      BY <2>1, <3>3, <3>4, <3>5
    <3>8. f[c] \in Int /\ f[x] \in Int /\ g[w] \in Int
      BY <3>6
    <3> HIDE DEF c, w
    <3> QED
      BY <3>7, <3>8
  <2> QED
    BY <2>2, <2>3
<1> HIDE DEF N
<1>5. N = Nat
  <2>1. N \in SUBSET Nat
    BY DEF N
  <2> QED
    BY <1>3, <1>4, <2>1, NatSet
<1>6. g[S] = f[y] + g[S \ {y}]
  BY <1>2, <1>5 DEF N
<1> QED
  BY <1>1, <1>6

(* A sum of integers is one, that of nothing is 0, and one more element    *)
(* counts once.                                                            *)
LEMMA SumFacts ==
  ASSUME NEW S, IsFiniteSet(S), NEW f, \A x \in S : f[x] \in Int
  PROVE  /\ SumFunctionOnSet(f, S) \in Int
         /\ SumFunctionOnSet(f, {}) = 0
<1>1z. PICK g : Sums(g, S, f)
  BY SumSolved
<1>1. /\ g \in [SUBSET S -> Int]
      /\ \A u \in SUBSET S :
           g[u] = IF u = {} THEN 0 ELSE f[Pick(u)] + g[u \ {Pick(u)}]
      /\ \A u \in SUBSET S : SumFunctionOnSet(f, u) = g[u]
  BY <1>1z DEF Sums
<1> QED
  BY <1>1

(* The sum with one more element. *)
LEMMA SumAdd ==
  ASSUME NEW S, IsFiniteSet(S), NEW f, NEW y, y \notin S,
         \A x \in S \cup {y} : f[x] \in Int
  PROVE  SumFunctionOnSet(f, S \cup {y}) = f[y] + SumFunctionOnSet(f, S)
<1>1. IsFiniteSet(S \cup {y}) /\ (S \cup {y}) \ {y} = S
  BY FS_AddElement
<1> QED
  BY <1>1, SumRemove

(* Only the values on the set count. *)
LEMMA SumSame ==
  ASSUME NEW S, IsFiniteSet(S), NEW f, NEW g,
         \A x \in S : f[x] \in Int /\ g[x] = f[x]
  PROVE  SumFunctionOnSet(f, S) = SumFunctionOnSet(g, S)
<1>1z. PICK a : Sums(a, S, f)
  BY SumSolved
<1>1. /\ a \in [SUBSET S -> Int]
      /\ \A u \in SUBSET S :
           a[u] = IF u = {} THEN 0 ELSE f[Pick(u)] + a[u \ {Pick(u)}]
      /\ \A u \in SUBSET S : SumFunctionOnSet(f, u) = a[u]
  BY <1>1z DEF Sums
<1>2z. PICK b : Sums(b, S, g)
  BY SumSolved
<1>2. /\ b \in [SUBSET S -> Int]
      /\ \A u \in SUBSET S :
           b[u] = IF u = {} THEN 0 ELSE g[Pick(u)] + b[u \ {Pick(u)}]
      /\ \A u \in SUBSET S : SumFunctionOnSet(g, u) = b[u]
  BY <1>2z DEF Sums
<1>3. ASSUME NEW u \in SUBSET S, u # {}
      PROVE  f[Pick(u)] = g[Pick(u)]
  BY <1>3, FS_Subset, PickLess
<1>4. \A u \in SUBSET S : u # {} /\ a[u \ {Pick(u)}] = b[u \ {Pick(u)}] => a[u] = b[u]
  BY <1>1, <1>2, <1>3
<1>5. a[{}] = b[{}]
  BY <1>1, <1>2
<1>6. a[S] = b[S]
  BY <1>4, <1>5, FoldUnique
<1> QED
  BY <1>1, <1>2, <1>6

(* A sum of n numbers up to m is at most n * m. *)
LEMMA SumBound ==
  ASSUME NEW S, IsFiniteSet(S), NEW f, NEW m \in Nat, \A x \in S : f[x] \in 0 .. m
  PROVE  SumFunctionOnSet(f, S) \in 0 .. Cardinality(S) * m
<1> DEFINE F == {u \in SUBSET S : SumFunctionOnSet(f, u) \in 0 .. Cardinality(u) * m}
<1>1. {} \in F
  BY SumFacts, FS_EmptySet
<1>2. ASSUME NEW u \in SUBSET S, NEW x \in S, u \in F, x \notin u
      PROVE  u \cup {x} \in F
  <2>1. IsFiniteSet(u) /\ Cardinality(u) \in Nat /\ Cardinality(u \cup {x}) = Cardinality(u) + 1
    BY <1>2, FS_Subset, FS_AddElement, FS_CardinalityType
  <2>2. SumFunctionOnSet(f, u \cup {x}) = f[x] + SumFunctionOnSet(f, u)
    <3>1. \A y \in u \cup {x} : f[y] \in Int
      BY <1>2
    <3> QED
      BY <1>2, <2>1, <3>1, SumAdd
  <2> DEFINE n == Cardinality(u)
             s == SumFunctionOnSet(f, u)
             t == SumFunctionOnSet(f, u \cup {x})
             z == f[x]
  <2>3. s \in 0 .. n * m /\ z \in 0 .. m /\ n \in Nat
    BY <1>2, <2>1
  <2>4. t = z + s
    BY <2>2
  <2>5. t \in 0 .. (n + 1) * m
    <3> HIDE DEF n, s, t, z
    <3>1. (n + 1) * m = n * m + m /\ n * m \in Nat /\ s \in Nat /\ s <= n * m /\ z \in Nat /\ z <= m
      BY <2>3
    <3> DEFINE nm == n * m
    <3> HIDE DEF nm
    <3> QED
      BY <2>4, <3>1 DEF nm
  <2> QED
    BY <2>1, <2>5
<1> HIDE DEF F
<1>3. S \in F
  BY <1>1, <1>2, FiniteInduct
<1> QED
  BY <1>3 DEF F

-------------------------------------------------------------------------------
(* Numbers: the weights of their doublewords, and their digits. *)

(* The base of the doublewords. *)
LEMMA BaseIs == Base \in Nat /\ Base > 1
BY UnitAssumption

(* What the equation of Weight says of the numbers up to n. *)
WeighsUpTo(w, n) ==
  w \in [Nat -> Nat] /\ \A i \in 0 .. n : w[i] = IF i = 0 THEN 1 ELSE Base * w[i - 1]

(* The recursive definition of the weights has a solution, and so is one. *)
LEMMA WeightIs ==
  /\ Weight \in [Nat -> Nat \ {0}]
  /\ Weight[0] = 1
  /\ \A i \in Nat : Weight[i + 1] = Base * Weight[i]
<1>0. Base \in Nat /\ Base > 1
  BY BaseIs
<1> DEFINE N == {n \in Nat : \E w : WeighsUpTo(w, n)}
<1>1. 0 \in N
  <2> DEFINE w == [i \in Nat |-> 1]
  <2>1. WeighsUpTo(w, 0)
    BY DEF WeighsUpTo
  <2> HIDE DEF w
  <2> QED
    BY <2>1
<1>2. ASSUME NEW n \in N PROVE n + 1 \in N
  <2>1. n \in Nat
    OBVIOUS
  <2>2. PICK w : WeighsUpTo(w, n)
    OBVIOUS
  <2> DEFINE v == [w EXCEPT ![n + 1] = Base * w[n]]
  <2>3. v \in [Nat -> Nat]
    <3>1. Base * w[n] \in Nat
      BY <1>0, <2>1, <2>2 DEF WeighsUpTo
    <3> QED
      BY <2>2, <3>1 DEF WeighsUpTo
  <2>4. \A i \in 0 .. n : v[i] = w[i]
    BY <2>1, <2>2 DEF WeighsUpTo
  <2>5. v[n + 1] = Base * v[n]
    BY <2>1, <2>2, <2>4 DEF WeighsUpTo
  <2>6. ASSUME NEW i \in 0 .. n + 1 PROVE v[i] = IF i = 0 THEN 1 ELSE Base * v[i - 1]
    <3>1. CASE i = n + 1
      BY <2>1, <2>5, <3>1
    <3>2. CASE i \in 0 .. n
      BY <2>1, <2>2, <2>4, <3>2 DEF WeighsUpTo
    <3> QED
      BY <2>1, <3>1, <3>2
  <2>7. WeighsUpTo(v, n + 1)
    <3> HIDE DEF v
    <3> QED
      BY <2>3, <2>6 DEF WeighsUpTo
  <2> HIDE DEF v
  <2> QED
    BY <2>1, <2>7
<1> HIDE DEF N
<1>3. N = Nat
  <2>1. N \in SUBSET Nat
    BY DEF N
  <2> QED
    BY <1>1, <1>2, <2>1, NatSet
<1> DEFINE W(n) == CHOOSE w : WeighsUpTo(w, n)
<1>4. ASSUME NEW n \in Nat PROVE WeighsUpTo(W(n), n)
  <2>1. \E w : WeighsUpTo(w, n)
    BY <1>3 DEF N
  <2> QED
    BY <2>1
<1> HIDE DEF W
<1>5. ASSUME NEW n \in Nat PROVE W(n + 1)[n] = W(n)[n]
  <2> DEFINE M == {i \in Nat : i <= n => W(n + 1)[i] = W(n)[i]}
  <2>1. 0 \in M
    BY <1>4 DEF WeighsUpTo
  <2>2. ASSUME NEW i \in M PROVE i + 1 \in M
    <3> SUFFICES ASSUME i + 1 <= n PROVE W(n + 1)[i + 1] = W(n)[i + 1]
      OBVIOUS
    <3>0. i \in Nat /\ n + 1 \in Nat
      OBVIOUS
    <3>1. W(n + 1)[i] = W(n)[i]
      BY <3>0
    <3>2. W(n)[i + 1] = Base * W(n)[i]
      BY <1>4, <3>0 DEF WeighsUpTo
    <3>3. WeighsUpTo(W(n + 1), n + 1)
      BY <1>4, <3>0
    <3>4. W(n + 1)[i + 1] = Base * W(n + 1)[i]
      BY <3>0, <3>3 DEF WeighsUpTo
    <3> QED
      BY <3>1, <3>2, <3>4
  <2> HIDE DEF M
  <2>3. M = Nat
    <3>1. M \in SUBSET Nat
      BY DEF M
    <3> QED
      BY <2>1, <2>2, <3>1, NatSet
  <2> QED
    BY <2>3 DEF M
<1> DEFINE Rec(w) == w = [i \in Nat |-> IF i = 0 THEN 1 ELSE Base * w[i - 1]]
<1>6. \E w : Rec(w)
  <2> DEFINE w == [i \in Nat |-> W(i)[i]]
  <2>1. ASSUME NEW i \in Nat PROVE w[i] = IF i = 0 THEN 1 ELSE Base * w[i - 1]
    <3>1. CASE i = 0
      <4>1. WeighsUpTo(W(0), 0) /\ 0 \in 0 .. 0
        BY <1>4
      <4>2. W(0)[0] = 1
        BY <4>1 DEF WeighsUpTo
      <4> QED
        BY <3>1, <4>2
    <3>2. CASE i # 0
      <4>1. i - 1 \in Nat /\ (i - 1) + 1 = i
        BY <3>2
      <4>2. W(i)[i] = Base * W(i)[i - 1]
        BY <1>4, <3>2, <4>1 DEF WeighsUpTo
      <4>3. W(i)[i - 1] = W(i - 1)[i - 1]
        BY <1>5, <4>1
      <4> QED
        BY <3>2, <4>1, <4>2, <4>3
    <3> QED
      BY <3>1, <3>2
  <2>2. w = [i \in Nat |-> IF i = 0 THEN 1 ELSE Base * w[i - 1]]
    <3>1. DOMAIN w = Nat
      OBVIOUS
    <3> DEFINE v == [i \in Nat |-> IF i = 0 THEN 1 ELSE Base * w[i - 1]]
    <3>2. ASSUME NEW i \in Nat PROVE w[i] = v[i]
      BY <2>1
    <3>3. w = [i \in Nat |-> w[i]] /\ v = [i \in Nat |-> v[i]]
      OBVIOUS
    <3> HIDE DEF w, v
    <3>4. w = v
      BY <3>2, <3>3
    <3> QED
      BY <3>4 DEF v
  <2> HIDE DEF w
  <2> QED
    BY <2>2
<1>7. Rec(Weight)
  BY <1>6, Zenon DEF Weight
<1> DEFINE V == Weight
<1> HIDE DEF V
<1>8. V = [i \in Nat |-> IF i = 0 THEN 1 ELSE Base * V[i - 1]]
  BY <1>7 DEF V
<1>9. V[0] = 1 /\ \A i \in Nat : V[i + 1] = Base * V[i]
  <2>1. ASSUME NEW i \in Nat PROVE V[i + 1] = Base * V[i]
    <3>1. i + 1 \in Nat /\ i + 1 # 0 /\ (i + 1) - 1 = i
      OBVIOUS
    <3>2. \A j \in Nat : V[j] = IF j = 0 THEN 1 ELSE Base * V[j - 1]
      BY <1>8
    <3>3. V[i + 1] = Base * V[(i + 1) - 1]
      BY <3>1, <3>2
    <3> QED
      BY <3>1, <3>3
  <2>2. V[0] = 1
    BY <1>8
  <2> QED
    BY <2>1, <2>2
<1>10. \A i \in Nat : V[i] \in Nat \ {0}
  <2> DEFINE M == {i \in Nat : V[i] \in Nat \ {0}}
  <2>1. M \in SUBSET Nat /\ 0 \in M
    BY <1>9
  <2>2. ASSUME NEW i \in M PROVE i + 1 \in M
    <3>1. V[i + 1] = Base * V[i] /\ V[i] \in Nat \ {0} /\ i \in Nat
      BY <1>9
    <3>2. Base * V[i] \in Nat \ {0}
      BY <1>0, <3>1
    <3> QED
      BY <3>1, <3>2
  <2> HIDE DEF M
  <2>3. M = Nat
    BY <2>1, <2>2, NatSet
  <2> QED
    BY <2>3 DEF M
<1>11. V \in [Nat -> Nat \ {0}]
  BY <1>8, <1>10
<1> QED
  BY <1>9, <1>11 DEF V

(* The weights multiply. *)
LEMMA WeightSum ==
  ASSUME NEW i \in Nat, NEW j \in Nat
  PROVE  Weight[i + j] = Weight[i] * Weight[j]
<1> DEFINE M == {k \in Nat : Weight[i + k] = Weight[i] * Weight[k]}
<1>0. Base \in Nat
  BY BaseIs
<1>1. 0 \in M
  BY WeightIs
<1>2. ASSUME NEW k \in M PROVE k + 1 \in M
  <2>1. k \in Nat /\ i + k \in Nat /\ (i + k) + 1 = i + (k + 1)
    OBVIOUS
  <2>2. Weight[i + (k + 1)] = Base * Weight[i + k] /\ Weight[k + 1] = Base * Weight[k]
    BY <2>1, WeightIs
  <2> DEFINE a == Weight[i]
             b == Weight[k]
             c == Weight[i + k]
  <2>3. a \in Nat /\ b \in Nat /\ c = a * b
    BY <2>1, WeightIs
  <2>4. Base * c = a * (Base * b)
    <3> HIDE DEF a, b, c
    <3> QED
      BY <1>0, <2>3
  <2> QED
    BY <2>1, <2>2, <2>4
<1> HIDE DEF M
<1>3. M = Nat
  <2>1. M \in SUBSET Nat
    BY DEF M
  <2> QED
    BY <1>1, <1>2, <2>1, NatSet
<1> QED
  BY <1>3 DEF M

(* The digits of a number have their places. *)
Digits(f, n) == \A i \in 0 .. n - 1 : f[i] \in Digit

(* A number without digits is 0, and each digit adds its share. *)
LEMMA NumberNext ==
  ASSUME NEW f, NEW n \in Nat, Digits(f, n)
  PROVE  /\ Number(f, 0) = 0
         /\ Number(f, n) \in Int
         /\ \A m \in 0 .. n - 1 : Number(f, m + 1) = Number(f, m) + f[m] * Weight[m]
<1> DEFINE T(m) == [i \in 0 .. m - 1 |-> f[i] * Weight[i]]
<1>0. ASSUME NEW m \in Nat PROVE Number(f, m) = SumFunctionOnSet(T(m), 0 .. m - 1)
  <2>1. DOMAIN T(m) = 0 .. m - 1
    OBVIOUS
  <2> QED
    BY <2>1 DEF Number, SumFunction
<1>1. ASSUME NEW i \in 0 .. n - 1 PROVE f[i] * Weight[i] \in Int
  BY WeightIs, BaseIs DEF Digits, Digit
<1>2. ASSUME NEW m \in 0 .. n
      PROVE  /\ Number(f, m) = SumFunctionOnSet(T(n), 0 .. m - 1)
             /\ Number(f, m) \in Int
  <2>1. m \in Nat /\ IsFiniteSet(0 .. m - 1)
    BY FS_Interval
  <2>2. \A i \in 0 .. m - 1 : T(m)[i] \in Int /\ T(n)[i] = T(m)[i]
    BY <1>1
  <2>3. SumFunctionOnSet(T(m), 0 .. m - 1) = SumFunctionOnSet(T(n), 0 .. m - 1)
    <3> HIDE DEF T
    <3> QED
      BY <2>1, <2>2, SumSame
  <2>4. SumFunctionOnSet(T(m), 0 .. m - 1) \in Int
    <3> HIDE DEF T
    <3> QED
      BY <2>1, <2>2, SumFacts
  <2> QED
    BY <1>0, <2>1, <2>3, <2>4
<1>3. Number(f, 0) = 0
  <2>1. 0 .. 0 - 1 = {} /\ 0 \in 0 .. n
    OBVIOUS
  <2>2. Number(f, 0) = SumFunctionOnSet(T(n), {})
    BY <1>2, <2>1
  <2>3. IsFiniteSet({}) /\ \A x \in {} : T(n)[x] \in Int
    BY FS_EmptySet
  <2> HIDE DEF T
  <2>4. SumFunctionOnSet(T(n), {}) = 0
    BY <2>3, SumFacts
  <2> QED
    BY <2>2, <2>4
<1>4. ASSUME NEW m \in 0 .. n - 1
      PROVE  Number(f, m + 1) = Number(f, m) + f[m] * Weight[m]
  <2>1. /\ m + 1 \in 0 .. n /\ m \in 0 .. n
        /\ 0 .. (m + 1) - 1 = (0 .. m - 1) \cup {m} /\ m \notin 0 .. m - 1
        /\ IsFiniteSet(0 .. m - 1)
    <3>1. m \in Nat /\ m <= n - 1
      OBVIOUS
    <3>2. 0 .. (m + 1) - 1 = (0 .. m - 1) \cup {m} /\ m \notin 0 .. m - 1
      BY <3>1
    <3>3. IsFiniteSet(0 .. m - 1)
      BY <3>1, FS_Interval
    <3> QED
      BY <3>1, <3>2, <3>3
  <2>2. \A x \in (0 .. m - 1) \cup {m} : T(n)[x] \in Int
    BY <1>1
  <2>3. SumFunctionOnSet(T(n), (0 .. m - 1) \cup {m})
          = T(n)[m] + SumFunctionOnSet(T(n), 0 .. m - 1)
    <3> HIDE DEF T
    <3> QED
      BY <2>1, <2>2, SumAdd
  <2>4. T(n)[m] = f[m] * Weight[m] /\ f[m] * Weight[m] \in Int
    BY <1>1
  <2> HIDE DEF T
  <2>5. /\ Number(f, m + 1) = SumFunctionOnSet(T(n), 0 .. (m + 1) - 1)
        /\ Number(f, m) = SumFunctionOnSet(T(n), 0 .. m - 1)
        /\ Number(f, m) \in Int
    BY <1>2, <2>1
  <2>6. Number(f, m + 1) = T(n)[m] + Number(f, m)
    BY <2>1, <2>3, <2>5
  <2> QED
    BY <2>4, <2>5, <2>6
<1>5. Number(f, n) \in Int
  <2>1. n \in 0 .. n
    OBVIOUS
  <2> QED
    BY <1>2, <2>1
<1> QED
  BY <1>3, <1>4, <1>5

(* Only the digits in use count. *)
LEMMA NumberSame ==
  ASSUME NEW f, NEW g, NEW n \in Nat, Digits(f, n), \A i \in 0 .. n - 1 : g[i] = f[i]
  PROVE  Number(g, n) = Number(f, n)
<1>1. [i \in 0 .. n - 1 |-> f[i] * Weight[i]] = [i \in 0 .. n - 1 |-> g[i] * Weight[i]]
  OBVIOUS
<1> QED
  BY <1>1 DEF Number

(* A number of n digits is less than the weight of the next one. *)
LEMMA NumberBound ==
  ASSUME NEW f, NEW n \in Nat, Digits(f, n)
  PROVE  Number(f, n) \in 0 .. Weight[n] - 1
<1>0. Base \in Nat /\ Base > 1
  BY BaseIs
<1> DEFINE M == {m \in Nat : m <= n => Number(f, m) \in 0 .. Weight[m] - 1}
<1>1. 0 \in M
  BY WeightIs, NumberNext
<1>2. ASSUME NEW m \in M PROVE m + 1 \in M
  <2> SUFFICES ASSUME m + 1 <= n
               PROVE  Number(f, m + 1) \in 0 .. Weight[m + 1] - 1
    OBVIOUS
  <2>1. m \in 0 .. n - 1 /\ m \in Nat
    OBVIOUS
  <2> DEFINE a == Number(f, m)
             w == Weight[m]
             d == f[m]
  <2>2. Number(f, m + 1) = a + d * w /\ a \in 0 .. w - 1 /\ d \in 0 .. Base - 1 /\ w \in Nat
    BY <2>1, NumberNext, WeightIs DEF Digits, Digit
  <2>3. Weight[m + 1] = Base * w
    BY <2>1, WeightIs
  <2>4. a + d * w \in 0 .. Base * w - 1
    <3> HIDE DEF a, w, d
    <3>1. (Base - 1) * w = Base * w - w
      BY <1>0, <2>2
    <3>2. d * w <= (Base - 1) * w /\ d * w \in Nat
      BY <1>0, <2>2
    <3> QED
      BY <1>0, <2>2, <3>1, <3>2
  <2> QED
    BY <2>2, <2>3, <2>4
<1> HIDE DEF M
<1>3. M = Nat
  <2>1. M \in SUBSET Nat
    BY DEF M
  <2> QED
    BY <1>1, <1>2, <2>1, NatSet
<1> QED
  BY <1>3 DEF M

(* A number is its low digits and a multiple of the weight of the others. *)
LEMMA NumberSplit ==
  ASSUME NEW f, NEW n \in Nat, Digits(f, n), NEW m \in 0 .. n
  PROVE  \E q \in Nat : Number(f, n) = Number(f, m) + Weight[m] * q
<1>0. Base \in Nat /\ m \in Nat
  BY BaseIs
<1> DEFINE M == {k \in Nat : m + k <= n =>
                   \E q \in Nat : Number(f, m + k) = Number(f, m) + Weight[m] * q}
<1>c. Number(f, m) \in Int
  <2>1. Digits(f, m)
    BY DEF Digits
  <2> QED
    BY <2>1, NumberBound, WeightIs
<1>1. 0 \in M
  <2>1. Number(f, m + 0) = Number(f, m) + Weight[m] * 0
    BY <1>0, <1>c, WeightIs
  <2> QED
    BY <2>1
<1>2. ASSUME NEW k \in M PROVE k + 1 \in M
  <2> SUFFICES ASSUME m + (k + 1) <= n
               PROVE  \E q \in Nat : Number(f, m + (k + 1)) = Number(f, m) + Weight[m] * q
    OBVIOUS
  <2>1. k \in Nat /\ m + k \in 0 .. n - 1 /\ (m + k) + 1 = m + (k + 1) /\ m + k <= n
    BY <1>0
  <2>2. PICK q \in Nat : Number(f, m + k) = Number(f, m) + Weight[m] * q
    BY <2>1
  <2>3. Number(f, m + (k + 1)) = Number(f, m + k) + f[m + k] * Weight[m + k]
    BY <2>1, NumberNext
  <2>4. Weight[m + k] = Weight[m] * Weight[k]
    BY <1>0, <2>1, WeightSum
  <2> DEFINE d == f[m + k]
             w == Weight[m]
             v == Weight[k]
             a == Number(f, m)
  <2>5. d \in Nat /\ w \in Nat /\ v \in Nat
    BY <1>0, <2>1, WeightIs DEF Digits, Digit
  <2>6. Number(f, m + (k + 1)) = (a + w * q) + d * (w * v)
    BY <2>2, <2>3, <2>4
  <2>7. (a + w * q) + d * (w * v) = a + w * (q + d * v) /\ q + d * v \in Nat
    <3> HIDE DEF d, w, v, a
    <3> QED
      BY <2>5, <1>c DEF a
  <2> QED
    BY <2>6, <2>7
<1> HIDE DEF M
<1>3. M = Nat
  <2>1. M \in SUBSET Nat
    BY DEF M
  <2> QED
    BY <1>1, <1>2, <2>1, NatSet
<1>4. n - m \in M /\ m + (n - m) = n
  BY <1>0, <1>3
<1> QED
  BY <1>4 DEF M

(* Division and remainder are had back from a product and a rest. *)
LEMMA DivMod ==
  ASSUME NEW q \in Int, NEW b \in Nat \ {0}, NEW r \in 0 .. b - 1
  PROVE  (b * q + r) \div b = q /\ (b * q + r) % b = r
OBVIOUS

(* The low digits are a remainder, and a digit is had back from its number. *)
LEMMA NumberDigits ==
  ASSUME NEW f, NEW n \in Nat, Digits(f, n)
  PROVE  /\ \A m \in 0 .. n : Number(f, n) % Weight[m] = Number(f, m)
         /\ \A m \in 0 .. n - 1 : (Number(f, n) \div Weight[m]) % Base = f[m]
<1>0. Base \in Nat \ {0}
  BY BaseIs
<1>1. ASSUME NEW m \in 0 .. n PROVE Number(f, n) % Weight[m] = Number(f, m)
  <2>1. PICK q \in Nat : Number(f, n) = Number(f, m) + Weight[m] * q
    BY NumberSplit
  <2>2. m \in Nat /\ Digits(f, m)
    BY DEF Digits
  <2> DEFINE r == Number(f, m)
             w == Weight[m]
  <2>3. r \in 0 .. w - 1 /\ w \in Nat \ {0}
    BY <2>2, NumberBound, WeightIs
  <2>4. Number(f, n) = w * q + r
    <3>1. w * q \in Int /\ r \in Int
      <4> HIDE DEF w, r
      <4> QED
        BY <2>3
    <3> QED
      BY <2>1, <3>1
  <2> HIDE DEF r, w
  <2>5. (w * q + r) % w = r
    BY <2>3, DivMod
  <2> QED
    BY <2>4, <2>5 DEF r, w
<1>2. ASSUME NEW m \in 0 .. n - 1 PROVE (Number(f, n) \div Weight[m]) % Base = f[m]
  <2>1. m \in Nat /\ m + 1 \in 0 .. n /\ Digits(f, m)
    BY DEF Digits
  <2>2. PICK q \in Nat : Number(f, n) = Number(f, m + 1) + Weight[m + 1] * q
    BY <2>1, NumberSplit
  <2> DEFINE r == Number(f, m)
             w == Weight[m]
             d == f[m]
  <2>3. r \in 0 .. w - 1 /\ w \in Nat \ {0} /\ d \in 0 .. Base - 1
    BY <2>1, NumberBound, WeightIs DEF Digits, Digit
  <2>4. Number(f, n) = (r + d * w) + (Base * w) * q
    BY <2>1, <2>2, NumberNext, WeightIs
  <2>5. (r + d * w) + (Base * w) * q = w * (Base * q + d) + r
    <3> HIDE DEF r, w, d
    <3> QED
      BY <1>0, <2>3
  <2>6. Base * q + d \in Int
    <3> HIDE DEF r, w, d
    <3> QED
      BY <1>0, <2>3
  <2> HIDE DEF r, w, d
  <2>7. Number(f, n) \div w = Base * q + d
    BY <2>3, <2>4, <2>5, <2>6, DivMod
  <2>8. (Base * q + d) % Base = d
    BY <1>0, <2>3, DivMod
  <2>9. (Number(f, n) \div w) % Base = d
    BY <2>7, <2>8
  <2> QED
    BY <2>9 DEF w, d
<1> QED
  BY <1>1, <1>2

-------------------------------------------------------------------------------
(* The accumulator's three doublewords, as one number. *)

(* What an accumulator counts: every value below Room. *)
Value(a) == a.a0 + a.a1 * Base + a.a2 * (Base * Base)

Room == Base * (Base * Base)

(* Euclid's division by the base. *)
LEMMA DivDigit ==
  ASSUME NEW t \in Nat
  PROVE  /\ t = Base * (t \div Base) + (t % Base)
         /\ t % Base \in Digit /\ t \div Base \in Nat
BY BaseIs DEF Digit

(* The doublewords of an accumulator are digits, and its value a number. *)
LEMMA WideFields ==
  ASSUME NEW a \in Wide
  PROVE  /\ a.a0 \in Digit /\ a.a1 \in Digit /\ a.a2 \in Digit
         /\ a.a0 \in Nat /\ a.a1 \in Nat /\ a.a2 \in Nat
         /\ Value(a) \in Nat
<1>1. a.a0 \in Digit /\ a.a1 \in Digit /\ a.a2 \in Digit
  BY DEF Wide
<1>2. a.a0 \in Nat /\ a.a1 \in Nat /\ a.a2 \in Nat /\ Base \in Nat
  BY <1>1, BaseIs DEF Digit
<1>3. a.a1 * Base \in Nat /\ a.a2 * (Base * Base) \in Nat
  BY <1>2
<1> QED
  BY <1>1, <1>2, <1>3 DEF Value

(* The highest doubleword is small while the value is. *)
LEMMA HighSmall ==
  ASSUME NEW b \in Nat, b > 1, NEW x \in Nat, NEW y \in Nat, NEW h \in Nat,
         x + y * b + h * (b * b) < b * (b * b)
  PROVE  h < b
<1> DEFINE c == b * b
<1>1. c \in Nat \ {0} /\ y * b \in Nat
  OBVIOUS
<1>2. h * c < b * c
  <2>1. h * c \in Nat /\ b * c \in Nat /\ x + y * b + h * c < b * c
    OBVIOUS
  <2> DEFINE hc == h * c
             bc == b * c
             yb == y * b
  <2>2. hc \in Nat /\ bc \in Nat /\ yb \in Nat /\ x + yb + hc < bc
    BY <1>1, <2>1
  <2> HIDE DEF hc, bc, yb, c
  <2>3. hc < bc
    BY <2>2
  <2> QED
    BY <2>3 DEF hc, bc
<1> HIDE DEF c
<1>3. h >= b => h * c >= b * c
  BY <1>1
<1> QED
  BY <1>1, <1>2, <1>3

(* Two doublewords are added without a loss while the result fits. *)
LEMMA AddU128Exact ==
  ASSUME NEW a \in Wide, NEW lo \in Digit, NEW hi \in Digit,
         Value(a) + lo + hi * Base < Room
  PROVE  /\ AccAddU128(a, lo, hi) \in Wide
         /\ Value(AccAddU128(a, lo, hi)) = Value(a) + lo + hi * Base
<1>0. Base \in Nat /\ Base > 1 /\ lo \in Nat /\ hi \in Nat
  BY BaseIs DEF Digit
<1> DEFINE a0 == a.a0
           a1 == a.a1
           a2 == a.a2
           t0 == a0 + lo
           t1 == a1 + hi + t0 \div Base
           q0 == t0 \div Base
           r0 == t0 % Base
           q1 == t1 \div Base
           r1 == t1 % Base
           sum == AccAddU128(a, lo, hi)
<1>1. a0 \in Nat /\ a1 \in Nat /\ a2 \in Nat
  BY WideFields
<1>2. t0 \in Nat
  BY <1>0, <1>1
<1>3. t0 = Base * q0 + r0 /\ r0 \in Digit /\ q0 \in Nat
  <2> HIDE DEF t0
  <2> QED
    BY <1>2, DivDigit
<1>4. t1 = a1 + hi + q0 /\ t1 \in Nat
  <2>1. t1 = a1 + hi + q0
    OBVIOUS
  <2> HIDE DEF q0, t1
  <2> QED
    BY <1>0, <1>1, <1>3, <2>1
<1>5. t1 = Base * q1 + r1 /\ r1 \in Digit /\ q1 \in Nat
  <2> HIDE DEF t1
  <2> QED
    BY <1>4, DivDigit
<1>6. sum = [a0 |-> r0, a1 |-> r1, a2 |-> (a2 + q1) % Base]
  BY DEF AccAddU128
<1>7. Value(a) = a0 + a1 * Base + a2 * (Base * Base)
  BY DEF Value
<1>8. t0 = a0 + lo /\ r0 \in Nat /\ r1 \in Nat
  BY <1>0, <1>3, <1>5 DEF Digit
<1> HIDE DEF a0, a1, a2, t0, t1, q0, r0, q1, r1, sum
<1>9. Value(a) + lo + hi * Base = r0 + r1 * Base + (a2 + q1) * (Base * Base)
  <2>1. (a0 + a1 * Base + a2 * (Base * Base)) + lo + hi * Base
          = t0 + (a1 + hi) * Base + a2 * (Base * Base)
    BY <1>0, <1>1, <1>8
  <2>2. t0 + (a1 + hi) * Base = r0 + (a1 + hi + q0) * Base
    BY <1>0, <1>1, <1>3, <1>8
  <2>3. t1 * Base = q1 * (Base * Base) + r1 * Base
    BY <1>0, <1>5, <1>8
  <2>4. (a2 + q1) * (Base * Base) = a2 * (Base * Base) + q1 * (Base * Base)
    BY <1>0, <1>1, <1>5
  <2> DEFINE x == q1 * (Base * Base)
             y == a2 * (Base * Base)
             z == r1 * Base
             w == t1 * Base
  <2>5. x \in Int /\ y \in Int /\ z \in Int /\ w \in Int
    BY <1>0, <1>1, <1>4, <1>5, <1>8
  <2>6. t0 + (a1 + hi) * Base = r0 + w
    BY <2>2, <1>4
  <2>7. Value(a) + lo + hi * Base = r0 + w + y
    BY <1>7, <2>1, <2>6
  <2>8. w = x + z /\ (a2 + q1) * (Base * Base) = y + x
    BY <2>3, <2>4
  <2> HIDE DEF x, y, z, w
  <2>9. r0 + w + y = r0 + z + (y + x)
    BY <1>8, <2>5, <2>8
  <2> QED
    BY <2>7, <2>8, <2>9 DEF z
<1>10. a2 + q1 \in Nat /\ a2 + q1 < Base
  <2>1. a2 + q1 \in Nat
    BY <1>1, <1>5
  <2> DEFINE h == a2 + q1
  <2>2. h \in Nat /\ r0 + r1 * Base + h * (Base * Base) < Base * (Base * Base)
    BY <1>9, <2>1 DEF Room
  <2> HIDE DEF h
  <2>3. h < Base
    BY <1>0, <1>8, <2>2, HighSmall
  <2> QED
    BY <2>1, <2>3 DEF h
<1>11. (a2 + q1) % Base = a2 + q1 /\ a2 + q1 \in Digit
  BY <1>0, <1>10 DEF Digit
<1>12. sum \in Wide
  BY <1>3, <1>5, <1>6, <1>11 DEF Wide
<1>13. Value(sum) = r0 + r1 * Base + (a2 + q1) * (Base * Base)
  BY <1>6, <1>11 DEF Value
<1> QED
  BY <1>9, <1>12, <1>13 DEF sum

(* So are three. *)
LEMMA AddU192Exact ==
  ASSUME NEW a \in Wide, NEW b \in Wide, Value(a) + Value(b) < Room
  PROVE  /\ AccAddU192(a, b) \in Wide
         /\ Value(AccAddU192(a, b)) = Value(a) + Value(b)
<1>0. Base \in Nat /\ Base > 1
  BY BaseIs
<1> DEFINE c == AccAddU128(a, b.a0, b.a1)
           h == b.a2 * (Base * Base)
           v == Value(a)
           l == b.a0 + b.a1 * Base
<1>1. /\ b.a0 \in Digit /\ b.a1 \in Digit /\ b.a2 \in Nat
      /\ v \in Nat /\ b.a0 \in Nat /\ b.a1 \in Nat
  BY WideFields
<1>2. Value(b) = l + h /\ h \in Nat /\ l \in Nat /\ b.a1 * Base \in Nat
  BY <1>0, <1>1 DEF Value
<1>3. v + b.a0 + b.a1 * Base = v + l
  <2> DEFINE m == b.a1 * Base
  <2>1. m \in Nat
    BY <1>2
  <2> HIDE DEF m, v
  <2>2. v + b.a0 + m = v + (b.a0 + m)
    BY <1>1, <2>1
  <2> QED
    BY <2>2 DEF m
<1>4. v + l < Room
  <2>1. v + (l + h) < Room /\ Room \in Nat
    BY <1>0, <1>2 DEF Room
  <2> HIDE DEF l, h, v
  <2> QED
    BY <1>1, <1>2, <2>1
<1>5. c \in Wide /\ Value(c) = v + l
  <2>1. Value(a) + b.a0 + b.a1 * Base < Room
    BY <1>3, <1>4
  <2>2. c \in Wide /\ Value(c) = Value(a) + b.a0 + b.a1 * Base
    BY <1>1, <2>1, AddU128Exact
  <2> QED
    BY <1>3, <2>2
<1>6. AccAddU192(a, b) = [c EXCEPT !.a2 = (c.a2 + b.a2) % Base]
  BY DEF AccAddU192
<1> HIDE DEF c
<1>7. c.a0 \in Nat /\ c.a1 \in Nat /\ c.a2 \in Nat /\ c.a0 \in Digit /\ c.a1 \in Digit
  BY <1>5, WideFields
<1> DEFINE t == c.a2 + b.a2
           c0 == c.a0
           c1 == c.a1
           c2 == c.a2
           b2 == b.a2
<1>8. v + Value(b) = c0 + c1 * Base + t * (Base * Base) /\ t \in Nat
  <2>1. v + Value(b) = (v + l) + h
    <3> HIDE DEF v, l, h
    <3> QED
      BY <1>1, <1>2
  <2>2. v + l = c0 + c1 * Base + c2 * (Base * Base)
    BY <1>5 DEF Value
  <2>3. h = b2 * (Base * Base) /\ t = c2 + b2
    OBVIOUS
  <2> HIDE DEF v, l, h, c0, c1, c2, b2, t
  <2>4. c0 \in Nat /\ c1 \in Nat /\ c2 \in Nat /\ b2 \in Nat
    BY <1>1, <1>7 DEF c0, c1, c2, b2
  <2>5. (c0 + c1 * Base + c2 * (Base * Base)) + b2 * (Base * Base)
          = c0 + c1 * Base + (c2 + b2) * (Base * Base)
    BY <1>0, <2>4
  <2> QED
    BY <2>1, <2>2, <2>3, <2>4, <2>5
<1>9. t < Base
  <2>1. c0 + c1 * Base + t * (Base * Base) < Base * (Base * Base)
    BY <1>8 DEF Room
  <2>2. c0 \in Nat /\ c1 \in Nat /\ t \in Nat
    BY <1>7, <1>8
  <2> HIDE DEF c0, c1, t
  <2> QED
    BY <1>0, <2>1, <2>2, HighSmall
<1>10. t % Base = t /\ t \in Digit
  <2>1. t \in Nat
    BY <1>8
  <2> HIDE DEF t
  <2> QED
    BY <1>0, <2>1, <1>9 DEF Digit
<1>11. AccAddU192(a, b) = [a0 |-> c0, a1 |-> c1, a2 |-> t]
  <2>1. AccAddU192(a, b) = [c EXCEPT !.a2 = t]
    BY <1>6, <1>10
  <2> HIDE DEF t
  <2> QED
    BY <1>5, <2>1 DEF Wide
<1>12. AccAddU192(a, b) \in Wide
  BY <1>7, <1>10, <1>11 DEF Wide
<1>13. Value(AccAddU192(a, b)) = c0 + c1 * Base + t * (Base * Base)
  <2> HIDE DEF c0, c1, t
  <2> QED
    BY <1>11 DEF Value
<1> QED
  BY <1>8, <1>12, <1>13

(* The shift drops one doubleword and divides the others by the base. *)
LEMMA ShrExact ==
  ASSUME NEW a \in Wide
  PROVE  /\ AccShr64(a) \in Wide
         /\ Value(a) = a.a0 + Base * Value(AccShr64(a))
         /\ Value(AccShr64(a)) = a.a1 + a.a2 * Base
<1>0. Base \in Nat /\ Base > 1 /\ 0 \in Digit
  BY BaseIs DEF Digit
<1> DEFINE a0 == a.a0
           a1 == a.a1
           a2 == a.a2
<1>1. a0 \in Nat /\ a1 \in Nat /\ a2 \in Nat /\ a1 \in Digit /\ a2 \in Digit
  BY WideFields
<1>2. AccShr64(a) = [a0 |-> a1, a1 |-> a2, a2 |-> 0]
  BY DEF AccShr64
<1>3. Value(AccShr64(a)) = a1 + a2 * Base + 0 * (Base * Base)
  BY <1>2 DEF Value
<1>4. AccShr64(a) \in Wide
  BY <1>0, <1>1, <1>2 DEF Wide
<1>5. Value(a) = a0 + a1 * Base + a2 * (Base * Base)
  BY DEF Value
<1> HIDE DEF a0, a1, a2
<1>6. a1 + a2 * Base + 0 * (Base * Base) = a1 + a2 * Base
  BY <1>0, <1>1
<1>7. a0 + a1 * Base + a2 * (Base * Base) = a0 + Base * (a1 + a2 * Base)
  BY <1>0, <1>1
<1>8. Value(a) = a0 + Base * Value(AccShr64(a)) /\ Value(AccShr64(a)) = a1 + a2 * Base
  BY <1>3, <1>5, <1>6, <1>7
<1> QED
  BY <1>4, <1>8 DEF a0, a1, a2

(* The partial products of a diagonal, and their shares of the product. *)
Term(s) == [i \in Index |-> cacheA[i] * cacheB[s - i]]

Share == [p \in Index \X Index |-> cacheA[p[1]] * cacheB[p[2]] * Weight[p[1] + p[2]]]

Largest == (Base - 1) * (Base - 1)

(* A product of two digits is two digits. *)
LEMMA ProductDigits ==
  ASSUME NEW x \in Digit, NEW y \in Digit
  PROVE  /\ x * y \in 0 .. Largest
         /\ (x * y) % Base \in Digit /\ (x * y) \div Base \in Digit
         /\ x * y = Base * ((x * y) \div Base) + ((x * y) % Base)
<1>0. Base \in Nat /\ Base > 1 /\ x \in Nat /\ x <= Base - 1 /\ y \in Nat /\ y <= Base - 1
  BY BaseIs DEF Digit
<1>1. x * y \in Nat /\ x * y <= (Base - 1) * (Base - 1)
  <2>1. x * y <= (Base - 1) * y /\ (Base - 1) * y <= (Base - 1) * (Base - 1)
    BY <1>0
  <2>2. x * y \in Nat /\ (Base - 1) * y \in Nat /\ (Base - 1) * (Base - 1) \in Nat
    BY <1>0
  <2> DEFINE u == x * y
             v == (Base - 1) * y
             w == (Base - 1) * (Base - 1)
  <2> HIDE DEF u, v, w
  <2>3. u <= w
    BY <2>1, <2>2 DEF u, v, w
  <2> QED
    BY <2>2, <2>3 DEF u, w
<1> DEFINE t == x * y
           q == t \div Base
           r == t % Base
<1>2. t = Base * q + r /\ r \in Digit /\ q \in Nat
  <2> HIDE DEF t
  <2> QED
    BY <1>1, DivDigit DEF t
<1>3. t <= (Base - 1) * (Base - 1) /\ t \in Nat
  BY <1>1
<1>4. r \in Nat
  BY <1>0, <1>2 DEF Digit
<1> HIDE DEF t, q, r
<1>5. q \in Digit
  <2>1. (Base - 1) * (Base - 1) = Base * (Base - 2) + 1
    BY <1>0
  <2>2. q >= Base => Base * q >= Base * Base
    BY <1>0, <1>2
  <2>3. Base * (Base - 2) = Base * Base - 2 * Base
    BY <1>0
  <2> DEFINE bq == Base * q
             bb == Base * Base
  <2>4. bq \in Nat /\ bb \in Nat /\ t = bq + r /\ t <= (bb - 2 * Base) + 1
    BY <1>0, <1>2, <1>3, <2>1, <2>3
  <2>5. q >= Base => bq >= bb
    BY <2>2
  <2> HIDE DEF bq, bb
  <2>6. q < Base
    BY <1>0, <1>2, <1>4, <2>4, <2>5
  <2> QED
    BY <1>0, <1>2, <2>6 DEF Digit
<1>6. t \in 0 .. Largest
  BY <1>0, <1>3 DEF Largest
<1>7. t \in 0 .. Largest /\ r \in Digit /\ q \in Digit /\ t = Base * q + r
  BY <1>2, <1>5, <1>6
<1> QED
  BY <1>7 DEF t, q, r

(* The addition of a product stays within three doublewords. *)
LEMMA AddU128Wide ==
  ASSUME NEW a \in Wide, NEW lo \in Digit, NEW hi \in Digit
  PROVE  AccAddU128(a, lo, hi) \in Wide
<1>0. Base \in Nat /\ Base > 1 /\ lo \in Nat /\ hi \in Nat
  BY BaseIs DEF Digit
<1>1. a.a0 \in Nat /\ a.a1 \in Nat /\ a.a2 \in Nat
  BY WideFields
<1> DEFINE t0 == a.a0 + lo
           t1 == a.a1 + hi + t0 \div Base
           t2 == a.a2 + t1 \div Base
<1>2. t0 \in Nat
  BY <1>0, <1>1
<1>3. t0 \div Base \in Nat /\ t0 % Base \in Digit
  <2> HIDE DEF t0
  <2> QED
    BY <1>2, DivDigit
<1>4. t1 \in Nat
  <2> DEFINE q == t0 \div Base
  <2>1. q \in Nat
    BY <1>3
  <2> HIDE DEF q, t0
  <2>2. a.a1 + hi + q \in Nat
    BY <1>0, <1>1, <2>1
  <2> QED
    BY <2>2 DEF q
<1>5. t1 \div Base \in Nat /\ t1 % Base \in Digit
  <2> HIDE DEF t1
  <2> QED
    BY <1>4, DivDigit
<1>6. t2 % Base \in Digit
  <2>1. t2 \in Nat
    <3> DEFINE q == t1 \div Base
    <3>1. q \in Nat
      BY <1>5
    <3> HIDE DEF q, t1
    <3>2. a.a2 + q \in Nat
      BY <1>1, <3>1
    <3> QED
      BY <3>2 DEF q
  <2> HIDE DEF t2
  <2> QED
    BY <2>1, DivDigit
<1>7. AccAddU128(a, lo, hi) = [a0 |-> t0 % Base, a1 |-> t1 % Base, a2 |-> t2 % Base]
  BY DEF AccAddU128
<1> HIDE DEF t0, t1, t2
<1> QED
  BY <1>3, <1>5, <1>6, <1>7 DEF Wide

(* A product of two digits is added without a loss while the result fits. *)
LEMMA AddProductExact ==
  ASSUME NEW a \in Wide, NEW x \in Digit, NEW y \in Digit
  PROVE  /\ AddProduct(a, x * y) \in Wide
         /\ Value(a) + x * y < Room => Value(AddProduct(a, x * y)) = Value(a) + x * y
<1> DEFINE p == x * y
           l == p % Base
           h == p \div Base
<1>1. l \in Digit /\ h \in Digit /\ p = Base * h + l /\ p \in Nat
  <2>1. /\ x * y \in 0 .. Largest
        /\ (x * y) % Base \in Digit /\ (x * y) \div Base \in Digit
        /\ x * y = Base * ((x * y) \div Base) + ((x * y) % Base)
    BY ProductDigits
  <2>2. x * y \in Nat
    BY BaseIs DEF Digit
  <2> QED
    BY <2>1, <2>2
<1>2. AddProduct(a, p) = AccAddU128(a, l, h)
  BY DEF AddProduct
<1>3. AccAddU128(a, l, h) \in Wide
  <2> HIDE DEF l, h
  <2> QED
    BY <1>1, AddU128Wide
<1>4. Value(a) + p = Value(a) + l + h * Base
  <2>1. Value(a) \in Nat /\ Base \in Nat
    BY WideFields, BaseIs
  <2>2. l \in Nat /\ h \in Nat
    BY <1>1, BaseIs DEF Digit
  <2> HIDE DEF l, h, p
  <2> QED
    BY <1>1, <2>1, <2>2
<1>5. ASSUME Value(a) + p < Room
      PROVE  Value(AccAddU128(a, l, h)) = Value(a) + p
  <2> HIDE DEF l, h, p
  <2> QED
    BY <1>1, <1>4, <1>5, AddU128Exact
<1> QED
  BY <1>2, <1>3, <1>5

(* The local sum of a batch is that of its products, if it fits. *)
LEMMA BatchExact ==
  ASSUME TypeOK, NEW s \in Int, NEW I \in SUBSET Index, IsFiniteSet(I),
         \A i \in I : s - i \in Index, Cardinality(I) * Largest < Room
  PROVE  /\ BatchSum(s, I) \in Wide
         /\ Value(BatchSum(s, I)) = SumFunctionOnSet(Term(s), I)
<1> DEFINE h == [p \in I \X Wide |-> AddProduct(p[2], cacheA[p[1]] * cacheB[s - p[1]])]
           f == Term(s)
<1>0. ASSUME NEW i \in I
      PROVE  /\ cacheA[i] \in Digit /\ cacheB[s - i] \in Digit
             /\ f[i] = cacheA[i] * cacheB[s - i] /\ f[i] \in 0 .. Largest /\ f[i] \in Int
  <2>1. cacheA[i] \in Digit /\ cacheB[s - i] \in Digit
    BY DEF TypeOK
  <2>2. f[i] = cacheA[i] * cacheB[s - i]
    BY DEF Term
  <2> QED
    BY <2>1, <2>2, ProductDigits, BaseIs
<1>1. h \in [I \X Wide -> Wide] /\ Zero \in Wide
  <2>1. ASSUME NEW p \in I \X Wide PROVE h[p] \in Wide
    BY <1>0, AddProductExact
  <2>2. Zero \in Wide
    BY BaseIs DEF Zero, Wide, Digit
  <2> QED
    BY <2>1, <2>2
<1>2. PICK g : Folds(g, I, Wide, Zero, h)
  <2> HIDE DEF h
  <2> QED
    BY <1>1, FoldExists
<1>3. ASSUME NEW u \in SUBSET I, u # {}
      PROVE  /\ Pick(u) \in I /\ u \ {Pick(u)} \in SUBSET I /\ g[u \ {Pick(u)}] \in Wide
             /\ g[u] = AddProduct(g[u \ {Pick(u)}], cacheA[Pick(u)] * cacheB[s - Pick(u)])
  <2>1. Pick(u) \in I /\ u \ {Pick(u)} \in SUBSET I
    BY <1>3, FS_Subset, PickLess
  <2>2. g[u \ {Pick(u)}] \in Wide
    BY <1>2, <2>1 DEF Folds
  <2>3. g[u] = h[<<Pick(u), g[u \ {Pick(u)}]>>]
    BY <1>2, <1>3 DEF Folds
  <2> QED
    BY <2>1, <2>2, <2>3
<1>4. g[{}] = Zero /\ g \in [SUBSET I -> Wide]
  BY <1>2 DEF Folds
<1> HIDE DEF h
<1>5. BatchSum(s, I) = g[I]
  <2> DEFINE Rec(it) == it = [u \in SUBSET I |->
                               IF u = {} THEN Zero
                               ELSE AddProduct(it[u \ {CHOOSE x \in u : TRUE}],
                                               cacheA[CHOOSE x \in u : TRUE]
                                                 * cacheB[s - (CHOOSE x \in u : TRUE)])]
             it == CHOOSE it : Rec(it)
  <2>1. Rec(g)
    <3>1. ASSUME NEW u \in SUBSET I
          PROVE  g[u] = IF u = {} THEN Zero
                        ELSE AddProduct(g[u \ {Pick(u)}], cacheA[Pick(u)] * cacheB[s - Pick(u)])
      BY <1>3, <1>4
    <3>2. g = [u \in SUBSET I |-> g[u]]
      BY <1>4
    <3> QED
      BY <3>1, <3>2 DEF Pick
  <2>2. BatchSum(s, I) = it[I]
    BY DEF BatchSum, FoldSet, MapThenFoldSet
  <2>3. Rec(it)
    <3> HIDE DEF Rec
    <3> QED
      BY <2>1
  <2> HIDE DEF it
  <2>4. \A u \in SUBSET I :
          it[u] = IF u = {} THEN Zero
                  ELSE AddProduct(it[u \ {Pick(u)}], cacheA[Pick(u)] * cacheB[s - Pick(u)])
    BY <2>3 DEF Pick
  <2>5. it[{}] = g[{}]
    BY <2>4, <1>4
  <2>6. \A u \in SUBSET I :
          u # {} /\ it[u \ {Pick(u)}] = g[u \ {Pick(u)}] => it[u] = g[u]
    BY <2>4, <1>3
  <2>7. it[I] = g[I]
    <3> HIDE DEF Rec
    <3> QED
      BY <2>5, <2>6, FoldUnique
  <2> QED
    BY <2>2, <2>7
<1>6. ASSUME NEW u \in SUBSET I PROVE SumFunctionOnSet(f, u) \in Nat /\ SumFunctionOnSet(f, u) < Room
  <2>1. IsFiniteSet(u) /\ Cardinality(u) \in Nat /\ Cardinality(I) \in Nat
        /\ Cardinality(u) <= Cardinality(I)
    BY FS_Subset, FS_CardinalityType
  <2>2. Largest \in Nat /\ Room \in Nat
    BY BaseIs DEF Largest, Room
  <2>3. SumFunctionOnSet(f, u) \in 0 .. Cardinality(u) * Largest
    BY <1>0, <2>1, <2>2, SumBound
  <2> DEFINE c == Cardinality(u)
             d == Cardinality(I)
             x == SumFunctionOnSet(f, u)
             cl == c * Largest
             dl == d * Largest
  <2>4. cl <= dl /\ cl \in Nat /\ dl \in Nat
    <3> HIDE DEF c, d
    <3> QED
      BY <2>1, <2>2 DEF c, d
  <2>5. x \in 0 .. cl /\ dl < Room
    BY <2>3
  <2> HIDE DEF cl, dl, x
  <2>6. x \in Nat /\ x < Room
    BY <2>2, <2>4, <2>5
  <2> QED
    BY <2>6 DEF x
<1> DEFINE v == [u \in SUBSET I |-> Value(g[u])]
           w == [u \in SUBSET I |-> SumFunctionOnSet(f, u)]
<1>7. v[{}] = w[{}]
  <2>1. Value(Zero) = 0
    BY BaseIs DEF Value, Zero
  <2>2. SumFunctionOnSet(f, {}) = 0
    BY <1>0, SumFacts
  <2> QED
    BY <1>4, <2>1, <2>2
<1>8. ASSUME NEW u \in SUBSET I, u # {}, v[u \ {Pick(u)}] = w[u \ {Pick(u)}]
      PROVE  v[u] = w[u]
  <2> DEFINE c == Pick(u)
             r == u \ {c}
  <2>1. c \in I /\ c \in u /\ r \in SUBSET I /\ g[r] \in Wide
        /\ g[u] = AddProduct(g[r], cacheA[c] * cacheB[s - c])
    BY <1>3, <1>8 DEF Pick
  <2>2. Value(g[r]) = SumFunctionOnSet(f, r)
    BY <1>8, <2>1
  <2>3. SumFunctionOnSet(f, u) = f[c] + SumFunctionOnSet(f, r)
    <3>1. IsFiniteSet(u) /\ \A x \in u : f[x] \in Int
      BY <1>0, FS_Subset
    <3> HIDE DEF f, c
    <3> QED
      BY <2>1, <3>1, SumRemove DEF r
  <2>4. f[c] = cacheA[c] * cacheB[s - c] /\ f[c] \in Int
        /\ cacheA[c] \in Digit /\ cacheB[s - c] \in Digit
    BY <1>0, <2>1
  <2>5. SumFunctionOnSet(f, u) = Value(g[r]) + cacheA[c] * cacheB[s - c]
    <3>1. Value(g[r]) \in Nat
      BY <2>1, WideFields
    <3> HIDE DEF f, c, r
    <3> QED
      BY <2>2, <2>3, <2>4, <3>1
  <2>6. Value(g[r]) + cacheA[c] * cacheB[s - c] < Room
    BY <1>6, <2>5
  <2>7. Value(g[u]) = Value(g[r]) + cacheA[c] * cacheB[s - c]
    <3> HIDE DEF f, c, r
    <3> QED
      BY <2>1, <2>4, <2>6, AddProductExact
  <2> QED
    BY <2>5, <2>7
<1>9. v[I] = w[I]
  <2> HIDE DEF v, w
  <2> QED
    BY <1>7, <1>8, FoldUnique
<1> QED
  BY <1>4, <1>5, <1>9

-------------------------------------------------------------------------------
(* The partial products taken so far, and what they add up to. *)

(* The limbs that are multiplied. *)
Used == 0 .. size_of_operand - 1

(* They are in the caches, and all digits. *)
LEMMA UsedIs ==
  ASSUME TypeOK
  PROVE  /\ size_of_operand \in Nat /\ 1 <= size_of_operand /\ Limbs \in Nat
         /\ Used \subseteq Index /\ IsFiniteSet(Used) /\ IsFiniteSet(Used \X Used)
         /\ \A i \in Index : cacheA[i] \in Digit /\ cacheB[i] \in Digit
         /\ Digits(cacheA, Limbs) /\ Digits(cacheB, Limbs)
         /\ Digits(cacheA, size_of_operand) /\ Digits(cacheB, size_of_operand)
<1>1. size_of_operand \in Nat /\ 1 <= size_of_operand /\ size_of_operand <= Limbs
      /\ Limbs \in Nat
  BY UnitAssumption DEF TypeOK
<1>2. Used \subseteq Index
  BY <1>1 DEF Used, Index
<1>3. IsFiniteSet(Used)
  BY <1>1, FS_Interval DEF Used
<1>4. IsFiniteSet(Used \X Used)
  BY <1>3, FS_Product
<1>5. \A i \in Index : cacheA[i] \in Digit /\ cacheB[i] \in Digit
  BY DEF TypeOK
<1>6. Digits(cacheA, Limbs) /\ Digits(cacheB, Limbs)
  BY <1>5 DEF Digits, Index
<1>7. Digits(cacheA, size_of_operand) /\ Digits(cacheB, size_of_operand)
  BY <1>2, <1>5 DEF Digits, Used
<1> QED
  BY <1>1, <1>2, <1>3, <1>4, <1>5, <1>6, <1>7

(* A share of the product is an integer. *)
LEMMA ShareInt ==
  ASSUME TypeOK, NEW i \in Index, NEW j \in Index
  PROVE  /\ <<i, j>> \in Index \X Index
         /\ Share[<<i, j>>] = cacheA[i] * cacheB[j] * Weight[i + j]
         /\ Share[<<i, j>>] \in Int
<1>1. i + j \in Nat /\ cacheA[i] \in Nat /\ cacheB[j] \in Nat
  BY UsedIs, BaseIs DEF Index, Digit
<1>2. Share[<<i, j>>] = cacheA[i] * cacheB[j] * Weight[i + j]
  BY DEF Share
<1>3. Weight[i + j] \in Nat
  BY <1>1, WeightIs
<1> DEFINE a == cacheA[i]
           b == cacheB[j]
           w == Weight[i + j]
<1>4. a * b * w \in Int
  <2>1. a \in Nat /\ b \in Nat /\ w \in Nat
    BY <1>1, <1>3
  <2> HIDE DEF a, b, w
  <2> QED
    BY <2>1
<1> QED
  BY <1>2, <1>4

(* Finitely many products are taken, all from inside the caches. *)
LEMMA TakenFinite ==
  ASSUME TypeOK, NEW s, NEW k
  PROVE  /\ IsFiniteSet(Taken(s, k))
         /\ \A p \in Taken(s, k) : Share[p] \in Int /\ p \in Index \X Index
<1>1. Taken(s, k) \in SUBSET (Used \X Used)
  BY DEF Taken, Used
<1>2. IsFiniteSet(Taken(s, k))
  BY <1>1, UsedIs, FS_Subset
<1>3. ASSUME NEW p \in Taken(s, k) PROVE Share[p] \in Int /\ p \in Index \X Index
  <2>1. PICK i \in Index, j \in Index : p = <<i, j>>
    BY <1>1, UsedIs
  <2> QED
    BY <2>1, ShareInt
<1> QED
  BY <1>2, <1>3

(* The next partial product of a diagonal. *)
LEMMA TakenAdd ==
  ASSUME TypeOK, NEW s \in Nat, NEW j \in Used, s - j \in Used
  PROVE  /\ Taken(s, j + 1) = Taken(s, j) \cup {<<j, s - j>>}
         /\ <<j, s - j>> \notin Taken(s, j)
<1>1. j \in Nat /\ s - j \in Nat
  BY UsedIs DEF Used
<1>2. Taken(s, j + 1) \subseteq Taken(s, j) \cup {<<j, s - j>>}
  <2> SUFFICES ASSUME NEW p \in Taken(s, j + 1), p \notin Taken(s, j)
               PROVE  p = <<j, s - j>>
    OBVIOUS
  <2>1. PICK a \in Used, b \in Used : p = <<a, b>>
    BY DEF Taken, Used
  <2>2. a \in Nat /\ b \in Nat
    BY <2>1, UsedIs DEF Used
  <2>3. a + b < s \/ (a + b = s /\ a < j + 1)
    BY <2>1 DEF Taken
  <2>4. ~(a + b < s \/ (a + b = s /\ a < j))
    BY <2>1 DEF Taken, Used
  <2>5. a = j /\ b = s - j
    BY <1>1, <2>2, <2>3, <2>4
  <2> QED
    BY <2>1, <2>5
<1>3. Taken(s, j) \cup {<<j, s - j>>} \subseteq Taken(s, j + 1)
  <2>1. <<j, s - j>> \in Taken(s, j + 1)
    <3>1. j + (s - j) = s /\ j < j + 1
      BY <1>1
    <3> QED
      BY <3>1 DEF Taken, Used
  <2>2. ASSUME NEW p \in Taken(s, j) PROVE p \in Taken(s, j + 1)
    <3>1. PICK a \in Used, b \in Used : p = <<a, b>>
      BY DEF Taken, Used
    <3>2. a \in Nat /\ b \in Nat
      BY <3>1, UsedIs DEF Used
    <3>3. a + b < s \/ (a + b = s /\ a < j)
      BY <3>1 DEF Taken
    <3>4. a + b < s \/ (a + b = s /\ a < j + 1)
      BY <1>1, <3>2, <3>3
    <3> QED
      BY <3>1, <3>4 DEF Taken, Used
  <2> QED
    BY <2>1, <2>2
<1>4. <<j, s - j>> \notin Taken(s, j)
  BY <1>1 DEF Taken
<1> QED
  BY <1>2, <1>3, <1>4

(* A run of a diagonal adds the sum of its products, at its weight. *)
LEMMA TakenBatch ==
  ASSUME TypeOK, NEW s \in Nat, NEW k \in Nat, NEW m \in Nat, k <= m,
         \A i \in k .. m - 1 : i \in Used /\ s - i \in Used
  PROVE  SumFunctionOnSet(Share, Taken(s, m))
           = SumFunctionOnSet(Share, Taken(s, k))
               + SumFunctionOnSet(Term(s), k .. m - 1) * Weight[s]
<1> DEFINE T(j) == SumFunctionOnSet(Share, Taken(s, j))
           D(j) == SumFunctionOnSet(Term(s), k .. j - 1)
           N == {d \in Nat : k + d <= m => T(k + d) = T(k) + D(k + d) * Weight[s]}
<1>0. ASSUME NEW i \in k .. m - 1
      PROVE  /\ Term(s)[i] = cacheA[i] * cacheB[s - i]
             /\ cacheA[i] \in Nat /\ cacheB[s - i] \in Nat /\ Term(s)[i] \in Int
  <2>1. i \in Index /\ s - i \in Index
    BY UsedIs
  <2>2. Term(s)[i] = cacheA[i] * cacheB[s - i]
    BY <2>1 DEF Term
  <2>3. cacheA[i] \in Nat /\ cacheB[s - i] \in Nat
    BY <2>1, UsedIs, BaseIs DEF Digit
  <2> QED
    BY <2>2, <2>3
<1>1. ASSUME NEW j \in Nat, j <= m
      PROVE  IsFiniteSet(k .. j - 1) /\ D(j) \in Int /\ T(j) \in Int
  <2>1. IsFiniteSet(k .. j - 1)
    BY <1>1, FS_Interval
  <2>2. \A x \in k .. j - 1 : Term(s)[x] \in Int
    BY <1>0, <1>1
  <2>3. D(j) \in Int
    BY <2>1, <2>2, SumFacts
  <2>4. T(j) \in Int
    BY TakenFinite, SumFacts
  <2> QED
    BY <2>1, <2>3, <2>4
<1>2. 0 \in N
  <2>1. k .. (k + 0) - 1 = {} /\ k + 0 = k
    OBVIOUS
  <2>2. D(k + 0) = 0
    <3>1. IsFiniteSet({}) /\ \A x \in {} : Term(s)[x] \in Int
      BY FS_EmptySet
    <3> QED
      BY <2>1, <3>1, SumFacts
  <2>3. T(k) \in Int /\ Weight[s] \in Int
    BY <1>1, WeightIs
  <2> HIDE DEF T, D
  <2>4. T(k + 0) = T(k) + D(k + 0) * Weight[s]
    BY <2>1, <2>2, <2>3
  <2> QED
    BY <2>4
<1>3. ASSUME NEW d \in N PROVE d + 1 \in N
  <2> SUFFICES ASSUME k + (d + 1) <= m
               PROVE  T(k + (d + 1)) = T(k) + D(k + (d + 1)) * Weight[s]
    OBVIOUS
  <2> DEFINE j == k + d
  <2>0. d \in Nat /\ j \in Nat /\ j \in k .. m - 1 /\ j + 1 = k + (d + 1) /\ j <= m
        /\ j + 1 \in Nat
    OBVIOUS
  <2>1. T(j) = T(k) + D(j) * Weight[s]
    BY <2>0
  <2>2. j \in Used /\ s - j \in Used
    BY <2>0
  <2> HIDE DEF j
  <2>3. T(j + 1) = Share[<<j, s - j>>] + T(j)
    <3>1. IsFiniteSet(Taken(s, j)) /\ <<j, s - j>> \notin Taken(s, j)
          /\ Taken(s, j + 1) = Taken(s, j) \cup {<<j, s - j>>}
      BY <2>2, TakenFinite, TakenAdd
    <3>2. \A p \in Taken(s, j) \cup {<<j, s - j>>} : Share[p] \in Int
      BY <3>1, TakenFinite
    <3> QED
      BY <3>1, <3>2, SumAdd
  <2>4. D(j + 1) = Term(s)[j] + D(j)
    <3>1. /\ k .. (j + 1) - 1 = (k .. j - 1) \cup {j} /\ j \notin k .. j - 1
      BY <2>0
    <3>2. \A x \in (k .. j - 1) \cup {j} : Term(s)[x] \in Int
      BY <1>0, <2>0
    <3>3. IsFiniteSet(k .. j - 1)
      BY <1>1, <2>0
    <3>4. SumFunctionOnSet(Term(s), (k .. j - 1) \cup {j})
            = Term(s)[j] + SumFunctionOnSet(Term(s), k .. j - 1)
      BY <3>1, <3>2, <3>3, SumAdd
    <3> QED
      BY <3>1, <3>4
  <2>5. Share[<<j, s - j>>] = Term(s)[j] * Weight[s]
    <3>1. j + (s - j) = s /\ j \in Index /\ s - j \in Index
      BY <2>0, <2>2, UsedIs
    <3>2. Share[<<j, s - j>>] = cacheA[j] * cacheB[s - j] * Weight[j + (s - j)]
      BY <3>1, ShareInt
    <3> QED
      BY <1>0, <2>0, <3>1, <3>2
  <2> DEFINE w == Weight[s]
             t == Term(s)[j]
  <2>6. w \in Int /\ t \in Int /\ T(k) \in Int /\ D(j) \in Int /\ D(j + 1) \in Int
    <3>1. w \in Int /\ t \in Int
      BY <1>0, <2>0, WeightIs
    <3>2. T(k) \in Int /\ D(j) \in Int
      BY <1>1, <2>0
    <3>3. j + 1 <= m
      BY <2>0
    <3>4. D(j + 1) \in Int
      BY <1>1, <2>0, <3>3
    <3> QED
      BY <3>1, <3>2, <3>4
  <2> HIDE DEF T, D, w, t
  <2>7. T(j + 1) = t * w + (T(k) + D(j) * w)
    BY <2>1, <2>3, <2>5 DEF w, t
  <2>8. T(k) + (t + D(j)) * w = t * w + (T(k) + D(j) * w)
    BY <2>6
  <2>9. T(j + 1) = T(k) + D(j + 1) * w
    BY <2>4, <2>7, <2>8 DEF t
  <2> QED
    BY <2>0, <2>9 DEF w
<1> HIDE DEF N
<1>4. N = Nat
  <2>1. N \in SUBSET Nat
    BY DEF N
  <2> QED
    BY <1>2, <1>3, <2>1, NatSet
<1>5. m - k \in N /\ k + (m - k) = m
  BY <1>4
<1> HIDE DEF T, D
<1>6. T(m) = T(k) + D(m) * Weight[s]
  BY <1>5 DEF N
<1> QED
  BY <1>6 DEF T, D

(* Behind the end of a diagonal comes the start of the next. *)
LEMMA TakenNext ==
  ASSUME TypeOK, NEW s \in Nat
  PROVE  /\ Taken(s, DiagonalEnd(s) + 1) = Taken(s + 1, DiagonalStart(s + 1))
         /\ Taken(0, 0) = {}
         /\ Taken(2 * size_of_operand - 2, DiagonalEnd(2 * size_of_operand - 2) + 1)
              = Used \X Used
<1> DEFINE n == size_of_operand
           In(t, k, i, j) == i + j < t \/ (i + j = t /\ i < k)
<1>0. n \in Nat /\ 1 <= n
  BY UsedIs
<1>1. ASSUME NEW t \in Nat, NEW k, NEW u \in Nat, NEW l,
             \A i, j \in Used : In(t, k, i, j) <=> In(u, l, i, j)
      PROVE  Taken(t, k) = Taken(u, l)
  BY <1>1 DEF Taken, Used
<1>2. ASSUME NEW i \in Used, NEW j \in Used
      PROVE  In(s, DiagonalEnd(s) + 1, i, j) <=> In(s + 1, DiagonalStart(s + 1), i, j)
  BY <1>0 DEF Used, DiagonalEnd, DiagonalStart
<1>3. Taken(s, DiagonalEnd(s) + 1) = Taken(s + 1, DiagonalStart(s + 1))
  <2> HIDE DEF In
  <2> QED
    BY <1>1, <1>2
<1>4. Taken(0, 0) = {}
  <2>1. ASSUME NEW i \in Used, NEW j \in Used PROVE ~In(0, 0, i, j)
    BY <1>0 DEF Used
  <2> QED
    BY <2>1 DEF Taken, Used
<1>5. Taken(2 * n - 2, DiagonalEnd(2 * n - 2) + 1) = Used \X Used
  <2>1. ASSUME NEW i \in Used, NEW j \in Used
        PROVE  In(2 * n - 2, DiagonalEnd(2 * n - 2) + 1, i, j)
    BY <1>0 DEF Used, DiagonalEnd
  <2> QED
    BY <2>1 DEF Taken, Used
<1> QED
  BY <1>3, <1>4, <1>5

(* All shares together are the product. *)
LEMMA SquareIs ==
  ASSUME TypeOK
  PROVE  SumFunctionOnSet(Share, Used \X Used)
           = Number(cacheA, size_of_operand) * Number(cacheB, size_of_operand)
<1> DEFINE n == size_of_operand
           A(m) == Number(cacheA, m)
           B(m) == Number(cacheB, m)
           Rows(m) == (0 .. m - 1) \X Used
           T(S) == SumFunctionOnSet(Share, S)
           M == {m \in Nat : m <= n => T(Rows(m)) = A(m) * B(n)}
<1>0. n \in Nat /\ n <= Limbs /\ Digits(cacheA, n) /\ Digits(cacheB, n)
  BY UsedIs DEF TypeOK
<1>1. ASSUME NEW S \in SUBSET (Used \X Used)
      PROVE  IsFiniteSet(S) /\ (\A p \in S : Share[p] \in Int) /\ T(S) \in Int
  <2>1. IsFiniteSet(S)
    BY UsedIs, FS_Subset
  <2>2. ASSUME NEW p \in S PROVE Share[p] \in Int
    <3>1. PICK i \in Index, j \in Index : p = <<i, j>>
      BY UsedIs
    <3> QED
      BY <3>1, ShareInt
  <2> QED
    BY <2>1, <2>2, SumFacts
<1>2. ASSUME NEW m \in 0 .. n
      PROVE  m \in Nat /\ A(m) \in Int /\ B(m) \in Int
  <2>1. m \in Nat /\ Digits(cacheA, m) /\ Digits(cacheB, m)
    BY <1>0 DEF Digits
  <2> QED
    BY <2>1, NumberNext
<1>3. 0 \in M
  <2>1. Rows(0) = {}
    OBVIOUS
  <2>2. T({}) = 0
    BY <1>1, FS_EmptySet, SumFacts
  <2>3. A(0) = 0 /\ B(n) \in Int
    BY <1>0, <1>2, NumberNext
  <2> HIDE DEF A, B, T, Rows
  <2>4. T(Rows(0)) = A(0) * B(n)
    BY <2>1, <2>2, <2>3
  <2> QED
    BY <2>4
<1>4. ASSUME NEW m \in M PROVE m + 1 \in M
  <2> SUFFICES ASSUME m + 1 <= n PROVE T(Rows(m + 1)) = A(m + 1) * B(n)
    OBVIOUS
  <2>0. m \in Nat /\ m \in Used /\ m <= n /\ m \in 0 .. n /\ m \in 0 .. n - 1
    BY <1>0 DEF Used
  <2> DEFINE Row(j) == Rows(m) \cup ({m} \X (0 .. j - 1))
             aw == cacheA[m] * Weight[m]
             N == {j \in Nat : j <= n => T(Row(j)) = A(m) * B(n) + aw * B(j)}
  <2>a. aw \in Int /\ cacheA[m] \in Nat /\ Weight[m] \in Nat
    BY <2>0, UsedIs, WeightIs, BaseIs DEF Digit
  <2>b. A(m) \in Int /\ B(n) \in Int /\ n \in 0 .. n
    BY <1>0, <1>2, <2>0
  <2>1. 0 \in N
    <3>1. Row(0) = Rows(m)
      OBVIOUS
    <3>2. T(Rows(m)) = A(m) * B(n)
      BY <2>0
    <3>3. B(0) = 0
      BY <1>0, NumberNext
    <3> HIDE DEF A, B, T, Row, Rows, aw
    <3>4. A(m) * B(n) + aw * 0 = A(m) * B(n)
      BY <2>a, <2>b
    <3>5. T(Row(0)) = A(m) * B(n) + aw * B(0)
      BY <3>1, <3>2, <3>3, <3>4
    <3> QED
      BY <3>5
  <2>2. ASSUME NEW j \in N PROVE j + 1 \in N
    <3> SUFFICES ASSUME j + 1 <= n
                 PROVE  T(Row(j + 1)) = A(m) * B(n) + aw * B(j + 1)
      OBVIOUS
    <3>0. j \in Nat /\ j \in Used /\ j \in 0 .. n /\ j \in 0 .. n - 1
      BY <1>0 DEF Used
    <3>1. T(Row(j)) = A(m) * B(n) + aw * B(j)
      BY <1>0, <3>0
    <3>2. /\ Row(j + 1) = Row(j) \cup {<<m, j>>} /\ <<m, j>> \notin Row(j)
          /\ Row(j) \cup {<<m, j>>} \in SUBSET (Used \X Used)
          /\ Row(j) \in SUBSET (Used \X Used)
      <4>1. 0 .. (j + 1) - 1 = (0 .. j - 1) \cup {j} /\ j \notin 0 .. j - 1 /\ m \notin 0 .. m - 1
        BY <2>0, <3>0
      <4>2. 0 .. j - 1 \subseteq Used /\ 0 .. m - 1 \subseteq Used
        BY <1>0, <2>0, <3>0 DEF Used
      <4> QED
        BY <2>0, <3>0, <4>1, <4>2
    <3>3. T(Row(j + 1)) = Share[<<m, j>>] + T(Row(j))
      <4>1. IsFiniteSet(Row(j)) /\ \A p \in Row(j) \cup {<<m, j>>} : Share[p] \in Int
        BY <1>1, <3>2
      <4> HIDE DEF Row
      <4> QED
        BY <3>2, <4>1, SumAdd
    <3>4. Share[<<m, j>>] = cacheA[m] * cacheB[j] * Weight[m + j]
      BY <2>0, <3>0, UsedIs, ShareInt
    <3>5. Weight[m + j] = Weight[m] * Weight[j]
      BY <2>0, <3>0, WeightSum
    <3>6. B(j + 1) = B(j) + cacheB[j] * Weight[j]
      BY <1>0, <3>0, NumberNext
    <3>7. cacheB[j] \in Nat /\ Weight[j] \in Nat /\ B(j) \in Int /\ T(Row(j)) \in Int
      <4>1. cacheB[j] \in Nat /\ Weight[j] \in Nat
        BY <3>0, UsedIs, WeightIs, BaseIs DEF Digit
      <4>2. B(j) \in Int
        BY <1>2, <3>0
      <4>3. T(Row(j)) \in Int
        <5> HIDE DEF T, Row
        <5> QED
          BY <1>1, <3>2
      <4> QED
        BY <4>1, <4>2, <4>3
    <3> DEFINE x == cacheA[m]
               y == cacheB[j]
               v == Weight[m]
               w == Weight[j]
               C == A(m) * B(n)
    <3>8. T(Row(j + 1)) = x * y * (v * w) + (C + (x * v) * B(j))
      BY <3>1, <3>3, <3>4, <3>5
    <3>9. C + (x * v) * (B(j) + y * w) = x * y * (v * w) + (C + (x * v) * B(j))
      <4>1. x \in Int /\ y \in Int /\ v \in Int /\ w \in Int /\ C \in Int /\ B(j) \in Int
        <5>1. C \in Int
          <6> HIDE DEF A, B
          <6> QED
            BY <2>b
        <5> QED
          BY <2>a, <3>7, <5>1
      <4> HIDE DEF x, y, v, w, C, B
      <4> QED
        BY <4>1
    <3> QED
      BY <3>6, <3>8, <3>9
  <2> HIDE DEF N
  <2>3. N = Nat
    <3>1. N \in SUBSET Nat
      BY DEF N
    <3> QED
      BY <2>1, <2>2, <3>1, NatSet
  <2>4. T(Row(n)) = A(m) * B(n) + aw * B(n)
    <3>1. n \in N
      BY <1>0, <2>3
    <3> HIDE DEF A, B, T, Row, Rows, aw
    <3> QED
      BY <1>0, <3>1 DEF N
  <2>5. Row(n) = Rows(m + 1)
    <3>1. 0 .. (m + 1) - 1 = (0 .. m - 1) \cup {m} /\ 0 .. n - 1 = Used
      BY <2>0 DEF Used
    <3> QED
      BY <3>1
  <2>6. A(m + 1) = A(m) + aw
    BY <1>0, <2>0, NumberNext
  <2> HIDE DEF A, B, T, Row, Rows, aw
  <2>7. (A(m) + aw) * B(n) = A(m) * B(n) + aw * B(n)
    BY <2>a, <2>b
  <2> QED
    BY <2>4, <2>5, <2>6, <2>7
<1> HIDE DEF M
<1>5. M = Nat
  <2>1. M \in SUBSET Nat
    BY DEF M
  <2> QED
    BY <1>3, <1>4, <2>1, NatSet
<1>6. T(Rows(n)) = A(n) * B(n)
  <2>1. n \in M /\ n <= n
    BY <1>0, <1>5
  <2> HIDE DEF A, B, T, Rows
  <2> QED
    BY <2>1 DEF M
<1>7. Rows(n) = Used \X Used
  BY DEF Used
<1> QED
  BY <1>6, <1>7

(* A diagonal of Limbs products and the carry of the one before fit in     *)
(* three doublewords.                                                      *)
CarryRoom == Limbs * (Base - 1) < Base * Base

(* The most a diagonal passes on to the next. *)
CarryLimit == Limbs * (Base - 1)

(* What acc and the emitted limbs are when the products of diagonal s      *)
(* before k are taken.                                                     *)
Carried(s, k, a, result) ==
  /\ Number(result, s) + Value(a) * Weight[s] = SumFunctionOnSet(Share, Taken(s, k))
  /\ Value(a) <= CarryLimit + (k - DiagonalStart(s)) * Largest

(* The part of a diagonal one cycle takes. *)
Batched(k, top) == {i \in k .. k + Batch - 1 : i <= top}

(* What a multiply cycle makes of that. *)
LEMMA BatchStep ==
  ASSUME TypeOK, CarryRoom,
         NEW s \in Nat, s <= 2 * size_of_operand - 2,
         NEW k \in Nat, DiagonalStart(s) <= k, k <= DiagonalEnd(s),
         NEW a \in Wide, Carried(s, k, a, resultCache)
  PROVE  LET top   == DiagonalEnd(s)
             I     == Batched(k, top)
             total == AccAddU192(a, BatchSum(s, I))
         IN  /\ \A i \in I : i \in Index /\ s - i \in Index
             /\ BatchSum(s, I) \in Wide /\ total \in Wide
             /\ k + Batch <= top => Carried(s, k + Batch, total, resultCache)
             /\ k + Batch > top =>
                  /\ Number(resultCache, s) + Value(total) * Weight[s]
                       = SumFunctionOnSet(Share, Taken(s, top + 1))
                  /\ Value(total) <= CarryLimit * Base
<1> DEFINE n == size_of_operand
           top == DiagonalEnd(s)
           first == DiagonalStart(s)
           I == Batched(k, top)
           m == IF k + Batch <= top THEN k + Batch ELSE top + 1
           sum == BatchSum(s, I)
           total == AccAddU192(a, sum)
           va == Value(a)
           st == SumFunctionOnSet(Term(s), I)
<1>0. /\ Base \in Nat /\ Base > 1 /\ n \in Nat /\ 1 <= n /\ n <= Limbs /\ Limbs \in Nat
      /\ Batch \in Nat /\ Batch >= 1
  <2>1. n <= Limbs /\ Batch \in Nat /\ Batch >= 1
    BY UnitAssumption DEF TypeOK
  <2> QED
    BY <2>1, BaseIs, UsedIs
<1>1. /\ first \in Nat /\ top \in Nat /\ (top + 1) - first <= n /\ top <= n - 1
      /\ s - first <= n - 1 /\ top <= s
  BY <1>0 DEF DiagonalStart, DiagonalEnd
<1>2. m \in Nat /\ k < m /\ m <= top + 1 /\ I = k .. m - 1
  <2>1. m \in Nat /\ k < m /\ m <= top + 1
    BY <1>0, <1>1
  <2>2. I = k .. m - 1
    BY <1>0, <1>1 DEF Batched
  <2> QED
    BY <2>1, <2>2
<1>3. \A i \in k .. m - 1 : i \in Used /\ s - i \in Used
  BY <1>0, <1>1, <1>2 DEF Used
<1>4. /\ I \in SUBSET Index /\ \A i \in I : i \in Index /\ s - i \in Index
      /\ IsFiniteSet(I) /\ Cardinality(I) = m - k
  <2>1. \A i \in I : i \in Index /\ s - i \in Index
    BY <1>2, <1>3, UsedIs
  <2>2. IsFiniteSet(k .. m - 1) /\ Cardinality(k .. m - 1) = m - k
    <3>1. m - 1 \in Int /\ k \in Int /\ ~(k > m - 1) /\ (m - 1) - k + 1 = m - k
      BY <1>2
    <3> HIDE DEF m
    <3> QED
      BY <3>1, FS_Interval
  <2> QED
    BY <1>2, <2>1, <2>2
<1>5. Largest \in Nat /\ CarryLimit \in Nat /\ va \in Nat
  BY <1>0, WideFields DEF Largest, CarryLimit
<1>6. st \in 0 .. (m - k) * Largest
  <2>1. ASSUME NEW i \in I PROVE Term(s)[i] \in 0 .. Largest
    <3>1. Term(s)[i] = cacheA[i] * cacheB[s - i]
      BY <1>4 DEF Term
    <3>2. cacheA[i] \in Digit /\ cacheB[s - i] \in Digit
      BY <1>4, UsedIs
    <3> QED
      BY <3>1, <3>2, ProductDigits
  <2>2. SumFunctionOnSet(Term(s), I) \in 0 .. Cardinality(I) * Largest
    <3> HIDE DEF I
    <3> QED
      BY <1>4, <1>5, <2>1, SumBound
  <2> QED
    BY <1>4, <2>2
<1>7. CarryLimit + Limbs * Largest = CarryLimit * Base /\ CarryLimit * Base < Room
  <2>1. Limbs * (Base - 1) + Limbs * ((Base - 1) * (Base - 1)) = (Limbs * (Base - 1)) * Base
    BY <1>0
  <2>2. CarryLimit * Base < (Base * Base) * Base
    <3>1. CarryLimit \in Nat /\ CarryLimit < Base * Base /\ Base * Base \in Nat
      BY <1>0, <1>5 DEF CarryLimit, CarryRoom
    <3> DEFINE b == Base * Base
    <3> HIDE DEF b
    <3>2. CarryLimit < b /\ b \in Nat
      BY <3>1 DEF b
    <3>3. CarryLimit * Base < b * Base
      BY <1>0, <3>1, <3>2
    <3> QED
      BY <3>3 DEF b
  <2>3. (Base * Base) * Base = Base * (Base * Base)
    BY <1>0
  <2> QED
    BY <2>1, <2>2, <2>3 DEF CarryLimit, Largest, Room
<1>8. va <= CarryLimit + (k - first) * Largest
  BY DEF Carried
<1>9. /\ va + st <= CarryLimit + (m - first) * Largest
      /\ (m - first) * Largest <= Limbs * Largest
      /\ (m - k) * Largest <= Limbs * Largest
      /\ Limbs * Largest \in Nat
  <2>1. (k - first) * Largest + (m - k) * Largest = (m - first) * Largest
    BY <1>1, <1>2, <1>5
  <2>2. m - first <= Limbs /\ m - k <= Limbs
    BY <1>0, <1>1, <1>2
  <2>3. (m - first) * Largest <= Limbs * Largest /\ (m - k) * Largest <= Limbs * Largest
    <3>1. m - first \in Nat /\ m - k \in Nat
      BY <1>1, <1>2
    <3> DEFINE u == m - first
               v == m - k
    <3>2. u \in Nat /\ v \in Nat /\ u <= Limbs /\ v <= Limbs
      BY <2>2, <3>1
    <3> HIDE DEF u, v
    <3>3. u * Largest <= Limbs * Largest /\ v * Largest <= Limbs * Largest
      BY <1>0, <1>5, <3>2
    <3> QED
      BY <3>3 DEF u, v
  <2> DEFINE x == (k - first) * Largest
             y == (m - k) * Largest
             z == (m - first) * Largest
  <2>4. x \in Int /\ y \in Int /\ z \in Int /\ x + y = z /\ st \in 0 .. y
        /\ va <= CarryLimit + x
    <3>1. k - first \in Int /\ m - k \in Int /\ m - first \in Int
      BY <1>1, <1>2
    <3>2. x \in Int /\ y \in Int /\ z \in Int
      <4> HIDE DEF m, first
      <4> QED
        BY <1>5, <3>1
    <3> HIDE DEF m, first
    <3> QED
      BY <1>6, <1>8, <2>1, <3>2
  <2> HIDE DEF x, y, z, st, va
  <2>5. va + st <= CarryLimit + z
    BY <1>5, <2>4
  <2>6. Limbs * Largest \in Nat
    BY <1>0, <1>5
  <2> QED
    BY <2>3, <2>5, <2>6 DEF z
<1>10. sum \in Wide /\ Value(sum) = st
  <2>1. Cardinality(I) * Largest < Room
    <3> DEFINE x == (m - k) * Largest
               y == Limbs * Largest
    <3>1. x <= y /\ x \in Int /\ y \in Nat /\ CarryLimit + y < Room /\ Room \in Nat
      BY <1>0, <1>2, <1>5, <1>7, <1>9 DEF Room
    <3> HIDE DEF x, y
    <3>2. x < Room
      BY <1>5, <3>1
    <3> QED
      BY <1>4, <3>2 DEF x
  <2>2. s \in Int
    OBVIOUS
  <2> HIDE DEF I
  <2> QED
    BY <1>4, <2>1, <2>2, BatchExact
<1>11. va + st < Room /\ va + st <= CarryLimit * Base
  <2> DEFINE x == (m - first) * Largest
             y == Limbs * Largest
  <2>1. va + st <= CarryLimit + x /\ x <= y /\ CarryLimit + y = CarryLimit * Base
        /\ CarryLimit * Base < Room
    BY <1>7, <1>9
  <2>2. y \in Int /\ Room \in Int
    BY <1>0, <1>9 DEF Room
  <2>3. m - first \in Int /\ m - k \in Int
    BY <1>1, <1>2
  <2>4. x \in Int /\ (m - k) * Largest \in Int
    <3> HIDE DEF m, first
    <3> QED
      BY <1>5, <2>3
  <2>5. st \in Nat
    <3> DEFINE z == (m - k) * Largest
    <3> HIDE DEF st, z
    <3>1. z \in Int /\ st \in 0 .. z
      BY <1>6, <2>4 DEF z
    <3> QED
      BY <3>1
  <2> DEFINE c == CarryLimit * Base
  <2>6. c \in Int
    BY <1>0, <1>5
  <2> HIDE DEF x, y, st, va, c
  <2>7. va + st <= c /\ c < Room
    BY <1>5, <2>1, <2>2, <2>4, <2>5 DEF c
  <2>8. va + st < Room
    BY <1>5, <2>2, <2>5, <2>6, <2>7
  <2> QED
    BY <2>7, <2>8 DEF c
<1>12. total \in Wide /\ Value(total) = va + st
  <2> HIDE DEF sum
  <2> QED
    BY <1>10, <1>11, AddU192Exact
<1>13. Number(resultCache, s) + Value(total) * Weight[s] = SumFunctionOnSet(Share, Taken(s, m))
  <2>1. SumFunctionOnSet(Share, Taken(s, m))
          = SumFunctionOnSet(Share, Taken(s, k))
              + SumFunctionOnSet(Term(s), k .. m - 1) * Weight[s]
    <3>1. m \in Nat /\ k <= m
      BY <1>2
    <3> HIDE DEF m
    <3> QED
      BY <1>3, <3>1, TakenBatch
  <2>2. Number(resultCache, s) + va * Weight[s] = SumFunctionOnSet(Share, Taken(s, k))
    BY DEF Carried
  <2> DEFINE w == Weight[s]
             r == Number(resultCache, s)
  <2>3. w \in Nat /\ r \in Int /\ st \in Int
    <3>1. Digits(resultCache, s)
      BY <1>0 DEF TypeOK, Digits
    <3> QED
      BY <1>5, <1>6, <3>1, WeightIs, NumberNext
  <2>4. SumFunctionOnSet(Share, Taken(s, m)) = (r + va * w) + st * w
    BY <1>2, <2>1, <2>2
  <2> HIDE DEF w, r, st, va
  <2>5. (r + va * w) + st * w = r + (va + st) * w
    BY <1>5, <2>3
  <2> QED
    BY <1>12, <2>4, <2>5 DEF w, r
<1>14. CASE k + Batch <= top
  <2>1. m = k + Batch
    BY <1>14
  <2>2. Value(total) <= CarryLimit + (m - first) * Largest
    BY <1>9, <1>12
  <2>3. Carried(s, k + Batch, total, resultCache)
    <3> HIDE DEF m, total
    <3> QED
      BY <1>13, <2>1, <2>2 DEF Carried
  <2> QED
    BY <1>0, <1>1, <1>4, <1>10, <1>12, <1>14, <2>3
<1>15. CASE k + Batch > top
  <2>1. m = top + 1
    BY <1>0, <1>1, <1>15
  <2>2. Value(total) <= CarryLimit * Base
    BY <1>11, <1>12
  <2>3. ~(k + Batch <= top)
    BY <1>0, <1>1, <1>15
  <2>4. Number(resultCache, s) + Value(total) * Weight[s]
          = SumFunctionOnSet(Share, Taken(s, top + 1))
    BY <1>13, <2>1
  <2> QED
    BY <1>4, <1>10, <1>12, <2>2, <2>3, <2>4
<1> QED
  BY <1>0, <1>1, <1>14, <1>15

(* The end of a diagonal that is not the last. *)
LEMMA EmitStep ==
  ASSUME TypeOK, NEW s \in Nat, s < 2 * size_of_operand - 2, NEW total \in Wide,
         Number(resultCache, s) + Value(total) * Weight[s]
           = SumFunctionOnSet(Share, Taken(s, DiagonalEnd(s) + 1)),
         Value(total) <= CarryLimit * Base
  PROVE  Carried(s + 1, DiagonalStart(s + 1), AccShr64(total),
                 [resultCache EXCEPT ![s] = total.a0])
<1> DEFINE result == [resultCache EXCEPT ![s] = total.a0]
           rest == Value(AccShr64(total))
           low == total.a0
           w == Weight[s]
           r == Number(resultCache, s)
<1>0. /\ Base \in Nat /\ Base > 1 /\ size_of_operand <= Limbs /\ size_of_operand \in Nat
      /\ Limbs \in Nat
  BY BaseIs, UsedIs DEF TypeOK
<1>1. Value(total) = low + Base * rest /\ rest \in Nat /\ low \in Nat /\ low \in Digit
  BY ShrExact, WideFields
<1>2. s \in 0 .. 2 * Limbs - 1 /\ s + 1 \in 0 .. 2 * Limbs
  BY <1>0
<1>3. result[s] = low /\ \A i \in 0 .. s - 1 : result[i] = resultCache[i]
  BY <1>2 DEF TypeOK
<1>4. Digits(resultCache, s) /\ Digits(result, s + 1)
  <2>1. ASSUME NEW i \in 0 .. s - 1 PROVE resultCache[i] \in Digit
    BY <1>0 DEF TypeOK
  <2>2. ASSUME NEW i \in 0 .. (s + 1) - 1 PROVE result[i] \in Digit
    BY <1>1, <1>3, <2>1
  <2> QED
    BY <2>1, <2>2 DEF Digits
<1> HIDE DEF result
<1>5. Number(result, s + 1) = r + low * w
  <2>1. s \in 0 .. (s + 1) - 1 /\ s + 1 \in Nat
    OBVIOUS
  <2>2. Number(result, s + 1) = Number(result, s) + result[s] * Weight[s]
    BY <1>4, <2>1, NumberNext
  <2>3. Number(result, s) = Number(resultCache, s)
    BY <1>3, <1>4, NumberSame
  <2> QED
    BY <1>3, <2>2, <2>3
<1>6. Weight[s + 1] = Base * w /\ w \in Nat /\ r \in Int
  BY <1>4, WeightIs, NumberNext
<1>7. Number(result, s + 1) + rest * Weight[s + 1]
        = SumFunctionOnSet(Share, Taken(s + 1, DiagonalStart(s + 1)))
  <2>1. Taken(s, DiagonalEnd(s) + 1) = Taken(s + 1, DiagonalStart(s + 1))
    BY TakenNext
  <2>2. SumFunctionOnSet(Share, Taken(s + 1, DiagonalStart(s + 1)))
          = r + (low + Base * rest) * w
    BY <1>1, <2>1
  <2> HIDE DEF r, w, low, rest
  <2>3. (r + low * w) + rest * (Base * w) = r + (low + Base * rest) * w
    BY <1>0, <1>1, <1>6
  <2> QED
    BY <1>5, <1>6, <2>2, <2>3
<1>8. rest <= CarryLimit
  <2>1. CarryLimit \in Nat
    BY <1>0 DEF CarryLimit
  <2>2. low + Base * rest <= CarryLimit * Base
    BY <1>1
  <2> HIDE DEF low, rest
  <2>3. rest >= CarryLimit + 1 => Base * rest >= Base * (CarryLimit + 1)
    BY <1>0, <1>1, <2>1
  <2>4. Base * (CarryLimit + 1) = CarryLimit * Base + Base
    BY <1>0, <2>1
  <2> DEFINE x == Base * rest
             y == CarryLimit * Base
  <2>5. x \in Int /\ y \in Int /\ low + x <= y
    BY <1>0, <1>1, <2>1, <2>2
  <2>6. rest >= CarryLimit + 1 => x >= y + Base
    BY <2>3, <2>4
  <2> HIDE DEF x, y
  <2> QED
    BY <1>0, <1>1, <2>1, <2>5, <2>6
<1>9. rest <= CarryLimit + (DiagonalStart(s + 1) - DiagonalStart(s + 1)) * Largest
  <2> DEFINE d == DiagonalStart(s + 1)
  <2>1. d \in Int /\ Largest \in Int /\ CarryLimit \in Int
    BY <1>0 DEF DiagonalStart, Largest, CarryLimit
  <2> HIDE DEF d, rest
  <2>2. (d - d) * Largest = 0
    BY <2>1
  <2> QED
    BY <1>8, <2>1, <2>2 DEF d
<1>10. Carried(s + 1, DiagonalStart(s + 1), AccShr64(total), result)
  <2> HIDE DEF rest
  <2> QED
    BY <1>7, <1>9 DEF Carried, rest
<1> QED
  BY <1>10 DEF result

(* The end of the last one: the result is the product. *)
LEMMA FinishStep ==
  ASSUME TypeOK, NEW s \in Nat, s = 2 * size_of_operand - 2, NEW total \in Wide,
         Number(resultCache, s) + Value(total) * Weight[s]
           = SumFunctionOnSet(Share, Taken(s, DiagonalEnd(s) + 1))
  PROVE  Number([resultCache EXCEPT ![s] = total.a0, ![s + 1] = total.a1],
                2 * size_of_operand)
           = Number(cacheA, size_of_operand) * Number(cacheB, size_of_operand)
<1> DEFINE n == size_of_operand
           result == [resultCache EXCEPT ![s] = total.a0, ![s + 1] = total.a1]
           a0 == total.a0
           a1 == total.a1
           a2 == total.a2
           w == Weight[s]
           r == Number(resultCache, s)
           A == Number(cacheA, n)
           B == Number(cacheB, n)
<1>0. Base \in Nat /\ Base > 1 /\ n <= Limbs /\ n \in Nat /\ 1 <= n /\ Limbs \in Nat
  BY BaseIs, UsedIs DEF TypeOK
<1>1. /\ a0 \in Digit /\ a1 \in Digit /\ a0 \in Nat /\ a1 \in Nat /\ a2 \in Nat
      /\ Value(total) = a0 + a1 * Base + a2 * (Base * Base)
  BY WideFields DEF Value
<1>2. s \in 0 .. 2 * Limbs - 1 /\ s + 1 \in 0 .. 2 * Limbs - 1 /\ s + 2 = 2 * n
      /\ (s + 1) + 1 = s + 2
  BY <1>0
<1>3. /\ result[s] = a0 /\ result[s + 1] = a1
      /\ \A i \in 0 .. s - 1 : result[i] = resultCache[i]
  <2>1. DOMAIN resultCache = 0 .. 2 * Limbs - 1
    BY DEF TypeOK
  <2>2. s # s + 1 /\ \A i \in 0 .. s - 1 : i # s /\ i # s + 1
    OBVIOUS
  <2> HIDE DEF a0, a1
  <2>3. result = [resultCache EXCEPT ![s] = a0, ![s + 1] = a1]
    BY DEF a0, a1
  <2>4. /\ result[s] = a0 /\ result[s + 1] = a1
    BY <1>2, <2>1, <2>2, <2>3
  <2>5. \A i \in 0 .. s - 1 : result[i] = resultCache[i]
    <3> SUFFICES ASSUME NEW i \in 0 .. s - 1 PROVE result[i] = resultCache[i]
      OBVIOUS
    <3>1. i \in DOMAIN resultCache /\ i # s /\ i # s + 1
      BY <1>0, <1>2, <2>1
    <3> QED
      BY <2>3, <3>1
  <2> QED
    BY <2>4, <2>5
<1>4. Digits(resultCache, s) /\ Digits(result, s + 2) /\ Digits(result, s + 1)
  <2>1. ASSUME NEW i \in 0 .. s - 1 PROVE resultCache[i] \in Digit
    BY <1>0 DEF TypeOK
  <2>2. ASSUME NEW i \in 0 .. (s + 2) - 1 PROVE result[i] \in Digit
    <3>1. i \in 0 .. s - 1 \/ i = s \/ i = s + 1
      BY <2>2
    <3> HIDE DEF result
    <3> QED
      BY <1>1, <1>3, <2>1, <3>1
  <2>3. ASSUME NEW i \in 0 .. (s + 1) - 1 PROVE result[i] \in Digit
    <3>1. i \in 0 .. (s + 2) - 1
      OBVIOUS
    <3> HIDE DEF result
    <3> QED
      BY <2>2, <3>1
  <2> QED
    BY <2>1, <2>2, <2>3 DEF Digits
<1> HIDE DEF result
<1>5. Number(result, s + 2) = (r + a0 * w) + a1 * (Base * w)
  <2>1. s \in 0 .. (s + 2) - 1 /\ s + 1 \in 0 .. (s + 2) - 1 /\ s + 2 \in Nat
    OBVIOUS
  <2>2. Number(result, s + 1) = Number(result, s) + result[s] * Weight[s]
        /\ Number(result, (s + 1) + 1) = Number(result, s + 1) + result[s + 1] * Weight[s + 1]
    BY <1>4, <2>1, NumberNext
  <2>3. Number(result, s) = Number(resultCache, s)
    BY <1>3, <1>4, NumberSame
  <2>4. Weight[s + 1] = Base * Weight[s]
    BY WeightIs
  <2> QED
    BY <1>2, <1>3, <2>2, <2>3, <2>4
<1>6. r + Value(total) * w = A * B
  <2>1. Taken(s, DiagonalEnd(s) + 1) = Used \X Used
    BY TakenNext
  <2> QED
    BY <2>1, SquareIs
<1>7. w \in Nat /\ w >= 1 /\ r \in Nat
  BY <1>4, WeightIs, NumberBound
<1>8. A * B < (Base * (Base * w)) /\ A * B \in Nat
  <2>1. Weight[n] \in Nat /\ A \in 0 .. Weight[n] - 1 /\ B \in 0 .. Weight[n] - 1
    BY <1>0, UsedIs, NumberBound, WeightIs
  <2>2. Weight[n + n] = Weight[n] * Weight[n]
    BY <1>0, WeightSum
  <2>3. n + n = (s + 1) + 1 /\ Weight[(s + 1) + 1] = Base * (Base * w)
    BY <1>0, <1>2, WeightIs
  <2> DEFINE v == Weight[n]
  <2>4. A * B < v * v /\ A * B \in Nat
    <3>1. A \in Nat /\ B \in Nat /\ v \in Nat /\ A < v /\ B < v
      BY <2>1
    <3> HIDE DEF A, B, v
    <3>2. A * B <= A * v /\ A * v < v * v
      BY <3>1
    <3>3. A * B \in Nat /\ A * v \in Nat /\ v * v \in Nat
      BY <3>1
    <3> DEFINE x == A * B
               y == A * v
               z == v * v
    <3> HIDE DEF x, y, z
    <3>4. x < z
      BY <3>2, <3>3 DEF x, y, z
    <3> QED
      BY <3>3, <3>4 DEF x, z
  <2> QED
    BY <2>2, <2>3, <2>4
<1>9. a2 = 0
  <2>1. SUFFICES ASSUME a2 >= 1 PROVE FALSE
    BY <1>1
  <2> HIDE DEF r, w, A, B, a0, a1, a2
  <2>2. Value(total) * w = a0 * w + (a1 * Base) * w + (a2 * (Base * Base)) * w
    BY <1>0, <1>1, <1>7
  <2>3. (a2 * (Base * Base)) * w = a2 * (Base * (Base * w))
    BY <1>0, <1>1, <1>7
  <2> DEFINE c == Base * (Base * w)
             x == a0 * w
             y == (a1 * Base) * w
             z == a2 * c
  <2>4. x \in Nat /\ y \in Nat /\ c \in Nat
    BY <1>0, <1>1, <1>7
  <2>5. z >= c /\ z \in Nat
    <3> HIDE DEF c
    <3> QED
      BY <1>1, <2>1, <2>4
  <2>6. r + (x + y + z) < c
    BY <1>6, <1>8, <2>2, <2>3
  <2> HIDE DEF c, x, y, z
  <2> QED
    BY <1>7, <2>4, <2>5, <2>6
<1>10. (r + a0 * w) + a1 * (Base * w) = r + (a0 + a1 * Base) * w
  <2> HIDE DEF r, w, a0, a1
  <2> QED
    BY <1>0, <1>1, <1>7
<1>11. Value(total) = a0 + a1 * Base
  <2> HIDE DEF a0, a1, a2
  <2> QED
    BY <1>0, <1>1, <1>9
<1>12. Number(result, 2 * n) = A * B
  BY <1>2, <1>5, <1>6, <1>10, <1>11
<1> QED
  BY <1>12 DEF result

-------------------------------------------------------------------------------
(* The carries are exact, as the runs check it. *)

(* The run loops skip no stall cycle. *)
LoopsWait == ~Interruptible

(* One instruction at a time has the unit, and BIGMUL first computes, then *)
(* writes.                                                                 *)
OneAtATime ==
  /\ ldbm_done \/ start = "ldbm"
  /\ bigmul_done \/ start = "bigmul"
  /\ bigmul_done => bigmul_prog = 0 /\ write_done
  /\ ~write_done => bigmul_prog = 0

(* That is so between any two cycles of the multiplier. *)
CarryHeld == Computing => Carried(s_diag, k_iter, acc, resultCache)

(* Once it is done, resultCache holds the product of the operands. *)
Multiplied ==
  ~write_done =>
    Number(resultCache, 2 * size_of_operand)
      = Number(cacheA, size_of_operand) * Number(cacheB, size_of_operand)

(* The invariant behind the carries. *)
ProductInv == IInv /\ OneAtATime /\ CarryHeld /\ Multiplied

(* What the partial products are made of. *)
operandVars == <<cacheA, cacheB, size_of_operand>>

(* Neither sum changes while the caches and the size do not. *)
LEMMA CarriedSame ==
  ASSUME UNCHANGED <<operandVars, compute>>, CarryHeld
  PROVE  CarryHeld'
<1>1. Share' = Share
  BY DEF Share, operandVars
<1>2. Carried(s_diag, k_iter, acc, resultCache)' <=> Carried(s_diag, k_iter, acc, resultCache)
  BY <1>1 DEF Carried, Taken, DiagonalStart, operandVars, compute, Number
<1> QED
  BY <1>2 DEF CarryHeld, Computing, compute

(* A multiply cycle keeps the sums exact. *)
LEMMA ComputeCycleExact ==
  ASSUME CarryRoom, ProductInv, ComputeCycle, TypeOK'
  PROVE  CarryHeld' /\ Multiplied'
<1> DEFINE fresh == bigmul_prog = 0
           n   == size_of_operand
           s   == IF fresh THEN 0 ELSE s_diag
           top == IF fresh THEN 0 ELSE i_max
           k   == IF fresh THEN 0 ELSE k_iter
           a   == IF fresh THEN Zero ELSE acc
           last == 2 * n - 2
           I   == {i \in k .. k + Batch - 1 : i <= top}
           inside == \A i \in I : i \in Index /\ s - i \in Index
           sums  == IF inside THEN {BatchSum(s, I)} ELSE Wide
<1>0. TypeOK /\ OnDiagonal /\ n \in Nat /\ 1 <= n /\ Base \in Nat /\ Limbs \in Nat
      /\ Batch \in Nat
  BY UsedIs, BaseIs, UnitAssumption DEF ProductInv, IInv
<1>1. PICK sum \in sums :
        LET total == AccAddU192(a, sum) IN
        \/ /\ k + Batch <= top
           /\ acc' = total /\ k_iter' = k + Batch /\ s_diag' = s /\ i_max' = top
           /\ bigmul_prog' = 1
           /\ UNCHANGED <<resultCache, write_done>>
        \/ /\ k + Batch > top /\ s = last
           /\ acc' = AccShr64(total) /\ k_iter' = top + 1 /\ s_diag' = s /\ i_max' = top
           /\ resultCache' = [resultCache EXCEPT ![s] = total.a0, ![s + 1] = total.a1]
           /\ bigmul_prog' = 0
           /\ write_done' = FALSE
        \/ /\ k + Batch > top /\ s # last
           /\ acc' = AccShr64(total)
           /\ resultCache' = [resultCache EXCEPT ![s] = total.a0]
           /\ s_diag' = s + 1
           /\ i_max'  = DiagonalEnd(s + 1)
           /\ k_iter' = DiagonalStart(s + 1)
           /\ bigmul_prog' = 1
           /\ UNCHANGED write_done
  BY DEF ComputeCycle
<1>2. UNCHANGED operandVars /\ write_done
  BY DEF ComputeCycle, load, target, operandVars
<1>3. fresh \/ Computing
  BY <1>0 DEF TypeOK, Computing
<1>4. /\ s \in Nat /\ s <= last /\ k \in Nat /\ top \in Nat /\ top = DiagonalEnd(s)
      /\ DiagonalStart(s) <= k /\ k <= top
  <2>1. CASE fresh
    BY <1>0, <2>1 DEF DiagonalStart, DiagonalEnd
  <2>2. CASE Computing
    <3>1. s = s_diag /\ top = i_max /\ k = k_iter
      BY <2>2 DEF Computing
    <3> QED
      BY <1>0, <2>2, <3>1 DEF TypeOK, OnDiagonal
  <2> QED
    BY <1>3, <2>1, <2>2
<1>5. a \in Wide /\ Carried(s, k, a, resultCache)
  <2>1. CASE fresh
    <3>1. Zero \in Wide /\ Value(Zero) = 0
      <4>1. Zero \in Wide
        BY <1>0, BaseIs DEF Zero, Wide, Digit
      <4>2. Value(Zero) = 0 + 0 * Base + 0 * (Base * Base)
        BY DEF Zero, Value
      <4>3. Base * Base \in Nat
        BY <1>0, BaseIs
      <4> QED
        BY <1>0, <4>1, <4>2, <4>3
    <3>2. Number(resultCache, 0) = 0 /\ Weight[0] = 1
      <4>1. Digits(resultCache, 0)
        BY DEF Digits
      <4> QED
        BY <4>1, NumberNext, WeightIs
    <3>3. SumFunctionOnSet(Share, Taken(0, 0)) = 0
      <4>1. Taken(0, 0) = {}
        BY <1>0, TakenNext
      <4> QED
        BY <4>1, SumFacts, FS_EmptySet
    <3>4. Largest \in Int /\ CarryLimit \in Nat /\ DiagonalStart(0) = 0
      BY <1>0, BaseIs DEF Largest, CarryLimit, DiagonalStart
    <3>5. (0 - 0) * Largest = 0
      BY <3>4
    <3>6. Carried(0, 0, Zero, resultCache)
      BY <3>1, <3>2, <3>3, <3>4, <3>5 DEF Carried
    <3> QED
      BY <2>1, <3>1, <3>6
  <2>2. CASE Computing
    BY <1>0, <2>2 DEF ProductInv, CarryHeld, Computing, TypeOK
  <2> QED
    BY <1>3, <2>1, <2>2
<1> DEFINE b == BatchSum(s, I)
           total == AccAddU192(a, b)
<1>6. /\ inside /\ b \in Wide /\ total \in Wide
      /\ k + Batch <= top => Carried(s, k + Batch, total, resultCache)
      /\ k + Batch > top =>
           /\ Number(resultCache, s) + Value(total) * Weight[s]
                = SumFunctionOnSet(Share, Taken(s, top + 1))
           /\ Value(total) <= CarryLimit * Base
  <2>1. I = Batched(k, top)
    BY DEF Batched
  <2> HIDE DEF s, k, a, top, I
  <2> QED
    BY <1>0, <1>4, <1>5, <2>1, BatchStep DEF last
<1>7. sum = b
  BY <1>1, <1>6
<1>8. Share' = Share /\ size_of_operand' = size_of_operand
  BY <1>2 DEF Share, operandVars
<1>9. ASSUME NEW t, NEW j, NEW c, NEW r,
             s_diag' = t, k_iter' = j, acc' = c, resultCache' = r, Carried(t, j, c, r)
      PROVE  CarryHeld'
  <2>1. Carried(s_diag, k_iter, acc, resultCache)' <=> Carried(t, j, c, r)
    BY <1>8, <1>9 DEF Carried, Taken, DiagonalStart, Number
  <2> QED
    BY <1>9, <2>1 DEF CarryHeld
<1> HIDE DEF s, k, a, top, I, inside, sums, b
<1>10. CASE k + Batch <= top
  <2>1. /\ acc' = total /\ k_iter' = k + Batch /\ s_diag' = s /\ resultCache' = resultCache
        /\ UNCHANGED write_done
    <3> HIDE DEF last
    <3> QED
      BY <1>0, <1>1, <1>4, <1>7, <1>10
  <2>2. CarryHeld'
    BY <1>6, <1>9, <1>10, <2>1
  <2> QED
    BY <1>2, <2>1, <2>2 DEF Multiplied
<1>11. CASE k + Batch > top /\ s = last
  <2>1. /\ resultCache' = [resultCache EXCEPT ![s] = total.a0, ![s + 1] = total.a1]
        /\ bigmul_prog' = 0
    BY <1>0, <1>1, <1>4, <1>7, <1>11
  <2>2. CarryHeld'
    BY <2>1 DEF CarryHeld, Computing
  <2>3. Number(resultCache, 2 * n)' = Number(cacheA, n) * Number(cacheB, n)
    <3>1. Number([resultCache EXCEPT ![s] = total.a0, ![s + 1] = total.a1], 2 * n)
            = Number(cacheA, n) * Number(cacheB, n)
      <4> HIDE DEF total
      <4> QED
        BY <1>0, <1>4, <1>6, <1>11, FinishStep DEF last
    <3> HIDE DEF total
    <3> QED
      BY <1>8, <2>1, <3>1 DEF Number
  <2>4. (Number(cacheA, n) * Number(cacheB, n))' = Number(cacheA, n) * Number(cacheB, n)
    BY <1>2 DEF operandVars, Number
  <2> QED
    BY <2>2, <2>3, <2>4 DEF Multiplied
<1>12. CASE k + Batch > top /\ s # last
  <2>1. /\ resultCache' = [resultCache EXCEPT ![s] = total.a0] /\ acc' = AccShr64(total)
        /\ s_diag' = s + 1 /\ k_iter' = DiagonalStart(s + 1)
        /\ UNCHANGED write_done
    <3> HIDE DEF last
    <3> QED
      BY <1>0, <1>1, <1>4, <1>7, <1>12
  <2>2. Carried(s + 1, DiagonalStart(s + 1), AccShr64(total),
                [resultCache EXCEPT ![s] = total.a0])
    <3>1. s < 2 * size_of_operand - 2
      BY <1>0, <1>4, <1>12
    <3> HIDE DEF total
    <3> QED
      BY <1>0, <1>4, <1>6, <1>12, <3>1, EmitStep
  <2>3. CarryHeld'
    <3> HIDE DEF total
    <3> QED
      BY <1>9, <2>1, <2>2
  <2> QED
    BY <1>2, <2>1, <2>3 DEF Multiplied
<1> QED
  BY <1>0, <1>4, <1>10, <1>11, <1>12

(* The initial state has no sum and nothing to write. *)
LEMMA InitProductInv == Init => ProductInv
BY InitIInv DEF Init, ProductInv, OneAtATime, CarryHeld, Computing, Multiplied

(* Every step keeps one instruction at a time. *)
LEMMA StepOneAtATime ==
  ASSUME LoopsWait, OneAtATime, TypeOK, [Next]_vars
  PROVE  OneAtATime'
<1>1. ASSUME NEW x, NEW y, IssueLdbm(x, y) PROVE OneAtATime'
  BY <1>1 DEF IssueLdbm, MayIssue, Stalled, LoopsWait, OneAtATime, compute, target, flags
<1>2. ASSUME NEW r, NEW n, IssueBigmul(r, n) PROVE OneAtATime'
  BY <1>2 DEF IssueBigmul, MayIssue, Stalled, LoopsWait, OneAtATime, load, TypeOK
<1>3. ASSUME NEW m, IssueOther(m) PROVE OneAtATime'
  BY <1>3 DEF IssueOther, MayIssue, Stalled, LoopsWait, OneAtATime, load, compute, flags
<1>4. CASE LdbmCycle
  BY <1>4 DEF LdbmCycle, LoadBatch, OneAtATime, compute, flags
<1>5. CASE ComputeCycle
  <2>1. /\ start' = start /\ ldbm_done' = ldbm_done /\ bigmul_done' = bigmul_done
        /\ start = "bigmul" /\ ~bigmul_done /\ write_done
        /\ write_done' = write_done \/ (bigmul_prog' = 0 /\ write_done' = FALSE)
    BY <1>5 DEF ComputeCycle, load
  <2> QED
    BY <2>1 DEF OneAtATime
<1>6. CASE WriteCycle
  BY <1>6 DEF WriteCycle, WriteBatch, OneAtATime, load, compute
<1>7. CASE Reset
  BY <1>7 DEF Reset, OneAtATime
<1>8. CASE UNCHANGED vars
  BY <1>8 DEF vars, OneAtATime, load, compute, flags
<1> QED
  BY <1>1, <1>2, <1>3, <1>4, <1>5, <1>6, <1>7, <1>8 DEF Next

(* Every step keeps the sums. *)
LEMMA StepProductInv ==
  SizesFit /\ LoopsWait /\ CarryRoom /\ ProductInv /\ [Next]_vars => ProductInv'
<1> SUFFICES ASSUME SizesFit, LoopsWait, CarryRoom, ProductInv, [Next]_vars
             PROVE  ProductInv'
  OBVIOUS
<1>0. IInv /\ TypeOK /\ OneAtATime /\ CarryHeld /\ Multiplied
  BY DEF ProductInv, IInv
<1>1. IInv' /\ OneAtATime' /\ TypeOK'
  BY <1>0, StepIInv, StepOneAtATime DEF IInv
<1>2. ASSUME ComputeCycle PROVE CarryHeld' /\ Multiplied'
  BY <1>1, <1>2, ComputeCycleExact
<1>3. ASSUME bigmul_prog' = 0, write_done' PROVE CarryHeld' /\ Multiplied'
  BY <1>3 DEF CarryHeld, Computing, Multiplied
<1>4. ASSUME NEW x, NEW y, IssueLdbm(x, y) PROVE CarryHeld' /\ Multiplied'
  <2>1. bigmul_done /\ UNCHANGED <<compute, flags>>
    BY <1>0, <1>4 DEF IssueLdbm, MayIssue, Stalled, LoopsWait, OneAtATime
  <2> QED
    BY <1>0, <1>3, <2>1 DEF OneAtATime, compute, flags
<1>5. ASSUME NEW r, NEW n, IssueBigmul(r, n) PROVE CarryHeld' /\ Multiplied'
  BY <1>0, <1>3, <1>5 DEF IssueBigmul, MayIssue, Stalled, LoopsWait, OneAtATime
<1>6. ASSUME NEW m, IssueOther(m) PROVE CarryHeld' /\ Multiplied'
  <2>1. bigmul_done /\ UNCHANGED <<compute, flags>>
    BY <1>0, <1>6 DEF IssueOther, MayIssue, Stalled, LoopsWait, OneAtATime
  <2> QED
    BY <1>0, <1>3, <2>1 DEF OneAtATime, compute, flags
<1>7. ASSUME LdbmCycle PROVE CarryHeld' /\ Multiplied'
  <2>1. bigmul_done /\ UNCHANGED <<compute, flags>>
    BY <1>0, <1>7 DEF LdbmCycle, OneAtATime
  <2> QED
    BY <1>0, <1>3, <2>1 DEF OneAtATime, compute, flags
<1>8. ASSUME WriteCycle PROVE CarryHeld' /\ Multiplied'
  <2>1. UNCHANGED <<operandVars, compute>> /\ bigmul_prog = 0 /\ ~write_done
    BY <1>0, <1>8 DEF WriteCycle, OneAtATime, load, target, operandVars
  <2>2. CarryHeld'
    BY <1>0, <2>1, CarriedSame
  <2>3. Multiplied'
    BY <1>0, <2>1 DEF Multiplied, operandVars, compute, Number
  <2> QED
    BY <2>2, <2>3
<1>9. ASSUME Reset PROVE CarryHeld' /\ Multiplied'
  BY <1>3, <1>9 DEF Reset
<1>10. ASSUME UNCHANGED vars PROVE CarryHeld' /\ Multiplied'
  <2>1. UNCHANGED <<operandVars, compute>> /\ UNCHANGED write_done
    BY <1>10 DEF vars, load, target, flags, operandVars
  <2>2. CarryHeld'
    BY <1>0, <2>1, CarriedSame
  <2>3. Multiplied'
    BY <1>0, <2>1 DEF Multiplied, operandVars, compute, Number
  <2> QED
    BY <2>2, <2>3
<1>11. CarryHeld' /\ Multiplied'
  BY <1>2, <1>4, <1>5, <1>6, <1>7, <1>8, <1>9, <1>10 DEF Next, ProductInv
<1> QED
  BY <1>1, <1>11 DEF ProductInv

(* The invariant gives the statement the runs check. *)
LEMMA ProductInvImpliesCarriesExact == ProductInv => CarriesExact
<1> SUFFICES ASSUME ProductInv, Computing PROVE CarriesExact
  BY DEF CarriesExact
<1>0. TypeOK /\ Carried(s_diag, k_iter, acc, resultCache)
  BY DEF ProductInv, IInv, CarryHeld
<1>1. AccValue = Value(acc)
  <2>1. Weight[0 + 1] = Base * Weight[0] /\ Weight[(0 + 1) + 1] = Base * Weight[0 + 1]
        /\ Weight[0] = 1 /\ Base \in Nat
    BY WeightIs, BaseIs
  <2>2. Weight[1] = Base /\ Weight[2] = Base * Base
    BY <2>1
  <2> QED
    BY <2>2 DEF AccValue, Value
<1> DEFINE T == Taken(s_diag, k_iter)
           f == [p \in T |-> cacheA[p[1]] * cacheB[p[2]] * Weight[p[1] + p[2]]]
<1>2. IsFiniteSet(T) /\ \A p \in T : Share[p] \in Int /\ p \in Index \X Index
  BY <1>0, TakenFinite
<1>3. \A p \in T : f[p] = Share[p]
  <2> HIDE DEF T
  <2> QED
    BY <1>2 DEF Share
<1>4. SumFunction(f) = SumFunctionOnSet(Share, T)
  <2>1. SumFunction(f) = SumFunctionOnSet(f, T)
    <3>1. DOMAIN f = T
      OBVIOUS
    <3> QED
      BY <3>1 DEF SumFunction
  <2> HIDE DEF T, f
  <2> QED
    BY <1>2, <1>3, <2>1, SumSame
<1> QED
  BY <1>0, <1>1, <1>4 DEF CarriesExact, Carried

(* Between two cycles of singlecycle() the emitted limbs and the accumulator *)
(* are exactly the sum of all partial products taken: acc_add_u128,          *)
(* acc_add_u192 and acc_shr64 lose no carry, between the products of a batch, *)
(* between batches or between diagonals, and 192 bits never overflow.        *)
THEOREM CarriesAreExact ==
  ASSUME SizesFit, LoopsWait, CarryRoom
  PROVE  Spec => []CarriesExact
<1>1. ProductInv /\ [Next]_vars => ProductInv'
  BY SizesFit, LoopsWait, CarryRoom, StepProductInv
<1> QED
  BY InitProductInv, <1>1, ProductInvImpliesCarriesExact, PTL DEF Spec

-------------------------------------------------------------------------------
(* What LDBM has loaded and BIGMUL has written between its cycles. *)

(* A number whose digits are zero. *)
LEMMA NumberZero ==
  ASSUME NEW f, NEW n \in Nat, \A i \in 0 .. n - 1 : f[i] = 0
  PROVE  Number(f, n) = 0
<1> DEFINE S == 0 .. n - 1
           g == [i \in S |-> f[i] * Weight[i]]
<1>1. IsFiniteSet(S) /\ Cardinality(S) \in Nat
  BY FS_Interval, FS_CardinalityType
<1>2. \A i \in S : g[i] \in 0 .. 0
  BY WeightIs
<1>3. Number(f, n) = SumFunctionOnSet(g, S)
  BY DEF Number, SumFunction
<1> HIDE DEF g, S
<1>4. SumFunctionOnSet(g, S) \in 0 .. Cardinality(S) * 0
  BY <1>1, <1>2, SumBound
<1> QED
  BY <1>1, <1>3, <1>4

(* The promise weighs and adds as the unit does. *)
LEMMA PromiseNumber ==
  /\ Promise!Weight = Weight
  /\ \A f, a : (\A i \in Index : f[i] = mem[a + i]) => Promise!Number(a) = Number(f, Limbs)
<1>1. Promise!Weight = Weight
  BY DEF Promise!Weight, Weight
<1>2. ASSUME NEW f, NEW a, \A i \in Index : f[i] = mem[a + i]
      PROVE  Promise!Number(a) = Number(f, Limbs)
  <2>1. ASSUME NEW g PROVE Promise!SumFunction(g) = SumFunction(g)
    BY DEF Promise!SumFunction, SumFunction, Promise!SumFunctionOnSet, SumFunctionOnSet,
           Promise!FoldFunctionOnSet, FoldFunctionOnSet,
           Promise!MapThenFoldSet, MapThenFoldSet
  <2>2. [i \in 0 .. Limbs - 1 |-> mem[a + i] * Promise!Weight[i]]
          = [i \in 0 .. Limbs - 1 |-> f[i] * Weight[i]]
    BY <1>1, <1>2 DEF Index
  <2> QED
    BY <2>1, <2>2 DEF Promise!Number, Number
<1> QED
  BY <1>1, <1>2

-------------------------------------------------------------------------------
(* The doublewords before ldbm_offset are loaded, A's first. *)
LoadedTo(o) ==
  /\ o \in Nat /\ o % MemBatch = 0
  /\ \A i \in Index : i < o => cacheA[i] = mem[base_addr_A + i]
  /\ \A i \in Index : i < o - Limbs => cacheB[i] = mem[base_addr_B + i]

(* That is so until the load is done. *)
LoadedSoFar == ~ldbm_done => ldbm_offset < 2 * Limbs /\ LoadedTo(ldbm_offset)

(* One more batch is loaded; no batch spans the two caches. *)
LEMMA LoadBatchLoads ==
  ASSUME TypeOK, NEW a, NEW b, NEW o \in Nat, o % MemBatch = 0, o < 2 * Limbs,
         LoadBatch(a, b, o), mem' = mem,
         \A i \in Index : i < o => cacheA[i] = mem[a + i],
         \A i \in Index : i < o - Limbs => cacheB[i] = mem[b + i]
  PROVE  /\ (o + MemBatch) % MemBatch = 0
         /\ \A i \in Index : i < o + MemBatch => cacheA'[i] = mem'[base_addr_A' + i]
         /\ \A i \in Index : i < (o + MemBatch) - Limbs => cacheB'[i] = mem'[base_addr_B' + i]
<1>0. Limbs \in Nat \ {0} /\ MemBatch \in Nat \ {0} /\ Limbs % MemBatch = 0
  BY UnitAssumption
<1>1. (o + MemBatch) % MemBatch = 0 /\ (o < Limbs => o + MemBatch <= Limbs)
  <2> DEFINE p == o \div MemBatch
             q == Limbs \div MemBatch
  <2>1. p \in Nat /\ q \in Nat /\ o = MemBatch * p /\ Limbs = MemBatch * q
    BY <1>0
  <2> HIDE DEF p, q
  <2>2. o + MemBatch = MemBatch * (p + 1) + 0
    BY <1>0, <2>1
  <2>3. (o + MemBatch) % MemBatch = 0
    <3>1. 0 \in 0 .. MemBatch - 1 /\ p + 1 \in Int
      BY <1>0, <2>1
    <3> QED
      BY <1>0, <2>2, <3>1, DivMod
  <2>4. ASSUME o < Limbs PROVE o + MemBatch <= Limbs
    <3>1. p + 1 <= q
      <4>1. SUFFICES ASSUME q <= p PROVE FALSE
        BY <2>1
      <4>2. MemBatch * q <= MemBatch * p
        BY <1>0, <2>1, <4>1
      <4> QED
        BY <1>0, <2>1, <2>4, <4>2
    <3>2. MemBatch * (p + 1) <= MemBatch * q
      BY <1>0, <2>1, <3>1
    <3> QED
      BY <1>0, <2>1, <3>2
  <2> QED
    BY <2>3, <2>4
<1>2. base_addr_A' = a /\ base_addr_B' = b
  BY DEF LoadBatch
<1>3. ASSUME NEW i \in Index, i < o + MemBatch PROVE cacheA'[i] = mem[a + i]
  <2>1. CASE o < Limbs
    <3>1. cacheA' = Loaded(cacheA, o, a)
      BY <1>0, <2>1 DEF LoadBatch
    <3>2. i \in o .. o + MemBatch - 1 \/ i < o
      BY <1>0, <1>3 DEF Index
    <3> QED
      BY <3>1, <3>2 DEF Loaded
  <2>2. CASE o >= Limbs
    <3>1. cacheA' = cacheA /\ i < o
      BY <1>0, <2>2 DEF LoadBatch, Index
    <3> QED
      BY <3>1
  <2> QED
    BY <1>0, <2>1, <2>2
<1>4. ASSUME NEW i \in Index, i < (o + MemBatch) - Limbs PROVE cacheB'[i] = mem[b + i]
  <2>1. o >= Limbs
    BY <1>0, <1>1, <1>4 DEF Index
  <2>2. cacheB' = Loaded(cacheB, o - Limbs, b)
    BY <1>0, <2>1 DEF LoadBatch
  <2>3. i \in o - Limbs .. (o - Limbs) + MemBatch - 1 \/ i < o - Limbs
    BY <1>0, <1>4, <2>1 DEF Index
  <2> QED
    BY <2>2, <2>3 DEF Loaded
<1> QED
  BY <1>0, <1>1, <1>2, <1>3, <1>4

(* The digits before write_offset are in memory. *)
WrittenSoFar ==
  ~bigmul_done =>
    /\ write_done => write_offset = 0
    /\ ~write_done =>
         \A i \in 0 .. 2 * size_of_operand - 1 :
           i < write_offset => mem[base_addr_res + i] = resultCache[i]

(* The invariant behind the promise. *)
UnitInv == ProductInv /\ LoadedSoFar /\ WrittenSoFar

(* One more batch of the result is written, and nothing else. *)
LEMMA WriteBatchWrites ==
  ASSUME TypeOK, WriteBatch, UNCHANGED <<target, resultCache>>,
         \A i \in 0 .. 2 * size_of_operand - 1 :
           i < write_offset => mem[base_addr_res + i] = resultCache[i]
  PROVE  /\ \A i \in 0 .. 2 * size_of_operand - 1 :
              i < write_offset' => mem'[base_addr_res + i] = resultCache[i]
         /\ \A x \in Addr : mem'[x] # mem[x] =>
              /\ x - base_addr_res \in 0 .. 2 * size_of_operand - 1
              /\ mem'[x] = resultCache[x - base_addr_res]
         /\ bigmul_done' = (write_offset' >= 2 * size_of_operand)
         /\ write_done' = bigmul_done'
<1> DEFINE end == 2 * size_of_operand
           r == base_addr_res
           o == write_offset
<1>0. /\ MemBatch \in Nat \ {0} /\ MemSize \in Nat /\ Limbs \in Nat
      /\ size_of_operand \in Nat /\ end \in Nat /\ end <= 2 * Limbs
      /\ r \in Nat /\ r + 2 * Limbs <= MemSize /\ o \in Nat
  BY UnitAssumption DEF TypeOK
<1>1. /\ write_offset' = IF o < end THEN o + MemBatch ELSE o
      /\ mem' = [x \in Addr |->
                   IF x - r \in o .. o + MemBatch - 1 /\ x - r < end
                   THEN resultCache[x - r] ELSE mem[x]]
      /\ write_done'  = (write_offset' >= end)
      /\ bigmul_done' = (write_offset' >= end)
  BY DEF WriteBatch
<1>2. ASSUME NEW i \in 0 .. end - 1, i < write_offset' PROVE mem'[r + i] = resultCache[i]
  <2>1. r + i \in Addr /\ (r + i) - r = i /\ i < end
    BY <1>0 DEF Addr
  <2>2. i < o \/ i \in o .. o + MemBatch - 1
    BY <1>0, <1>1, <1>2
  <2>3. mem'[r + i] = IF i \in o .. o + MemBatch - 1 THEN resultCache[i] ELSE mem[r + i]
    BY <1>1, <2>1
  <2> QED
    BY <2>2, <2>3
<1>3. ASSUME NEW x \in Addr, mem'[x] # mem[x]
      PROVE  x - r \in 0 .. end - 1 /\ mem'[x] = resultCache[x - r]
  <2>1. x - r \in o .. o + MemBatch - 1 /\ x - r < end /\ mem'[x] = resultCache[x - r]
    BY <1>1, <1>3
  <2>2. x - r \in 0 .. end - 1
    BY <1>0, <2>1
  <2> QED
    BY <2>1, <2>2
<1> QED
  BY <1>1, <1>2, <1>3

(* The initial state has loaded and written nothing. *)
LEMMA InitUnitInv == Init => UnitInv
BY InitProductInv DEF Init, UnitInv, LoadedSoFar, WrittenSoFar

(* The first cycle of LDBM never is its last. *)
LEMMA IssueLdbmLoads ==
  ASSUME LoopsWait, ProductInv, NEW a, NEW b, IssueLdbm(a, b)
  PROVE  /\ ~Stalled /\ ldbm_done /\ bigmul_done
         /\ start' = "ldbm" /\ base_addr_A' = a /\ base_addr_B' = b
         /\ ~ldbm_done' /\ ldbm_offset' < 2 * Limbs /\ LoadedTo(ldbm_offset)'
         /\ UNCHANGED <<compute, target, flags, mem>>
<1>0. /\ Limbs \in Nat \ {0} /\ MemBatch \in Nat \ {0} /\ Limbs % MemBatch = 0
      /\ TypeOK
  BY UnitAssumption DEF ProductInv, IInv
<1>1. ~Stalled /\ ldbm_done /\ bigmul_done
  BY DEF IssueLdbm, MayIssue, LoopsWait, ProductInv, OneAtATime, Stalled
<1>2. /\ LoadBatch(a, b, 0) /\ UNCHANGED <<compute, target, flags, mem>> /\ start' = "ldbm"
  BY <1>1 DEF IssueLdbm
<1>3. MemBatch <= Limbs
  <2>1. SUFFICES ASSUME Limbs < MemBatch PROVE FALSE
    BY <1>0
  <2>2. Limbs \in 0 .. MemBatch - 1 /\ MemBatch * 0 + Limbs = Limbs /\ 0 \in Int
    BY <1>0, <2>1
  <2>3. (MemBatch * 0 + Limbs) % MemBatch = Limbs
    BY <1>0, <2>2, DivMod
  <2> QED
    BY <1>0, <2>2, <2>3
<1>4. /\ ldbm_offset' = 0 + MemBatch /\ ldbm_done' = (ldbm_offset' >= 2 * Limbs)
      /\ base_addr_A' = a /\ base_addr_B' = b
  BY <1>2 DEF LoadBatch
<1>5. LoadedTo(ldbm_offset)'
  <2>1. 0 % MemBatch = 0 /\ 0 < 2 * Limbs /\ 0 \in Nat
    BY <1>0
  <2>2. \A i \in Index : ~(i < 0) /\ ~(i < 0 - Limbs)
    BY <1>0 DEF Index
  <2>3. /\ (0 + MemBatch) % MemBatch = 0
        /\ \A i \in Index : i < 0 + MemBatch => cacheA'[i] = mem'[base_addr_A' + i]
        /\ \A i \in Index : i < (0 + MemBatch) - Limbs => cacheB'[i] = mem'[base_addr_B' + i]
    BY <1>0, <1>2, <2>1, <2>2, LoadBatchLoads
  <2> QED
    BY <1>0, <1>4, <2>3 DEF LoadedTo
<1>6. ldbm_offset' < 2 * Limbs /\ ~(ldbm_offset' >= 2 * Limbs)
  BY <1>0, <1>3, <1>4
<1>7. ~ldbm_done'
  <2>1. ldbm_done' <=> ldbm_offset' >= 2 * Limbs
    BY <1>2 DEF LoadBatch
  <2> QED
    BY <1>6, <2>1
<1> QED
  BY <1>1, <1>2, <1>4, <1>5, <1>6, <1>7

(* A stall cycle of LDBM. *)
LEMMA LdbmCycleLoads ==
  ASSUME UnitInv, LdbmCycle
  PROVE  /\ LoadedTo(ldbm_offset)' /\ (ldbm_done' <=> ldbm_offset' >= 2 * Limbs)
         /\ ldbm_offset' \in Nat
         /\ UNCHANGED <<base_addr_A, base_addr_B>>
<1>0. TypeOK /\ ~ldbm_done /\ LoadedTo(ldbm_offset) /\ ldbm_offset < 2 * Limbs
  BY DEF LdbmCycle, UnitInv, ProductInv, IInv, LoadedSoFar
<1>1. /\ LoadBatch(base_addr_A, base_addr_B, ldbm_offset) /\ mem' = mem
  BY DEF LdbmCycle
<1>2. /\ ldbm_offset \in Nat /\ (ldbm_offset + MemBatch) % MemBatch = 0
      /\ \A i \in Index :
           i < ldbm_offset + MemBatch => cacheA'[i] = mem'[base_addr_A' + i]
      /\ \A i \in Index :
           i < (ldbm_offset + MemBatch) - Limbs => cacheB'[i] = mem'[base_addr_B' + i]
  <2>1. /\ ldbm_offset \in Nat /\ ldbm_offset % MemBatch = 0
        /\ \A i \in Index : i < ldbm_offset => cacheA[i] = mem[base_addr_A + i]
        /\ \A i \in Index : i < ldbm_offset - Limbs => cacheB[i] = mem[base_addr_B + i]
    BY <1>0 DEF LoadedTo
  <2> QED
    BY <1>0, <1>1, <2>1, LoadBatchLoads
<1>3. /\ ldbm_offset' = ldbm_offset + MemBatch /\ (ldbm_done' <=> ldbm_offset' >= 2 * Limbs)
      /\ base_addr_A' = base_addr_A /\ base_addr_B' = base_addr_B
  BY <1>1 DEF LoadBatch
<1>4. ldbm_offset' \in Nat
  BY <1>2, <1>3, UnitAssumption
<1>5. LoadedTo(ldbm_offset)'
  BY <1>2, <1>3, <1>4 DEF LoadedTo
<1> QED
  BY <1>3, <1>4, <1>5

(* BIGMUL is issued to an idle unit only. *)
LEMMA IssueBigmulStarts ==
  ASSUME LoopsWait, ProductInv, NEW r, NEW n, IssueBigmul(r, n)
  PROVE  /\ ~Stalled /\ ldbm_done /\ bigmul_done
         /\ start' = "bigmul" /\ base_addr_res' = r /\ size_of_operand' = OperandSize(n)
         /\ ~bigmul_done' /\ write_done' /\ write_offset' = 0
         /\ UNCHANGED <<load, mem>>
BY DEF IssueBigmul, MayIssue, LoopsWait, ProductInv, OneAtATime, Stalled

(* So is any other instruction. *)
LEMMA IssueOtherStores ==
  ASSUME LoopsWait, ProductInv, NEW m, IssueOther(m)
  PROVE  /\ ~Stalled /\ ldbm_done /\ bigmul_done /\ start' = "none" /\ mem' = m
         /\ UNCHANGED <<load, compute, target, flags>>
BY DEF IssueOther, MayIssue, LoopsWait, ProductInv, OneAtATime, Stalled

(* The multiplier's cycles leave memory and the operands alone. *)
LEMMA ComputeCycleKeeps ==
  ASSUME ComputeCycle
  PROVE  /\ start = "bigmul" /\ ~bigmul_done /\ write_done
         /\ UNCHANGED <<start, load, target, bigmul_done, write_offset, mem>>
BY DEF ComputeCycle

(* Every step keeps what is loaded and written so far. *)
LEMMA StepUnitInv ==
  SizesFit /\ LoopsWait /\ CarryRoom /\ UnitInv /\ [Next]_vars => UnitInv'
<1> SUFFICES ASSUME SizesFit, LoopsWait, CarryRoom, UnitInv, [Next]_vars PROVE UnitInv'
  OBVIOUS
<1>0. /\ ProductInv /\ ProductInv' /\ LoadedSoFar /\ WrittenSoFar
      /\ TypeOK /\ OneAtATime
  BY StepProductInv DEF UnitInv, ProductInv, IInv
<1>1. ASSUME UNCHANGED <<load, mem>> PROVE LoadedSoFar'
  BY <1>0, <1>1 DEF load, LoadedSoFar, LoadedTo
<1>2. ASSUME ldbm_done' PROVE LoadedSoFar'
  BY <1>2 DEF LoadedSoFar
<1>3. ASSUME bigmul_done' PROVE WrittenSoFar'
  BY <1>3 DEF WrittenSoFar
<1>4. ASSUME NEW a, NEW b, IssueLdbm(a, b) PROVE LoadedSoFar' /\ WrittenSoFar'
  <2>1. /\ bigmul_done' /\ ldbm_offset' < 2 * Limbs /\ LoadedTo(ldbm_offset)'
    <3>1. /\ bigmul_done /\ UNCHANGED flags
          /\ ldbm_offset' < 2 * Limbs /\ LoadedTo(ldbm_offset)'
      BY <1>0, <1>4, IssueLdbmLoads
    <3> QED
      BY <3>1 DEF flags
  <2> QED
    BY <1>3, <2>1 DEF LoadedSoFar
<1>5. ASSUME NEW r, NEW n, IssueBigmul(r, n) PROVE LoadedSoFar' /\ WrittenSoFar'
  <2>1. UNCHANGED <<load, mem>> /\ write_done' /\ write_offset' = 0
    BY <1>0, <1>5, IssueBigmulStarts
  <2> QED
    BY <1>1, <2>1 DEF WrittenSoFar
<1>6. ASSUME NEW m, IssueOther(m) PROVE LoadedSoFar' /\ WrittenSoFar'
  <2>1. ldbm_done' /\ bigmul_done'
    BY <1>0, <1>6, IssueOtherStores DEF load, flags
  <2> QED
    BY <1>2, <1>3, <2>1
<1>7. ASSUME LdbmCycle PROVE LoadedSoFar' /\ WrittenSoFar'
  <2>1. bigmul_done'
    BY <1>0, <1>7 DEF LdbmCycle, OneAtATime, flags
  <2>2. LoadedTo(ldbm_offset)' /\ (ldbm_done' <=> ldbm_offset' >= 2 * Limbs)
        /\ ldbm_offset' \in Nat /\ Limbs \in Nat
    BY <1>7, LdbmCycleLoads, UnitAssumption
  <2>3. ldbm_done' \/ ldbm_offset' < 2 * Limbs
    BY <2>2
  <2> QED
    BY <1>3, <2>1, <2>2, <2>3 DEF LoadedSoFar
<1>8. ASSUME ComputeCycle PROVE LoadedSoFar' /\ WrittenSoFar'
  <2>1. /\ UNCHANGED <<load, mem, target, bigmul_done, write_offset>>
        /\ ~bigmul_done /\ write_done
    BY <1>8, ComputeCycleKeeps
  <2>2. write_offset' = 0
    BY <1>0, <2>1 DEF WrittenSoFar
  <2>3. \A i \in 0 .. 2 * size_of_operand' - 1 : ~(i < write_offset')
    BY <2>2
  <2> QED
    BY <1>1, <2>1, <2>2, <2>3 DEF WrittenSoFar
<1>9. ASSUME WriteCycle PROVE LoadedSoFar' /\ WrittenSoFar'
  <2>1. /\ start = "bigmul" /\ ~bigmul_done /\ ~write_done /\ WriteBatch
        /\ UNCHANGED <<start, load, compute, target>>
    BY <1>9 DEF WriteCycle
  <2>2. ldbm_done'
    BY <1>0, <2>1 DEF OneAtATime, load
  <2>3. /\ write_done' = bigmul_done'
        /\ \A i \in 0 .. 2 * size_of_operand - 1 :
             i < write_offset' => mem'[base_addr_res + i] = resultCache[i]
    BY <1>0, <2>1, WriteBatchWrites DEF WrittenSoFar, compute
  <2>4. WrittenSoFar'
    BY <2>1, <2>3 DEF WrittenSoFar, compute, target
  <2> QED
    BY <1>2, <2>2, <2>4
<1>10. ASSUME Reset PROVE LoadedSoFar' /\ WrittenSoFar'
  BY <1>2, <1>3, <1>10 DEF Reset
<1>11. ASSUME UNCHANGED vars PROVE LoadedSoFar' /\ WrittenSoFar'
  <2>1. UNCHANGED <<load, compute, target, flags, mem>>
    BY <1>11 DEF vars
  <2>2. WrittenSoFar'
    BY <1>0, <2>1 DEF WrittenSoFar, compute, target, flags
  <2> QED
    BY <1>1, <2>1, <2>2
<1>12. LoadedSoFar' /\ WrittenSoFar'
  <2>1. \/ \E a, b : IssueLdbm(a, b)
        \/ \E r, n : IssueBigmul(r, n)
        \/ \E m : IssueOther(m)
        \/ LdbmCycle \/ ComputeCycle \/ WriteCycle \/ Reset \/ UNCHANGED vars
    BY Zenon DEF Next
  <2> QED
    BY <1>4, <1>5, <1>6, <1>7, <1>8, <1>9, <1>10, <1>11, <2>1, Zenon
<1> QED
  BY <1>0, <1>12 DEF UnitInv

-------------------------------------------------------------------------------
(* The digits BIGMUL writes are those of the promised product. *)
LEMMA PromisedDigits ==
  ASSUME UnitInv, ldbm_done, ~write_done
  PROVE  \A i \in 0 .. 2 * size_of_operand - 1 : resultCache[i] = Promise!ProductDigit(i)
<1> DEFINE n == size_of_operand
           A == Number(cacheA, Limbs)
           B == Number(cacheB, Limbs)
           R == Number(resultCache, 2 * n)
<1>0. TypeOK /\ n \in Nat /\ n \in 0 .. Limbs /\ Limbs \in Nat /\ 2 * n \in Nat
  <2>1. TypeOK
    BY DEF UnitInv, ProductInv, IInv
  <2>2. n \in Nat /\ Limbs \in Nat
    BY <2>1, UsedIs
  <2>3. n \in 1 .. Limbs
    BY <2>1 DEF TypeOK
  <2> QED
    BY <2>1, <2>2, <2>3
<1>1. R = Number(cacheA, n) * Number(cacheB, n)
  BY DEF UnitInv, ProductInv, Multiplied
<1>2. A % Weight[n] = Number(cacheA, n) /\ B % Weight[n] = Number(cacheB, n)
  BY <1>0, UsedIs, NumberDigits
<1>3. Promise!Product = R
  BY <1>1, <1>2, PromiseNumber DEF Promise!Product
<1>4. Digits(resultCache, 2 * n)
  BY <1>0 DEF TypeOK, Digits
<1>5. \A i \in 0 .. 2 * n - 1 : (R \div Weight[i]) % Base = resultCache[i]
  BY <1>0, <1>4, NumberDigits
<1>6. \A i \in 0 .. 2 * n - 1 : Promise!ProductDigit(i) = (R \div Weight[i]) % Base
  BY <1>3, PromiseNumber DEF Promise!ProductDigit
<1> QED
  BY <1>5, <1>6

-------------------------------------------------------------------------------
(* Every step of the unit is one that the promise allows. *)

(* Reading the promise's view of a state. *)
Busy == IF ~Stalled THEN "idle" ELSE IF start = "ldbm" THEN "load" ELSE "mul"

Operands == IF ldbm_done THEN <<Number(cacheA, Limbs), Number(cacheB, Limbs)>> ELSE <<>>

(* Caches of zeros hold the number 0. *)
LEMMA ZeroOperands ==
  ASSUME NEW f, f = [i \in Index |-> 0]
  PROVE  Number(f, Limbs) = 0
BY NumberZero, UnitAssumption DEF Index

(* LDBM's issue starts the promised load. *)
LEMMA IssueLdbmImplements ==
  ASSUME LoopsWait, UnitInv, NEW a, NEW b, IssueLdbm(a, b)
  PROVE  Promise!StartLoad(a, b)
<1>1. /\ ~Stalled /\ ldbm_done /\ bigmul_done
      /\ start' = "ldbm" /\ base_addr_A' = a /\ base_addr_B' = b /\ ~ldbm_done'
      /\ UNCHANGED <<compute, target, flags, mem>>
  BY IssueLdbmLoads DEF UnitInv
<1>2. Busy = "idle" /\ Busy' = "load" /\ Operands' = <<>>
  BY <1>1 DEF Busy, Stalled, Operands
<1> QED
  BY <1>1, <1>2 DEF Promise!StartLoad, Busy, Operands, target

(* A load cycle is invisible until the last one, which captures both numbers. *)
LEMMA LdbmCycleImplements ==
  ASSUME UnitInv, LdbmCycle
  PROVE  Promise!FinishLoad \/ UNCHANGED Promise!vars
<1>0. Limbs \in Nat \ {0}
  BY UnitAssumption
<1>1. /\ start = "ldbm" /\ ~ldbm_done
      /\ UNCHANGED <<start, compute, target, flags, mem>>
  BY DEF LdbmCycle
<1>2. /\ LoadedTo(ldbm_offset)' /\ (ldbm_done' <=> ldbm_offset' >= 2 * Limbs)
      /\ ldbm_offset' \in Nat /\ UNCHANGED <<base_addr_A, base_addr_B>>
  BY LdbmCycleLoads
<1>3. bigmul_done \/ start = "bigmul"
  BY DEF UnitInv, ProductInv, OneAtATime
<1>4. Busy = "load" /\ Operands = <<>>
  BY <1>1 DEF Busy, Stalled, Operands
<1>5. CASE ~ldbm_done'
  <2>1. Busy' = "load" /\ Operands' = <<>>
    BY <1>1, <1>5 DEF Busy, Stalled, Operands
  <2> QED
    BY <1>1, <1>2, <1>4, <2>1 DEF Promise!vars, Busy, Operands, target
<1>6. CASE ldbm_done'
  <2>1. Busy' = "idle"
    BY <1>1, <1>6 DEF Busy, Stalled
  <2>2. \A i \in Index : cacheA'[i] = mem[base_addr_A + i] /\ cacheB'[i] = mem[base_addr_B + i]
    <3>1. ASSUME NEW i \in Index
          PROVE  cacheA'[i] = mem'[base_addr_A' + i] /\ cacheB'[i] = mem'[base_addr_B' + i]
      <4>1. i < ldbm_offset' /\ i < ldbm_offset' - Limbs
        <5>1. ldbm_offset' >= 2 * Limbs
          BY <1>2, <1>6
        <5> DEFINE o == ldbm_offset'
        <5>2. o \in Int /\ o >= 2 * Limbs /\ i \in 0 .. Limbs - 1 /\ Limbs \in Nat
          BY <1>0, <1>2, <5>1 DEF Index
        <5> HIDE DEF o
        <5>3. i < o /\ i < o - Limbs
          BY <5>2
        <5> QED
          BY <5>3 DEF o
      <4> QED
        BY <1>2, <4>1 DEF LoadedTo
    <3> QED
      BY <1>1, <1>2, <3>1
  <2>3. Operands' = <<Promise!Number(base_addr_A), Promise!Number(base_addr_B)>>
    <3>1. Number(cacheA, Limbs)' = Promise!Number(base_addr_A)
      <4> DEFINE f == cacheA'
      <4>1. Number(cacheA, Limbs)' = Number(f, Limbs)
        BY DEF Number
      <4>2. \A i \in Index : f[i] = mem[base_addr_A + i]
        BY <2>2
      <4> HIDE DEF f
      <4> QED
        BY <4>1, <4>2, PromiseNumber
    <3>2. Number(cacheB, Limbs)' = Promise!Number(base_addr_B)
      <4> DEFINE f == cacheB'
      <4>1. Number(cacheB, Limbs)' = Number(f, Limbs)
        BY DEF Number
      <4>2. \A i \in Index : f[i] = mem[base_addr_B + i]
        BY <2>2
      <4> HIDE DEF f
      <4> QED
        BY <4>1, <4>2, PromiseNumber
    <3> QED
      BY <1>6, <3>1, <3>2 DEF Operands
  <2> QED
    BY <1>1, <1>2, <1>4, <2>1, <2>3 DEF Promise!FinishLoad, Busy, Operands, target
<1> QED
  BY <1>5, <1>6

(* BIGMUL's issue starts the promised multiplication. *)
LEMMA IssueBigmulImplements ==
  ASSUME LoopsWait, UnitInv, NEW r, NEW n \in Sizes, IssueBigmul(r, n)
  PROVE  Promise!StartMul(r, n)
<1>1. /\ ~Stalled /\ ldbm_done /\ bigmul_done
      /\ start' = "bigmul" /\ base_addr_res' = r /\ size_of_operand' = OperandSize(n)
      /\ ~bigmul_done'
      /\ UNCHANGED <<load, mem>>
  BY IssueBigmulStarts DEF UnitInv
<1>2. Busy = "idle" /\ Busy' = "mul"
  BY <1>1 DEF Busy, Stalled
<1>3. UNCHANGED Operands
  BY <1>1 DEF Operands, load, Number
<1>4. size_of_operand' = IF n \in 1 .. SizeLimit - 1 THEN n ELSE size_of_operand
  BY <1>1, UnitAssumption DEF OperandSize
<1> QED
  BY <1>1, <1>2, <1>3, <1>4 DEF Promise!StartMul, Busy, Operands, load

(* A multiply cycle is invisible. *)
LEMMA ComputeCycleImplements ==
  ASSUME UnitInv, ComputeCycle
  PROVE  UNCHANGED Promise!vars
<1>1. UNCHANGED <<start, load, target, bigmul_done, write_offset, mem>>
  BY ComputeCycleKeeps
<1>2. UNCHANGED Operands /\ UNCHANGED Busy
  BY <1>1 DEF Operands, Busy, Stalled, load, Number
<1> QED
  BY <1>1, <1>2 DEF Promise!vars, Busy, Operands, load, target

(* A write cycle stores digits of the product, the last one all the rest. *)
LEMMA WriteCycleImplements ==
  ASSUME UnitInv, WriteCycle
  PROVE  Promise!StoreDigits
<1> DEFINE end == 2 * size_of_operand
<1>0. TypeOK /\ OneAtATime /\ end \in Nat
  BY UsedIs DEF UnitInv, ProductInv, IInv
<1>1. /\ start = "bigmul" /\ ~bigmul_done /\ ~write_done /\ WriteBatch
      /\ UNCHANGED <<start, load, compute, target>>
  BY DEF WriteCycle
<1>2. ldbm_done
  BY <1>0, <1>1 DEF OneAtATime
<1>3. /\ \A i \in 0 .. end - 1 :
           i < write_offset' => mem'[base_addr_res + i] = resultCache[i]
      /\ \A x \in Addr : mem'[x] # mem[x] =>
           /\ x - base_addr_res \in 0 .. end - 1
           /\ mem'[x] = resultCache[x - base_addr_res]
      /\ bigmul_done' = (write_offset' >= end)
  BY <1>0, <1>1, WriteBatchWrites DEF UnitInv, WrittenSoFar, compute
<1>4. \A i \in 0 .. end - 1 : resultCache[i] = Promise!ProductDigit(i)
  BY <1>1, <1>2, PromisedDigits
<1>5. \A x \in Addr : mem'[x] # mem[x] =>
        Promise!InResult(x) /\ mem'[x] = Promise!ProductDigit(x - base_addr_res)
  BY <1>3, <1>4 DEF Promise!InResult
<1>6. Busy = "mul" /\ UNCHANGED Operands
  BY <1>1 DEF Busy, Stalled, Operands, load, Number
<1>7. CASE ~bigmul_done'
  <2>1. Busy' = "mul"
    BY <1>1, <1>7 DEF Busy, Stalled
  <2> QED
    BY <1>1, <1>5, <1>6, <2>1
    DEF Promise!StoreDigits, Promise!Addr, Addr, Busy, Operands, load, target
<1>8. CASE bigmul_done'
  <2>1. Busy' = "idle"
    BY <1>1, <1>8 DEF Busy, Stalled
  <2>2. ASSUME NEW x \in Addr, Promise!InResult(x)
        PROVE  mem'[x] = Promise!ProductDigit(x - base_addr_res)
    <3>1. x - base_addr_res \in 0 .. end - 1
      BY <2>2 DEF Promise!InResult
    <3>2. x - base_addr_res < write_offset' /\ base_addr_res + (x - base_addr_res) = x
      <4>1. write_offset' >= end /\ write_offset' \in Nat
        <5>1. write_offset' \in Nat
          BY <1>0, <1>1, WriteBatchTyped
        <5> QED
          BY <1>3, <1>8, <5>1
      <4>2. x \in Int /\ base_addr_res \in Int
        BY <1>0, UnitAssumption DEF Addr, TypeOK
      <4> QED
        BY <1>0, <3>1, <4>1, <4>2
    <3>3. mem'[base_addr_res + (x - base_addr_res)] = resultCache[x - base_addr_res]
      BY <1>3, <3>1, <3>2
    <3> QED
      BY <1>4, <3>1, <3>2, <3>3
  <2> QED
    BY <1>1, <1>5, <1>6, <2>1, <2>2
    DEF Promise!StoreDigits, Promise!Addr, Addr, Busy, Operands, load, target
<1> QED
  BY <1>7, <1>8

(* Reset is the promised one. *)
LEMMA ResetImplements ==
  ASSUME Reset
  PROVE  Promise!Reset
<1>1. Number(cacheA, Limbs)' = 0 /\ Number(cacheB, Limbs)' = 0
  <2> DEFINE f == cacheA'
             g == cacheB'
  <2>1. f = [i \in Index |-> 0] /\ g = [i \in Index |-> 0]
    BY DEF Reset
  <2>2. Number(cacheA, Limbs)' = Number(f, Limbs) /\ Number(cacheB, Limbs)' = Number(g, Limbs)
    BY DEF Number
  <2> HIDE DEF f, g
  <2> QED
    BY <2>1, <2>2, ZeroOperands
<1>2. Operands' = <<0, 0>> /\ Busy' = "idle"
  BY <1>1 DEF Operands, Reset, Busy, Stalled
<1> QED
  BY <1>2 DEF Promise!Reset, Reset, Busy, Operands, Promise!Addr, Addr

(* Every step of the unit is a promised step or invisible. *)
LEMMA StepImplements ==
  ASSUME LoopsWait, UnitInv, [Next]_vars
  PROVE  [Promise!Next]_(Promise!vars)
<1>1. ASSUME NEW a \in LoadAddrs, NEW b \in LoadAddrs, IssueLdbm(a, b) PROVE Promise!Next
  BY <1>1, IssueLdbmImplements DEF Promise!Next
<1>2. ASSUME NEW r \in ResultAddrs, NEW n \in Sizes, IssueBigmul(r, n) PROVE Promise!Next
  BY <1>2, IssueBigmulImplements DEF Promise!Next
<1>3. ASSUME NEW m, IssueOther(m)
      PROVE  /\ mem' = m /\ Busy = "idle" /\ Busy' = "idle" /\ UNCHANGED Operands
             /\ UNCHANGED <<base_addr_A, base_addr_B, base_addr_res, size_of_operand>>
  <2>1. /\ ~Stalled /\ start' = "none" /\ mem' = m /\ UNCHANGED <<load, target>>
    BY <1>3, IssueOtherStores DEF UnitInv
  <2> QED
    BY <2>1 DEF Busy, Stalled, Operands, load, target, Number
<1>4. ASSUME IssueOther(mem) PROVE UNCHANGED Promise!vars
  BY <1>3, <1>4 DEF Promise!vars, Busy, Operands
<1>5. ASSUME NEW st \in Stores, IssueOther([mem EXCEPT ![st[1]] = st[2]]) PROVE Promise!Next
  <2>1. Promise!Other
    BY <1>3, <1>5 DEF Promise!Other, Busy, Operands
  <2> QED
    BY <2>1 DEF Promise!Next
<1>6. ASSUME LdbmCycle PROVE Promise!Next \/ UNCHANGED Promise!vars
  BY <1>6, LdbmCycleImplements DEF Promise!Next
<1>7. ASSUME ComputeCycle PROVE UNCHANGED Promise!vars
  BY <1>7, ComputeCycleImplements
<1>8. ASSUME WriteCycle PROVE Promise!Next
  BY <1>8, WriteCycleImplements DEF Promise!Next
<1>9. ASSUME Reset PROVE Promise!Next
  BY <1>9, ResetImplements DEF Promise!Next
<1>10. ASSUME UNCHANGED vars PROVE UNCHANGED Promise!vars
  <2>1. UNCHANGED <<start, load, target, flags, mem>>
    BY <1>10 DEF vars
  <2>2. UNCHANGED Operands /\ UNCHANGED Busy
    BY <2>1 DEF Operands, Busy, Stalled, load, flags, Number
  <2> QED
    BY <2>1, <2>2 DEF Promise!vars, Busy, Operands, load, target
<1> QED
  BY <1>1, <1>2, <1>4, <1>5, <1>6, <1>7, <1>8, <1>9, <1>10 DEF Next

(* The initial state is a promised one. *)
LEMMA InitImplements == Init => Promise!Init
<1> SUFFICES ASSUME Init PROVE Promise!Init
  OBVIOUS
<1>1. Number(cacheA, Limbs) = 0 /\ Number(cacheB, Limbs) = 0
  BY ZeroOperands DEF Init
<1>2. Operands = <<0, 0>> /\ Busy = "idle"
  BY <1>1 DEF Init, Operands, Busy, Stalled
<1> QED
  BY <1>2 DEF Init, Promise!Init, Busy, Operands

(* What a program sees of LDBM and BIGMUL is a number captured from memory    *)
(* and a product stored there, digit by digit: the batches of the loads, the *)
(* diagonals, the cycles and the batches of the write-back do not show.      *)
THEOREM PromiseKept ==
  ASSUME SizesFit, LoopsWait, CarryRoom
  PROVE  Spec => KeepsPromise
<1>1. UnitInv /\ [Next]_vars => UnitInv'
  BY SizesFit, LoopsWait, CarryRoom, StepUnitInv
<1>2. UnitInv /\ [Next]_vars => [Promise!Next]_(Promise!vars)
  BY LoopsWait, StepImplements
<1> QED
  BY InitUnitInv, InitImplements, <1>1, <1>2, PTL DEF Spec, KeepsPromise, Promise!Spec
===============================================================================
