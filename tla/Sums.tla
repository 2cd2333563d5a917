-------------------------------- MODULE Sums --------------------------------
(***************************************************************************)
(* What MapThenSumSet computes: lemmas about the sum of a function over a  *)
(* finite set, for the proofs about ledgers, rules and outcomes.           *)
(*                                                                         *)
(* The library's induction theorems take an operator as a parameter, which *)
(* no prover here can instantiate.  Induction is done by hand instead: a   *)
(* set of counterexamples without a smallest one is empty.                 *)
(***************************************************************************)
EXTENDS Integers, FiniteSetsExt, TLAPS, FiniteSetTheorems, WellFoundedInduction

\* The sum of f[x] over the x in S.
SumOver(f, S) == MapThenSumSet(LAMBDA x : f[x], S)

Chosen(S) == CHOOSE x \in S : TRUE

\* g is the recursive function that MapThenSumSet defines on the subsets of S.
IsSumOf(g, f, S) ==
    g = [ T \in SUBSET S |-> IF T = {} THEN 0 ELSE f[Chosen(T)] + g[T \ {Chosen(T)}] ]

\* A set of finite sets in which each has a smaller one is empty.
LEMMA SubsetDescent ==
    ASSUME NEW S, IsFiniteSet(S), NEW Bad \in SUBSET SUBSET S,
           \A T \in Bad : \E U \in Bad : U \subseteq T /\ U # T
    PROVE  Bad = {}
<1> SUFFICES ASSUME Bad # {} PROVE FALSE
  OBVIOUS
<1>1. Bad \subseteq FiniteSubsetsOf(S)
  BY FS_Subset DEF FiniteSubsetsOf
<1>2. PICK T \in Bad : \A U \in Bad : ~ (<< U, T >> \in StrictSubsetOrdering(S))
  BY <1>1, FS_StrictSubsetOrderingWellFounded, WFMin
<1>3. PICK U \in Bad : U \subseteq T /\ U # T
  OBVIOUS
<1>4. << U, T >> \in StrictSubsetOrdering(S)
  BY <1>3 DEF StrictSubsetOrdering
<1>5. QED
  BY <1>2, <1>4

\* Natural numbers of which each has a smaller one are none.
LEMMA NumberDescent ==
    ASSUME NEW Bad \in SUBSET Nat, \A m \in Bad : \E n \in Bad : n < m
    PROVE  Bad = {}
<1> SUFFICES ASSUME Bad # {} PROVE FALSE
  OBVIOUS
<1>1. PICK m \in Bad : \A n \in Bad : ~ (<< n, m >> \in OpToRel(<, Nat))
  BY NatLessThanWellFounded, WFMin
<1>2. PICK n \in Bad : n < m
  OBVIOUS
<1>3. << n, m >> \in OpToRel(<, Nat)
  BY <1>2 DEF OpToRel
<1>4. QED
  BY <1>1, <1>3

LEMMA SumsUnique ==
    ASSUME NEW f, NEW S, IsFiniteSet(S), NEW g, NEW h, IsSumOf(g, f, S), IsSumOf(h, f, S)
    PROVE  g = h
<1> DEFINE Bad == { T \in SUBSET S : g[T] # h[T] }
<1>1. ASSUME NEW T \in Bad PROVE \E U \in Bad : U \subseteq T /\ U # T
  <2>1. T # {}
    BY DEF IsSumOf
  <2>2. Chosen(T) \in T
    BY <2>1 DEF Chosen
  <2>3. g[T] = f[Chosen(T)] + g[T \ {Chosen(T)}] /\ h[T] = f[Chosen(T)] + h[T \ {Chosen(T)}]
    BY <2>1 DEF IsSumOf
  <2>4. T \ {Chosen(T)} \in Bad
    BY <2>3
  <2>5. QED
    BY <2>2, <2>4
<1>2. Bad = {}
  <2> HIDE DEF Bad
  <2>1. Bad \in SUBSET SUBSET S
    BY DEF Bad
  <2>2. QED
    BY <1>1, <2>1, SubsetDescent
<1>3. g = [ T \in SUBSET S |-> g[T] ] /\ h = [ T \in SUBSET S |-> h[T] ]
  BY DEF IsSumOf
<1>4. QED
  BY <1>2, <1>3

LEMMA SumIsChosen ==
    ASSUME NEW f, NEW S
    PROVE  SumOver(f, S) = (CHOOSE g : IsSumOf(g, f, S))[S]
  BY DEF SumOver, MapThenSumSet, MapThenFoldSet, IsSumOf, Chosen

\* The equation that MapThenFoldSet is defined by holds.
LEMMA SumEquation ==
    ASSUME NEW f, NEW S, IsFiniteSet(S)
    PROVE  SumOver(f, S) = IF S = {} THEN 0 ELSE f[Chosen(S)] + SumOver(f, S \ {Chosen(S)})
<1> DEFINE Right(T) == IF T = {} THEN 0 ELSE f[Chosen(T)] + SumOver(f, T \ {Chosen(T)})
           Bad == { T \in SUBSET S : SumOver(f, T) # Right(T) }
<1>1. ASSUME NEW T \in Bad, \A U \in Bad : U \subseteq T => U = T PROVE FALSE
  <2> DEFINE h == [ U \in SUBSET T |-> Right(U) ]
  <2>1. ASSUME NEW U \in SUBSET T
        PROVE  h[U] = IF U = {} THEN 0 ELSE f[Chosen(U)] + h[U \ {Chosen(U)}]
    <3>1. CASE U = {}
      BY <3>1
    <3>2. CASE U # {}
      <4>1. Chosen(U) \in U
        BY <3>2 DEF Chosen
      <4>2. U \ {Chosen(U)} \in SUBSET T /\ U \ {Chosen(U)} # T
        BY <4>1
      <4>3. U \ {Chosen(U)} \notin Bad
        BY <1>1, <4>2
      <4>4. SumOver(f, U \ {Chosen(U)}) = Right(U \ {Chosen(U)})
        BY <4>2, <4>3
      <4>5. h[U \ {Chosen(U)}] = SumOver(f, U \ {Chosen(U)})
        BY <4>2, <4>4
      <4>6. QED
        BY <3>2, <4>5
    <3>3. QED
      BY <3>1, <3>2
  <2>2. IsSumOf(h, f, T)
    <3> HIDE DEF h
    <3>1. h = [ U \in SUBSET T |-> h[U] ]
      BY DEF h
    <3>2. QED
      BY <2>1, <3>1 DEF IsSumOf
  <2>3. IsFiniteSet(T)
    BY FS_Subset
  <2>4. IsSumOf(CHOOSE g : IsSumOf(g, f, T), f, T)
    BY <2>2
  <2>5. (CHOOSE g : IsSumOf(g, f, T)) = h
    BY <2>2, <2>3, <2>4, SumsUnique
  <2>6. SumOver(f, T) = h[T]
    BY <2>5, SumIsChosen
  <2>7. QED
    BY <2>6
<1>2. Bad = {}
  <2> HIDE DEF Bad
  <2>1. Bad \in SUBSET SUBSET S
    BY DEF Bad
  <2>2. QED
    BY <1>1, <2>1, SubsetDescent
<1>3. QED
  BY <1>2

LEMMA SumEmpty == ASSUME NEW f PROVE SumOver(f, {}) = 0
  BY SumEquation, FS_EmptySet

LEMMA SumInt ==
    ASSUME NEW f, NEW S, IsFiniteSet(S), \A x \in S : f[x] \in Int
    PROVE  SumOver(f, S) \in Int
<1> DEFINE Bad == { T \in SUBSET S : SumOver(f, T) \notin Int }
<1>1. ASSUME NEW T \in Bad PROVE \E U \in Bad : U \subseteq T /\ U # T
  <2>1. T # {}
    BY SumEmpty
  <2>2. Chosen(T) \in T
    BY <2>1 DEF Chosen
  <2>3. SumOver(f, T) = f[Chosen(T)] + SumOver(f, T \ {Chosen(T)})
    BY <2>1, SumEquation, FS_Subset
  <2>4. T \ {Chosen(T)} \in Bad
    BY <2>2, <2>3
  <2>5. QED
    BY <2>2, <2>4
<1>2. Bad = {}
  <2> HIDE DEF Bad
  <2>1. Bad \in SUBSET SUBSET S
    BY DEF Bad
  <2>2. QED
    BY <1>1, <2>1, SubsetDescent
<1>3. QED
  BY <1>2

\* A sum splits off any of its terms.
LEMMA SumRemove ==
    ASSUME NEW f, NEW S, IsFiniteSet(S), \A x \in S : f[x] \in Int, NEW x \in S
    PROVE  SumOver(f, S) = f[x] + SumOver(f, S \ {x})
<1> DEFINE Bad == { T \in SUBSET S : \E y \in T : SumOver(f, T) # f[y] + SumOver(f, T \ {y}) }
<1>1. ASSUME NEW T \in Bad, \A U \in Bad : U \subseteq T => U = T PROVE FALSE
  <2>1. PICK y \in T : SumOver(f, T) # f[y] + SumOver(f, T \ {y})
    OBVIOUS
  <2> DEFINE c == Chosen(T)
             rest == (T \ {c}) \ {y}
  <2>2. c \in T
    BY <2>1 DEF Chosen
  <2>3. \A U \in SUBSET S : IsFiniteSet(U) /\ SumOver(f, U) \in Int
    BY FS_Subset, SumInt
  <2>4. SumOver(f, T) = f[c] + SumOver(f, T \ {c})
    BY <2>2, <2>3, SumEquation
  <2>5. y # c
    BY <2>1, <2>4
  <2>6. T \ {c} \notin Bad /\ T \ {y} \notin Bad
    BY <1>1, <2>2
  <2>7. SumOver(f, T \ {c}) = f[y] + SumOver(f, rest)
    BY <2>5, <2>6
  <2>8. (T \ {y}) \ {c} = rest
    OBVIOUS
  <2>9. SumOver(f, T \ {y}) = f[c] + SumOver(f, rest)
    BY <2>2, <2>5, <2>6, <2>8
  <2>10. f[c] \in Int /\ f[y] \in Int /\ SumOver(f, rest) \in Int
    BY <2>2, <2>3
  <2>11. QED
    BY <2>1, <2>4, <2>7, <2>9, <2>10
<1>2. Bad = {}
  <2> HIDE DEF Bad
  <2>1. Bad \in SUBSET SUBSET S
    BY DEF Bad
  <2>2. QED
    BY <1>1, <2>1, SubsetDescent
<1>3. QED
  BY <1>2

LEMMA SumAdd ==
    ASSUME NEW f, NEW S, IsFiniteSet(S), NEW x, x \notin S, f[x] \in Int, \A y \in S : f[y] \in Int
    PROVE  SumOver(f, S \union {x}) = f[x] + SumOver(f, S)
<1>1. IsFiniteSet(S \union {x})
  BY FS_AddElement
<1>2. (S \union {x}) \ {x} = S
  OBVIOUS
<1>3. QED
  BY <1>1, <1>2, SumRemove

\* Functions that agree have the same sums.
LEMMA SumSame ==
    ASSUME NEW f, NEW g, NEW S, IsFiniteSet(S), \A x \in S : f[x] = g[x]
    PROVE  SumOver(f, S) = SumOver(g, S)
<1> DEFINE Bad == { T \in SUBSET S : SumOver(f, T) # SumOver(g, T) }
<1>1. ASSUME NEW T \in Bad PROVE \E U \in Bad : U \subseteq T /\ U # T
  <2>1. T # {}
    BY SumEmpty
  <2>2. Chosen(T) \in T
    BY <2>1 DEF Chosen
  <2>3. /\ SumOver(f, T) = f[Chosen(T)] + SumOver(f, T \ {Chosen(T)})
        /\ SumOver(g, T) = g[Chosen(T)] + SumOver(g, T \ {Chosen(T)})
    BY <2>1, SumEquation, FS_Subset
  <2>4. T \ {Chosen(T)} \in Bad
    BY <2>2, <2>3
  <2>5. QED
    BY <2>2, <2>4
<1>2. Bad = {}
  <2> HIDE DEF Bad
  <2>1. Bad \in SUBSET SUBSET S
    BY DEF Bad
  <2>2. QED
    BY <1>1, <2>1, SubsetDescent
<1>3. QED
  BY <1>2

\* The sums of the subsets are that recursive function.
LEMMA SumsExist ==
    ASSUME NEW f, NEW S, IsFiniteSet(S)
    PROVE  IsSumOf([ T \in SUBSET S |-> SumOver(f, T) ], f, S)
<1> DEFINE g == [ T \in SUBSET S |-> SumOver(f, T) ]
<1>1. ASSUME NEW T \in SUBSET S
      PROVE  g[T] = IF T = {} THEN 0 ELSE f[Chosen(T)] + g[T \ {Chosen(T)}]
  BY FS_Subset, SumEquation
<1>2. g = [ T \in SUBSET S |-> g[T] ]
  OBVIOUS
<1> HIDE DEF g
<1>3. IsSumOf(g, f, S)
  BY <1>1, <1>2 DEF IsSumOf
<1>4. QED
  BY <1>3 DEF g

\* A sum splits into the sums of a part and of the rest.
LEMMA SumSplit ==
    ASSUME NEW f, NEW S, IsFiniteSet(S), \A x \in S : f[x] \in Int, NEW P \in SUBSET S
    PROVE  SumOver(f, S) = SumOver(f, P) + SumOver(f, S \ P)
<1> DEFINE Bad == { T \in SUBSET P : SumOver(f, S) # SumOver(f, T) + SumOver(f, S \ T) }
<1>1. ASSUME NEW T \in Bad PROVE \E U \in Bad : U \subseteq T /\ U # T
  <2>1. \A U \in SUBSET S : IsFiniteSet(U) /\ SumOver(f, U) \in Int
    BY FS_Subset, SumInt
  <2>2. T # {}
    <3>1. SumOver(f, S) \in Int /\ S \ {} = S
      BY <2>1
    <3>2. QED
      BY <3>1, SumEmpty
  <2>3. PICK x \in T : TRUE
    BY <2>2
  <2>4. SumOver(f, T) = f[x] + SumOver(f, T \ {x})
    BY <2>1, SumRemove
  <2>5. (S \ (T \ {x})) \ {x} = S \ T /\ x \in S \ (T \ {x})
    OBVIOUS
  <2>6. SumOver(f, S \ (T \ {x})) = f[x] + SumOver(f, S \ T)
    BY <2>1, <2>5, SumRemove
  <2>7. f[x] \in Int /\ SumOver(f, T \ {x}) \in Int /\ SumOver(f, S \ T) \in Int
    BY <2>1
  <2>8. T \ {x} \in Bad
    BY <2>4, <2>6, <2>7
  <2>9. QED
    BY <2>8
<1>2. Bad = {}
  <2> HIDE DEF Bad
  <2>1. Bad \in SUBSET SUBSET P /\ IsFiniteSet(P)
    BY FS_Subset DEF Bad
  <2>2. QED
    BY <1>1, <2>1, SubsetDescent
<1>3. QED
  BY <1>2

LEMMA SumNat ==
    ASSUME NEW f, NEW S, IsFiniteSet(S), \A x \in S : f[x] \in Nat
    PROVE  SumOver(f, S) \in Nat
<1> DEFINE Bad == { T \in SUBSET S : SumOver(f, T) \notin Nat }
<1>1. ASSUME NEW T \in Bad PROVE \E U \in Bad : U \subseteq T /\ U # T
  <2>1. T # {}
    BY SumEmpty
  <2>2. Chosen(T) \in T
    BY <2>1 DEF Chosen
  <2>3. SumOver(f, T) = f[Chosen(T)] + SumOver(f, T \ {Chosen(T)})
    BY <2>1, SumEquation, FS_Subset
  <2>4. T \ {Chosen(T)} \in Bad
    BY <2>2, <2>3
  <2>5. QED
    BY <2>2, <2>4
<1>2. Bad = {}
  <2> HIDE DEF Bad
  <2>1. Bad \in SUBSET SUBSET S
    BY DEF Bad
  <2>2. QED
    BY <1>1, <2>1, SubsetDescent
<1>3. QED
  BY <1>2

\* A part of a sum of natural numbers is at most the whole.
LEMMA SumPart ==
    ASSUME NEW f, NEW S, IsFiniteSet(S), \A x \in S : f[x] \in Nat, NEW P \in SUBSET S
    PROVE  SumOver(f, P) <= SumOver(f, S)
<1>1. SumOver(f, P) \in Nat /\ SumOver(f, S \ P) \in Nat
  BY FS_Subset, SumNat
<1>2. SumOver(f, S) = SumOver(f, P) + SumOver(f, S \ P)
  BY SumSplit
<1>3. QED
  BY <1>1, <1>2

LEMMA SumSingle == ASSUME NEW f, NEW x, f[x] \in Int PROVE SumOver(f, {x}) = f[x]
<1>1. IsFiniteSet({x}) /\ {x} \ {x} = {}
  BY FS_Singleton
<1>2. SumOver(f, {x}) = f[x] + SumOver(f, {})
  BY <1>1, SumRemove
<1>3. QED
  BY <1>2, SumEmpty

\* The sum of differences is the difference of the sums.
LEMMA SumMinus ==
    ASSUME NEW f, NEW g, NEW h, NEW S, IsFiniteSet(S),
           \A x \in S : g[x] \in Int /\ h[x] \in Int /\ f[x] = g[x] - h[x]
    PROVE  SumOver(f, S) = SumOver(g, S) - SumOver(h, S)
<1> DEFINE Bad == { T \in SUBSET S : SumOver(f, T) # SumOver(g, T) - SumOver(h, T) }
<1>1. ASSUME NEW T \in Bad PROVE \E U \in Bad : U \subseteq T /\ U # T
  <2>1. T # {}
    <3>1. SumOver(f, {}) = 0 /\ SumOver(g, {}) = 0 /\ SumOver(h, {}) = 0
      BY SumEmpty
    <3>2. SumOver(f, {}) = SumOver(g, {}) - SumOver(h, {})
      BY <3>1
    <3>3. QED
      BY <3>2
  <2>2. Chosen(T) \in T
    BY <2>1 DEF Chosen
  <2>3. /\ SumOver(f, T) = f[Chosen(T)] + SumOver(f, T \ {Chosen(T)})
        /\ SumOver(g, T) = g[Chosen(T)] + SumOver(g, T \ {Chosen(T)})
        /\ SumOver(h, T) = h[Chosen(T)] + SumOver(h, T \ {Chosen(T)})
    BY <2>1, SumEquation, FS_Subset
  <2>4. SumOver(g, T \ {Chosen(T)}) \in Int /\ SumOver(h, T \ {Chosen(T)}) \in Int
    BY FS_Subset, SumInt
  <2>5. T \ {Chosen(T)} \in Bad
    BY <2>2, <2>3, <2>4
  <2>6. QED
    BY <2>2, <2>5
<1>2. Bad = {}
  <2> HIDE DEF Bad
  <2>1. Bad \in SUBSET SUBSET S
    BY DEF Bad
  <2>2. QED
    BY <1>1, <2>1, SubsetDescent
<1>3. QED
  BY <1>2

\* The sum of k-fold values is k times the sum.
LEMMA SumScale ==
    ASSUME NEW f, NEW g, NEW k \in Int, NEW S, IsFiniteSet(S),
           \A x \in S : g[x] \in Int /\ f[x] = k * g[x]
    PROVE  SumOver(f, S) = k * SumOver(g, S)
<1> DEFINE Bad == { T \in SUBSET S : SumOver(f, T) # k * SumOver(g, T) }
<1>1. ASSUME NEW T \in Bad PROVE \E U \in Bad : U \subseteq T /\ U # T
  <2>1. T # {}
    <3>1. SumOver(f, {}) = 0 /\ SumOver(g, {}) = 0 /\ k * 0 = 0
      BY SumEmpty
    <3>2. SumOver(f, {}) = k * SumOver(g, {})
      BY <3>1
    <3>3. QED
      BY <3>2
  <2> DEFINE c == Chosen(T)
             rest == T \ {c}
  <2>2. c \in T
    BY <2>1 DEF Chosen
  <2>3. SumOver(f, T) = f[c] + SumOver(f, rest) /\ SumOver(g, T) = g[c] + SumOver(g, rest)
    BY <2>1, SumEquation, FS_Subset
  <2>4. SumOver(g, rest) \in Int /\ g[c] \in Int /\ f[c] = k * g[c]
    BY <2>2, FS_Subset, SumInt
  <2>5. ASSUME NEW a \in Int, NEW b \in Int PROVE k * (a + b) = k * a + k * b
    OBVIOUS
  <2>6. k * SumOver(g, T) = k * g[c] + k * SumOver(g, rest)
    BY <2>3, <2>4, <2>5
  <2>7. rest \in Bad
    BY <2>3, <2>4, <2>6
  <2>8. QED
    BY <2>2, <2>7
<1>2. Bad = {}
  <2> HIDE DEF Bad
  <2>1. Bad \in SUBSET SUBSET S
    BY DEF Bad
  <2>2. QED
    BY <1>1, <2>1, SubsetDescent
<1>3. QED
  BY <1>2

\* A finite set of integers has a largest and a smallest element.
LEMMA HasMax ==
    ASSUME NEW S, IsFiniteSet(S), S # {}, S \subseteq Int
    PROVE  Max(S) \in S /\ \A x \in S : x <= Max(S)
<1> DEFINE Bad == { T \in SUBSET S : T # {} /\ \A m \in T : \E x \in T : ~ (x <= m) }
<1>1. ASSUME NEW T \in Bad PROVE \E U \in Bad : U \subseteq T /\ U # T
  <2>1. PICK y \in T : TRUE
    OBVIOUS
  <2>2. T \ {y} # {}
    OBVIOUS
  <2>3. ASSUME NEW m \in T \ {y}, \A x \in T \ {y} : x <= m PROVE FALSE
    <3>1. y <= m \/ m <= y
      OBVIOUS
    <3>2. CASE y <= m
      BY <2>3, <3>2
    <3>3. CASE m <= y
      <4>1. \A x \in T \ {y} : x <= y
        BY <2>3, <3>3
      <4>2. QED
        BY <4>1
    <3>4. QED
      BY <3>1, <3>2, <3>3
  <2>4. T \ {y} \in Bad
    BY <2>2, <2>3
  <2>5. QED
    BY <2>4
<1>2. Bad = {}
  <2> HIDE DEF Bad
  <2>1. Bad \in SUBSET SUBSET S
    BY DEF Bad
  <2>2. QED
    BY <1>1, <2>1, SubsetDescent
<1>3. PICK m \in S : \A x \in S : x <= m
  BY <1>2
<1>4. \E m2 \in S : \A x \in S : m2 >= x
  BY <1>3
<1>5. Max(S) \in S /\ \A x \in S : Max(S) >= x
  BY <1>4, Zenon DEF Max
<1>6. QED
  BY <1>5

LEMMA MinOfTwo ==
    ASSUME NEW a \in Int, NEW b \in Int
    PROVE  Min({a, b}) = IF a <= b THEN a ELSE b
  BY DEF Min

LEMMA MaxOfTwo ==
    ASSUME NEW a \in Int, NEW b \in Int
    PROVE  Max({a, b}) = IF a >= b THEN a ELSE b
  BY DEF Max
=============================================================================
