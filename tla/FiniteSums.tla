----------------------------- MODULE FiniteSums -----------------------------
(***************************************************************************)
(* Sums and products over finite sets.  The models add up and multiply     *)
(* with the folds of the community modules, recursive functions that take  *)
(* one element of the set after the other, in an order nobody knows.       *)
(* These lemmas say what they return.                                      *)
(*                                                                         *)
(* They are proved by induction.  What is to be shown is put into a set,   *)
(* of numbers (NumberInduction) or of subsets (SubsetInduction), since the *)
(* provers cannot instantiate a theorem whose parameter is an operator.    *)
(***************************************************************************)
EXTENDS Integers, FiniteSets, Functions, WellFoundedInduction, FiniteSetTheorems, TLAPS

(* "<" as a set of pairs, well-founded on the numbers.                     *)
LEMMA LessIsWellFounded ==
    \E R : IsWellFoundedOn(R, Nat) /\ \A m, n \in Nat : m < n => << m, n >> \in R
<1>1. IsWellFoundedOn(OpToRel(<, Nat), Nat)
  BY NatLessThanWellFounded
<1>2. \A m, n \in Nat : m < n => << m, n >> \in OpToRel(<, Nat)
  BY DEF OpToRel
<1> QED BY <1>1, <1>2

LEMMA LeastNumber ==
    ASSUME NEW T, T \subseteq Nat, T # {}
    PROVE  \E m \in T : \A n \in T : m <= n
<1>1. PICK R : IsWellFoundedOn(R, Nat) /\ \A m, n \in Nat : m < n => << m, n >> \in R
  BY LessIsWellFounded
<1>2. \E m \in T : \A n \in T : ~ (<< n, m >> \in R)
  BY <1>1, WFMin
<1>3. PICK m \in T : \A n \in T : ~ (<< n, m >> \in R)
  BY <1>2
<1>4. \A n \in T : n \in Nat /\ ~(n < m)
  BY <1>1, <1>3
<1>5. m \in Nat
  OBVIOUS
<1> QED BY <1>4, <1>5

(* Induction over the numbers and over the subsets of a finite set.        *)
LEMMA NumberInduction ==
    ASSUME NEW T, 0 \in T, \A n \in Nat : n \in T => n + 1 \in T
    PROVE  Nat \subseteq T
<1> SUFFICES ASSUME Nat \ T # {}
             PROVE  FALSE
  OBVIOUS
<1>1. PICK m \in Nat \ T : \A n \in Nat \ T : m <= n
  BY LeastNumber
<1>2. m # 0
  OBVIOUS
<1>3. m - 1 \in Nat /\ m - 1 \in T
  BY <1>1, <1>2
<1> QED BY <1>3

LEMMA SubsetInduction ==
    ASSUME NEW S, IsFiniteSet(S), NEW F,
           \A T \in SUBSET S : (\A x \in T : T \ {x} \in F) => T \in F
    PROVE  S \in F
<1> DEFINE Bad == (SUBSET S) \ F
           Sizes == {Cardinality(T) : T \in Bad}
<1> SUFFICES ASSUME S \notin F
             PROVE  FALSE
  OBVIOUS
<1>1. \A T \in SUBSET S : IsFiniteSet(T)
  BY FS_Subset
<1>2. Sizes \subseteq Nat /\ Sizes # {}
  BY <1>1, FS_CardinalityType
<1>3. PICK m \in Sizes : \A n \in Sizes : m <= n
  BY <1>2, LeastNumber
<1>4. PICK T \in Bad : m = Cardinality(T)
  BY <1>3
<1>5. PICK x \in T : T \ {x} \notin F
  BY <1>4
<1>6. Cardinality(T \ {x}) = Cardinality(T) - 1 /\ Cardinality(T) \in Nat
  BY <1>1, <1>4, FS_RemoveElement, FS_CardinalityType
<1>7. Cardinality(T \ {x}) \in Sizes
  BY <1>4, <1>5
<1> HIDE DEF Sizes
<1> QED BY <1>3, <1>4, <1>6, <1>7

-----------------------------------------------------------------------------
Chosen(S) == CHOOSE x \in S : TRUE

LEMMA ChosenIsIn == \A S : S # {} => Chosen(S) \in S
BY DEF Chosen

(* One step of the recursion, with "h" for the remaining ones.             *)
SumStep(h, f, s) == IF s = {} THEN 0 ELSE f[Chosen(s)] + h[s \ {Chosen(s)}]
IsSum(h, f, S) == h = [s \in SUBSET S |-> SumStep(h, f, s)]

(* There is a function that continues each step by itself: one that does   *)
(* so up to sets of n elements exists for every n.                         *)
LEMMA SumExists ==
    ASSUME NEW f, NEW S, IsFiniteSet(S)
    PROVE  \E h : IsSum(h, f, S)
<1> DEFINE Size(s) == Cardinality(s)
           Upto(h, n) == \A s \in SUBSET S : Size(s) <= n => h[s] = SumStep(h, f, s)
           Longer(h) == [s \in SUBSET S |-> SumStep(h, f, s)]
           Reached == {n \in Nat : \E h : Upto(h, n)}
<1>1. \A s \in SUBSET S : Size(s) \in Nat /\ Size(s) <= Size(S)
  BY FS_Subset, FS_CardinalityType
<1>2. \A s \in SUBSET S : s # {} => Chosen(s) \in s /\ Size(s \ {Chosen(s)}) = Size(s) - 1
  BY FS_Subset, FS_RemoveElement, ChosenIsIn
<1>3. Size({}) = 0
  BY FS_EmptySet
<1> HIDE DEF Size
<1>4. \A h : \A s \in SUBSET S : Longer(h)[s] = SumStep(h, f, s)
  OBVIOUS
<1> HIDE DEF Longer
<1>5. ASSUME NEW h, NEW n \in Nat, \A s \in SUBSET S : Size(s) < n => h[s] = SumStep(h, f, s)
      PROVE  Upto(Longer(h), n)
  <2> SUFFICES ASSUME NEW s \in SUBSET S, Size(s) <= n
               PROVE  Longer(h)[s] = SumStep(Longer(h), f, s)
    OBVIOUS
  <2>1. CASE s = {}
    BY <1>4, <2>1 DEF SumStep
  <2>2. CASE s # {}
    <3>1. s \ {Chosen(s)} \in SUBSET S /\ Size(s \ {Chosen(s)}) < n
      BY <1>1, <1>2, <2>2
    <3>2. Longer(h)[s \ {Chosen(s)}] = h[s \ {Chosen(s)}]
      BY <1>4, <1>5, <3>1
    <3> QED BY <1>4, <2>2, <3>2 DEF SumStep
  <2> QED BY <2>1, <2>2
<1> HIDE DEF Upto
<1>6. Nat \subseteq Reached
  <2>1. 0 \in Reached
    <3>1. \A s \in SUBSET S : ~(Size(s) < 0)
      BY <1>1
    <3>2. Upto(Longer(<< >>), 0)
      BY <1>5, <3>1
    <3> QED BY <3>2
  <2>2. ASSUME NEW n \in Nat, n \in Reached
        PROVE  n + 1 \in Reached
    <3>1. PICK h : Upto(h, n)
      BY <2>2
    <3>2. \A s \in SUBSET S : Size(s) < n + 1 => h[s] = SumStep(h, f, s)
      BY <1>1, <3>1 DEF Upto
    <3>3. Upto(Longer(h), n + 1)
      BY <1>5, <3>2
    <3> QED BY <3>3
  <2> HIDE DEF Reached
  <2> QED BY <2>1, <2>2, NumberInduction
<1>7. PICK h : Upto(h, Size(S))
  BY <1>1, <1>6
<1>8. \A s \in SUBSET S : h[s] = SumStep(h, f, s)
  BY <1>1, <1>7 DEF Upto
<1>9. \A s \in SUBSET S : Longer(h)[s] = h[s]
  BY <1>4, <1>8
<1>10. \A s \in SUBSET S : SumStep(Longer(h), f, s) = SumStep(h, f, s)
  BY <1>9, ChosenIsIn DEF SumStep
<1>11. Longer(h) = [s \in SUBSET S |-> SumStep(Longer(h), f, s)]
  BY <1>10 DEF Longer
<1> QED BY <1>11 DEF IsSum

LEMMA SumIsOne ==
    ASSUME NEW f, NEW S, IsFiniteSet(S)
    PROVE  \E h : IsSum(h, f, S) /\ SumFunctionOnSet(f, S) = h[S]
<1> DEFINE h == CHOOSE h : IsSum(h, f, S)
<1>1. IsSum(h, f, S)
  BY SumExists
<1>2. SumFunctionOnSet(f, S) = h[S]
  BY DEF SumFunctionOnSet, FoldFunctionOnSet, MapThenFoldSet, IsSum, SumStep, Chosen
<1> QED BY <1>1, <1>2

(* Two of them agree on sets on which the functions they sum up agree.     *)
LEMMA SumsAgree ==
    ASSUME NEW f, NEW g, NEW h, NEW k, NEW S, NEW T, NEW U, IsFiniteSet(U),
           IsSum(h, f, S), IsSum(k, g, T), U \subseteq S, U \subseteq T, \A x \in U : f[x] = g[x]
    PROVE  h[U] = k[U]
<1> DEFINE Agree == {V \in SUBSET U : h[V] = k[V]}
<1>1. ASSUME NEW V \in SUBSET U, \A x \in V : V \ {x} \in Agree
      PROVE  V \in Agree
  <2>1. h[V] = SumStep(h, f, V) /\ k[V] = SumStep(k, g, V)
    <3>1. V \in SUBSET S /\ V \in SUBSET T
      OBVIOUS
    <3>2. [s \in SUBSET S |-> SumStep(h, f, s)][V] = SumStep(h, f, V)
      BY <3>1
    <3>3. [s \in SUBSET T |-> SumStep(k, g, s)][V] = SumStep(k, g, V)
      BY <3>1
    <3> QED BY <3>2, <3>3 DEF IsSum
  <2>2. CASE V = {}
    BY <2>1, <2>2 DEF SumStep
  <2>3. CASE V # {}
    <3>1. Chosen(V) \in V
      BY <2>3, ChosenIsIn
    <3>2. h[V \ {Chosen(V)}] = k[V \ {Chosen(V)}]
      BY <1>1, <3>1
    <3>3. f[Chosen(V)] = g[Chosen(V)]
      BY <3>1
    <3> QED BY <2>1, <2>3, <3>2, <3>3 DEF SumStep
  <2> QED BY <2>2, <2>3
<1> HIDE DEF Agree
<1>2. U \in Agree
  BY <1>1, SubsetInduction
<1> QED BY <1>2 DEF Agree

(* The sum depends only on the values that are added up.                   *)
LEMMA SumOfSame ==
    ASSUME NEW f, NEW g, NEW S, IsFiniteSet(S), \A x \in S : f[x] = g[x]
    PROVE  SumFunctionOnSet(f, S) = SumFunctionOnSet(g, S)
<1>1. PICK h : IsSum(h, f, S) /\ SumFunctionOnSet(f, S) = h[S]
  BY SumIsOne
<1>2. PICK k : IsSum(k, g, S) /\ SumFunctionOnSet(g, S) = k[S]
  BY SumIsOne
<1>3. S \subseteq S /\ \A x \in S : f[x] = g[x]
  OBVIOUS
<1>4. h[S] = k[S]
  BY ONLY IsFiniteSet(S), <1>1, <1>2, <1>3, SumsAgree
<1> QED BY <1>1, <1>2, <1>4

LEMMA SumOfNone == \A f : SumFunctionOnSet(f, {}) = 0
<1> TAKE f
<1>1. IsFiniteSet({})
  BY FS_EmptySet
<1>2. PICK h : IsSum(h, f, {}) /\ SumFunctionOnSet(f, {}) = h[{}]
  BY <1>1, SumIsOne
<1>3. h[{}] = SumStep(h, f, {})
  <2>1. [s \in SUBSET {} |-> SumStep(h, f, s)][{}] = SumStep(h, f, {})
    OBVIOUS
  <2> QED BY <1>2, <2>1 DEF IsSum
<1> QED BY <1>2, <1>3 DEF SumStep

(* Some element can be taken apart.                                        *)
LEMMA SumTakesOne ==
    ASSUME NEW f, NEW S, IsFiniteSet(S), S # {}
    PROVE  \E x \in S : SumFunctionOnSet(f, S) = f[x] + SumFunctionOnSet(f, S \ {x})
<1> DEFINE x == Chosen(S)
<1>1. x \in S
  BY ChosenIsIn
<1>2. PICK h : IsSum(h, f, S) /\ SumFunctionOnSet(f, S) = h[S]
  BY SumIsOne
<1>3. h[S] = f[x] + h[S \ {x}]
  <2>1. [s \in SUBSET S |-> SumStep(h, f, s)][S] = SumStep(h, f, S)
    OBVIOUS
  <2> QED BY <1>2, <2>1 DEF IsSum, SumStep
<1> HIDE DEF x
<1>4. IsFiniteSet(S \ {x})
  BY FS_Subset
<1>5. PICK k : IsSum(k, f, S \ {x}) /\ SumFunctionOnSet(f, S \ {x}) = k[S \ {x}]
  BY <1>4, SumIsOne
<1>6. h[S \ {x}] = k[S \ {x}]
  BY <1>2, <1>4, <1>5, SumsAgree
<1> QED BY <1>1, <1>2, <1>3, <1>5, <1>6

LEMMA SumIsNat ==
    ASSUME NEW f, NEW S, IsFiniteSet(S), \A x \in S : f[x] \in Nat
    PROVE  SumFunctionOnSet(f, S) \in Nat
<1> DEFINE Numeric == {T \in SUBSET S : SumFunctionOnSet(f, T) \in Nat}
<1>1. ASSUME NEW T \in SUBSET S, \A x \in T : T \ {x} \in Numeric
      PROVE  T \in Numeric
  <2>1. CASE T = {}
    BY <2>1, SumOfNone
  <2>2. CASE T # {}
    <3>1. IsFiniteSet(T)
      BY FS_Subset
    <3>2. PICK x \in T : SumFunctionOnSet(f, T) = f[x] + SumFunctionOnSet(f, T \ {x})
      BY <2>2, <3>1, SumTakesOne
    <3>3. SumFunctionOnSet(f, T \ {x}) \in Nat
      BY <1>1
    <3> QED BY <3>2, <3>3
  <2> QED BY <2>1, <2>2
<1> HIDE DEF Numeric
<1>2. S \in Numeric
  BY <1>1, SubsetInduction
<1> QED BY <1>2 DEF Numeric

(* Any element can be taken apart.                                         *)
LEMMA SumTakesAny ==
    ASSUME NEW f, NEW S, IsFiniteSet(S), \A x \in S : f[x] \in Nat, NEW x \in S
    PROVE  SumFunctionOnSet(f, S) = f[x] + SumFunctionOnSet(f, S \ {x})
<1> DEFINE Sum(T) == SumFunctionOnSet(f, T)
           Apart == {T \in SUBSET S : \A y \in T : Sum(T) = f[y] + Sum(T \ {y})}
<1>1. \A T \in SUBSET S : IsFiniteSet(T) /\ Sum(T) \in Nat
  BY FS_Subset, SumIsNat
<1>2. \A T \in SUBSET S : T # {} => \E c \in T : Sum(T) = f[c] + Sum(T \ {c})
  BY <1>1, SumTakesOne
<1> HIDE DEF Sum
<1>3. ASSUME NEW T \in SUBSET S, \A y \in T : T \ {y} \in Apart
      PROVE  T \in Apart
  <2> SUFFICES ASSUME NEW y \in T
               PROVE  Sum(T) = f[y] + Sum(T \ {y})
    OBVIOUS
  <2>1. PICK c \in T : Sum(T) = f[c] + Sum(T \ {c})
    BY <1>2
  <2>2. CASE c = y
    BY <2>1, <2>2
  <2>3. CASE c # y
    <3>1. Sum(T \ {c}) = f[y] + Sum((T \ {c}) \ {y})
      BY <1>3, <2>3
    <3>2. Sum(T \ {y}) = f[c] + Sum((T \ {y}) \ {c})
      BY <1>3, <2>3
    <3>3. (T \ {c}) \ {y} = (T \ {y}) \ {c} /\ (T \ {c}) \ {y} \in SUBSET S
      OBVIOUS
    <3>4. f[c] \in Nat /\ f[y] \in Nat /\ Sum((T \ {c}) \ {y}) \in Nat
      BY <1>1, <3>3
    <3> QED BY <2>1, <3>1, <3>2, <3>3, <3>4
  <2> QED BY <2>2, <2>3
<1> HIDE DEF Apart
<1>4. S \in Apart
  BY <1>3, SubsetInduction
<1> QED BY <1>4 DEF Apart, Sum

LEMMA TwoSets ==
    \A A, B : IsFiniteSet(A) /\ IsFiniteSet(B) =>
        /\ IsFiniteSet(A \cup B)
        /\ Cardinality(A \cup B) = Cardinality(A) + Cardinality(B) - Cardinality(A \cap B)
BY FS_Union

(* The elements of disjoint finite sets are as many as those of each of    *)
(* them, added up.                                                         *)
LEMMA SumOfCardinalities ==
    ASSUME NEW S, IsFiniteSet(S), NEW P, \A x \in S : IsFiniteSet(P[x]),
           \A x, y \in S : x # y => P[x] \cap P[y] = {}
    PROVE  /\ IsFiniteSet(UNION {P[x] : x \in S})
           /\ Cardinality(UNION {P[x] : x \in S}) = SumFunction([x \in S |-> Cardinality(P[x])])
<1> DEFINE f == [x \in S |-> Cardinality(P[x])]
           All(T) == UNION {P[x] : x \in T}
           Counted == {T \in SUBSET S : IsFiniteSet(All(T)) /\ Cardinality(All(T)) = SumFunctionOnSet(f, T)}
<1>1. \A x \in S : f[x] = Cardinality(P[x]) /\ f[x] \in Nat
  BY FS_CardinalityType
<1>2. SumFunction(f) = SumFunctionOnSet(f, S)
  BY DEF SumFunction
<1> HIDE DEF f
<1>3. ASSUME NEW T \in SUBSET S, \A x \in T : T \ {x} \in Counted
      PROVE  T \in Counted
  <2>1. CASE T = {}
    <3>1. All({}) = {}
      OBVIOUS
    <3> QED BY <2>1, <3>1, SumOfNone, FS_EmptySet
  <2>2. CASE T # {}
    <3>1. IsFiniteSet(T)
      BY FS_Subset
    <3>2. PICK x \in T : SumFunctionOnSet(f, T) = f[x] + SumFunctionOnSet(f, T \ {x})
      BY <2>2, <3>1, SumTakesOne
    <3> DEFINE Rest == All(T \ {x})
    <3>3. IsFiniteSet(Rest) /\ Cardinality(Rest) = SumFunctionOnSet(f, T \ {x})
      BY <1>3
    <3>4. All(T) = P[x] \cup Rest /\ P[x] \cap Rest = {}
      OBVIOUS
    <3> HIDE DEF Rest, All
    <3>5. IsFiniteSet(P[x])
      OBVIOUS
    <3>6. /\ IsFiniteSet(All(T))
          /\ Cardinality(All(T)) = Cardinality(P[x]) + Cardinality(Rest) - Cardinality(P[x] \cap Rest)
      <4>1. /\ IsFiniteSet(P[x] \cup Rest)
            /\ Cardinality(P[x] \cup Rest) = Cardinality(P[x]) + Cardinality(Rest) - Cardinality(P[x] \cap Rest)
        BY <3>3, <3>5, TwoSets
      <4> QED BY <3>4, <4>1
    <3>7. Cardinality(P[x]) \in Nat /\ Cardinality(Rest) \in Nat /\ Cardinality(P[x] \cap Rest) = 0
      BY <3>3, <3>4, <3>5, FS_CardinalityType, FS_EmptySet
    <3> QED BY <1>1, <3>2, <3>3, <3>6, <3>7
  <2> QED BY <2>1, <2>2
<1> HIDE DEF Counted
<1>4. S \in Counted
  BY <1>3, SubsetInduction
<1> QED BY <1>2, <1>4 DEF Counted, f

(* Sums of a set in two parts, and in any number of parts.                 *)
LEMMA SumOfUnion ==
    ASSUME NEW f, NEW A, NEW B, IsFiniteSet(A), IsFiniteSet(B), A \cap B = {},
           \A x \in A \cup B : f[x] \in Nat
    PROVE  SumFunctionOnSet(f, A \cup B) = SumFunctionOnSet(f, A) + SumFunctionOnSet(f, B)
<1> DEFINE Sum(T) == SumFunctionOnSet(f, T)
           Split == {T \in SUBSET B : Sum(A \cup T) = Sum(A) + Sum(T)}
<1>1. \A T \in SUBSET B : IsFiniteSet(T) /\ IsFiniteSet(A \cup T) /\ Sum(T) \in Nat /\ Sum(A) \in Nat
  <2>1. ASSUME NEW T \in SUBSET B
        PROVE  IsFiniteSet(T) /\ IsFiniteSet(A \cup T)
    BY FS_Subset, FS_Union
  <2>2. \A T \in SUBSET B : \A x \in T : f[x] \in Nat
    OBVIOUS
  <2> QED BY <2>1, <2>2, SumIsNat
<1>2. ASSUME NEW T \in SUBSET B, \A x \in T : T \ {x} \in Split
      PROVE  T \in Split
  <2>1. CASE T = {}
    <3>1. A \cup T = A /\ Sum(T) = 0
      BY <2>1, SumOfNone
    <3> QED BY <1>1, <2>1, <3>1
  <2>2. CASE T # {}
    <3>1. PICK x \in T : TRUE
      BY <2>2
    <3>2. Sum(T) = f[x] + Sum(T \ {x})
      <4>1. IsFiniteSet(T) /\ \A y \in T : f[y] \in Nat
        BY <1>1
      <4> QED BY <4>1, SumTakesAny
    <3>3. Sum(A \cup T) = f[x] + Sum((A \cup T) \ {x})
      BY <1>1, SumTakesAny
    <3>4. (A \cup T) \ {x} = A \cup (T \ {x}) /\ f[x] \in Nat
      OBVIOUS
    <3> HIDE DEF Sum
    <3>5. Sum(A \cup (T \ {x})) = Sum(A) + Sum(T \ {x})
      BY <1>2
    <3>6. T \ {x} \in SUBSET B /\ Sum(T \ {x}) \in Nat /\ Sum(A) \in Nat
      BY <1>1
    <3>7. Sum(A \cup T) = f[x] + (Sum(A) + Sum(T \ {x}))
      BY <3>3, <3>4, <3>5
    <3>8. Sum(A \cup T) = Sum(A) + Sum(T)
      BY ONLY <3>2, <3>4, <3>6, <3>7
    <3> QED BY <3>8
  <2> QED BY <2>1, <2>2
<1> HIDE DEF Split
<1>3. B \in Split
  BY <1>2, SubsetInduction
<1> QED BY <1>3 DEF Split

LEMMA SumOfParts ==
    ASSUME NEW f, NEW g, NEW S, IsFiniteSet(S), NEW P, \A x \in S : IsFiniteSet(P[x]),
           \A x, y \in S : x # y => P[x] \cap P[y] = {},
           \A x \in S : \A y \in P[x] : f[y] \in Nat,
           \A x \in S : g[x] = SumFunctionOnSet(f, P[x])
    PROVE  SumFunctionOnSet(f, UNION {P[x] : x \in S}) = SumFunctionOnSet(g, S)
<1> DEFINE All(T) == UNION {P[x] : x \in T}
           Split == {T \in SUBSET S : IsFiniteSet(All(T)) /\ SumFunctionOnSet(f, All(T)) = SumFunctionOnSet(g, T)}
<1>1. ASSUME NEW T \in SUBSET S, \A x \in T : T \ {x} \in Split
      PROVE  T \in Split
  <2>1. CASE T = {}
    <3>1. All({}) = {}
      OBVIOUS
    <3> QED BY <2>1, <3>1, SumOfNone, FS_EmptySet
  <2>2. CASE T # {}
    <3>1. IsFiniteSet(T)
      BY FS_Subset
    <3>2. PICK x \in T : SumFunctionOnSet(g, T) = g[x] + SumFunctionOnSet(g, T \ {x})
      BY <2>2, <3>1, SumTakesOne
    <3> DEFINE Rest == All(T \ {x})
    <3>3. IsFiniteSet(Rest) /\ SumFunctionOnSet(f, Rest) = SumFunctionOnSet(g, T \ {x})
      BY <1>1
    <3>4. All(T) = P[x] \cup Rest /\ P[x] \cap Rest = {}
      OBVIOUS
    <3>5. \A y \in P[x] \cup Rest : f[y] \in Nat
      OBVIOUS
    <3> HIDE DEF Rest, All
    <3>6. IsFiniteSet(P[x]) /\ g[x] = SumFunctionOnSet(f, P[x])
      OBVIOUS
    <3>7. IsFiniteSet(P[x] \cup Rest)
      BY <3>3, <3>6, TwoSets
    <3>8. SumFunctionOnSet(f, P[x] \cup Rest) = SumFunctionOnSet(f, P[x]) + SumFunctionOnSet(f, Rest)
      BY <3>3, <3>4, <3>5, <3>6, SumOfUnion
    <3> QED BY <3>2, <3>3, <3>4, <3>6, <3>7, <3>8
  <2> QED BY <2>1, <2>2
<1> HIDE DEF Split
<1>2. S \in Split
  BY <1>1, SubsetInduction
<1> QED BY <1>2 DEF Split

(* Sums of sums and of multiples, and when a sum is nothing.               *)
LEMMA SumAdds ==
    ASSUME NEW f, NEW g, NEW h, NEW S, IsFiniteSet(S),
           \A x \in S : g[x] \in Nat /\ h[x] \in Nat /\ f[x] = g[x] + h[x]
    PROVE  SumFunctionOnSet(f, S) = SumFunctionOnSet(g, S) + SumFunctionOnSet(h, S)
<1> DEFINE Adds == {T \in SUBSET S : SumFunctionOnSet(f, T) = SumFunctionOnSet(g, T) + SumFunctionOnSet(h, T)}
<1>1. \A T \in SUBSET S : IsFiniteSet(T)
  BY FS_Subset
<1>2. \A T \in SUBSET S : SumFunctionOnSet(g, T) \in Nat /\ SumFunctionOnSet(h, T) \in Nat
  BY <1>1, SumIsNat
<1>3. ASSUME NEW T \in SUBSET S, \A x \in T : T \ {x} \in Adds
      PROVE  T \in Adds
  <2>1. CASE T = {}
    BY <2>1, SumOfNone
  <2>2. CASE T # {}
    <3>1. PICK x \in T : SumFunctionOnSet(f, T) = f[x] + SumFunctionOnSet(f, T \ {x})
      BY <1>1, <2>2, SumTakesOne
    <3>2. SumFunctionOnSet(g, T) = g[x] + SumFunctionOnSet(g, T \ {x})
      BY <1>1, SumTakesAny
    <3>3. SumFunctionOnSet(h, T) = h[x] + SumFunctionOnSet(h, T \ {x})
      BY <1>1, SumTakesAny
    <3>4. SumFunctionOnSet(f, T \ {x}) = SumFunctionOnSet(g, T \ {x}) + SumFunctionOnSet(h, T \ {x})
      BY <1>3
    <3>5. T \ {x} \in SUBSET S /\ g[x] \in Nat /\ h[x] \in Nat /\ f[x] = g[x] + h[x]
      OBVIOUS
    <3> QED BY <1>2, <3>1, <3>2, <3>3, <3>4, <3>5
  <2> QED BY <2>1, <2>2
<1> HIDE DEF Adds
<1>4. S \in Adds
  BY <1>3, SubsetInduction
<1> QED BY <1>4 DEF Adds

LEMMA Distributes == \A a, b, c \in Nat : a * (b + c) = a * b + a * c /\ a * b \in Nat /\ a * 0 = 0
OBVIOUS

LEMMA SumTimes ==
    ASSUME NEW f, NEW g, NEW S, IsFiniteSet(S), NEW k \in Nat, \A x \in S : g[x] \in Nat /\ f[x] = k * g[x]
    PROVE  SumFunctionOnSet(f, S) = k * SumFunctionOnSet(g, S)
<1> DEFINE Times == {T \in SUBSET S : SumFunctionOnSet(f, T) = k * SumFunctionOnSet(g, T)}
<1>1. \A T \in SUBSET S : IsFiniteSet(T)
  BY FS_Subset
<1>2. \A T \in SUBSET S : SumFunctionOnSet(g, T) \in Nat
  BY <1>1, SumIsNat
<1>3. ASSUME NEW T \in SUBSET S, \A x \in T : T \ {x} \in Times
      PROVE  T \in Times
  <2>1. CASE T = {}
    BY <2>1, SumOfNone, Distributes
  <2>2. CASE T # {}
    <3>1. PICK x \in T : SumFunctionOnSet(f, T) = f[x] + SumFunctionOnSet(f, T \ {x})
      BY <1>1, <2>2, SumTakesOne
    <3>2. SumFunctionOnSet(g, T) = g[x] + SumFunctionOnSet(g, T \ {x})
      BY <1>1, SumTakesAny
    <3>3. SumFunctionOnSet(f, T \ {x}) = k * SumFunctionOnSet(g, T \ {x})
      BY <1>3
    <3>4. SumFunctionOnSet(g, T \ {x}) \in Nat /\ g[x] \in Nat /\ f[x] = k * g[x]
      BY <1>2
    <3>5. k * (g[x] + SumFunctionOnSet(g, T \ {x})) = k * g[x] + k * SumFunctionOnSet(g, T \ {x})
      BY <3>4, Distributes
    <3>6. SumFunctionOnSet(f, T) = k * g[x] + k * SumFunctionOnSet(g, T \ {x})
      BY <3>1, <3>3, <3>4
    <3> QED BY <3>2, <3>5, <3>6
  <2> QED BY <2>1, <2>2
<1> HIDE DEF Times
<1>4. S \in Times
  BY <1>3, SubsetInduction
<1> QED BY <1>4 DEF Times

LEMMA SumIsNothing ==
    ASSUME NEW f, NEW S, IsFiniteSet(S), \A x \in S : f[x] \in Nat
    PROVE  SumFunctionOnSet(f, S) = 0 <=> \A x \in S : f[x] = 0
<1> DEFINE g == [x \in S |-> 0]
<1>1. ASSUME SumFunctionOnSet(f, S) = 0, NEW x \in S
      PROVE  f[x] = 0
  <2>1. SumFunctionOnSet(f, S) = f[x] + SumFunctionOnSet(f, S \ {x})
    BY SumTakesAny
  <2>2. IsFiniteSet(S \ {x})
    BY FS_Subset
  <2>3. SumFunctionOnSet(f, S \ {x}) \in Nat
    BY <2>2, SumIsNat
  <2> QED BY <1>1, <2>1, <2>3
<1>2. ASSUME \A x \in S : f[x] = 0
      PROVE  SumFunctionOnSet(f, S) = 0
  <2>1. \A x \in S : f[x] \in Nat /\ f[x] = 0 * f[x]
    BY <1>2
  <2>2. SumFunctionOnSet(f, S) = 0 * SumFunctionOnSet(f, S) /\ SumFunctionOnSet(f, S) \in Nat
    BY <2>1, SumTimes, SumIsNat
  <2> QED BY <2>2
<1> QED BY <1>1, <1>2

-----------------------------------------------------------------------------
(* Products, in the same way.                                              *)
ProductOnSet(f, S) == FoldFunctionOnSet(LAMBDA x, y : x * y, 1, f, S)

ProductStep(h, f, s) == IF s = {} THEN 1 ELSE f[Chosen(s)] * h[s \ {Chosen(s)}]
IsProduct(h, f, S) == h = [s \in SUBSET S |-> ProductStep(h, f, s)]

LEMMA ProductExists ==
    ASSUME NEW f, NEW S, IsFiniteSet(S)
    PROVE  \E h : IsProduct(h, f, S)
<1> DEFINE Size(s) == Cardinality(s)
           Upto(h, n) == \A s \in SUBSET S : Size(s) <= n => h[s] = ProductStep(h, f, s)
           Longer(h) == [s \in SUBSET S |-> ProductStep(h, f, s)]
           Reached == {n \in Nat : \E h : Upto(h, n)}
<1>1. \A s \in SUBSET S : Size(s) \in Nat /\ Size(s) <= Size(S)
  BY FS_Subset, FS_CardinalityType
<1>2. \A s \in SUBSET S : s # {} => Chosen(s) \in s /\ Size(s \ {Chosen(s)}) = Size(s) - 1
  BY FS_Subset, FS_RemoveElement, ChosenIsIn
<1>3. Size({}) = 0
  BY FS_EmptySet
<1> HIDE DEF Size
<1>4. \A h : \A s \in SUBSET S : Longer(h)[s] = ProductStep(h, f, s)
  OBVIOUS
<1> HIDE DEF Longer
<1>5. ASSUME NEW h, NEW n \in Nat, \A s \in SUBSET S : Size(s) < n => h[s] = ProductStep(h, f, s)
      PROVE  Upto(Longer(h), n)
  <2> SUFFICES ASSUME NEW s \in SUBSET S, Size(s) <= n
               PROVE  Longer(h)[s] = ProductStep(Longer(h), f, s)
    OBVIOUS
  <2>1. CASE s = {}
    BY <1>4, <2>1 DEF ProductStep
  <2>2. CASE s # {}
    <3>1. s \ {Chosen(s)} \in SUBSET S /\ Size(s \ {Chosen(s)}) < n
      BY <1>1, <1>2, <2>2
    <3>2. Longer(h)[s \ {Chosen(s)}] = h[s \ {Chosen(s)}]
      BY <1>4, <1>5, <3>1
    <3> QED BY <1>4, <2>2, <3>2 DEF ProductStep
  <2> QED BY <2>1, <2>2
<1> HIDE DEF Upto
<1>6. Nat \subseteq Reached
  <2>1. 0 \in Reached
    <3>1. \A s \in SUBSET S : ~(Size(s) < 0)
      BY <1>1
    <3>2. Upto(Longer(<< >>), 0)
      BY <1>5, <3>1
    <3> QED BY <3>2
  <2>2. ASSUME NEW n \in Nat, n \in Reached
        PROVE  n + 1 \in Reached
    <3>1. PICK h : Upto(h, n)
      BY <2>2
    <3>2. \A s \in SUBSET S : Size(s) < n + 1 => h[s] = ProductStep(h, f, s)
      BY <1>1, <3>1 DEF Upto
    <3>3. Upto(Longer(h), n + 1)
      BY <1>5, <3>2
    <3> QED BY <3>3
  <2> HIDE DEF Reached
  <2> QED BY <2>1, <2>2, NumberInduction
<1>7. PICK h : Upto(h, Size(S))
  BY <1>1, <1>6
<1>8. \A s \in SUBSET S : h[s] = ProductStep(h, f, s)
  BY <1>1, <1>7 DEF Upto
<1>9. \A s \in SUBSET S : Longer(h)[s] = h[s]
  BY <1>4, <1>8
<1>10. \A s \in SUBSET S : ProductStep(Longer(h), f, s) = ProductStep(h, f, s)
  BY <1>9, ChosenIsIn DEF ProductStep
<1>11. Longer(h) = [s \in SUBSET S |-> ProductStep(Longer(h), f, s)]
  BY <1>10 DEF Longer
<1> QED BY <1>11 DEF IsProduct

LEMMA ProductIsOne ==
    ASSUME NEW f, NEW S, IsFiniteSet(S)
    PROVE  \E h : IsProduct(h, f, S) /\ ProductOnSet(f, S) = h[S]
<1> DEFINE h == CHOOSE h : IsProduct(h, f, S)
<1>1. IsProduct(h, f, S)
  BY ProductExists
<1>2. ProductOnSet(f, S) = h[S]
  BY DEF ProductOnSet, FoldFunctionOnSet, MapThenFoldSet, IsProduct, ProductStep, Chosen
<1> QED BY <1>1, <1>2

LEMMA ProductsAgree ==
    ASSUME NEW f, NEW g, NEW h, NEW k, NEW S, NEW T, NEW U, IsFiniteSet(U),
           IsProduct(h, f, S), IsProduct(k, g, T), U \subseteq S, U \subseteq T, \A x \in U : f[x] = g[x]
    PROVE  h[U] = k[U]
<1> DEFINE Agree == {V \in SUBSET U : h[V] = k[V]}
<1>1. ASSUME NEW V \in SUBSET U, \A x \in V : V \ {x} \in Agree
      PROVE  V \in Agree
  <2>1. h[V] = ProductStep(h, f, V) /\ k[V] = ProductStep(k, g, V)
    <3>1. V \in SUBSET S /\ V \in SUBSET T
      OBVIOUS
    <3>2. [s \in SUBSET S |-> ProductStep(h, f, s)][V] = ProductStep(h, f, V)
      BY <3>1
    <3>3. [s \in SUBSET T |-> ProductStep(k, g, s)][V] = ProductStep(k, g, V)
      BY <3>1
    <3> QED BY <3>2, <3>3 DEF IsProduct
  <2>2. CASE V = {}
    BY <2>1, <2>2 DEF ProductStep
  <2>3. CASE V # {}
    <3>1. Chosen(V) \in V
      BY <2>3, ChosenIsIn
    <3>2. h[V \ {Chosen(V)}] = k[V \ {Chosen(V)}]
      BY <1>1, <3>1
    <3>3. f[Chosen(V)] = g[Chosen(V)]
      BY <3>1
    <3> QED BY <2>1, <2>3, <3>2, <3>3 DEF ProductStep
  <2> QED BY <2>2, <2>3
<1> HIDE DEF Agree
<1>2. U \in Agree
  BY <1>1, SubsetInduction
<1> QED BY <1>2 DEF Agree

LEMMA ProductOfSame ==
    ASSUME NEW f, NEW g, NEW S, IsFiniteSet(S), \A x \in S : f[x] = g[x]
    PROVE  ProductOnSet(f, S) = ProductOnSet(g, S)
<1>1. PICK h : IsProduct(h, f, S) /\ ProductOnSet(f, S) = h[S]
  BY ProductIsOne
<1>2. PICK k : IsProduct(k, g, S) /\ ProductOnSet(g, S) = k[S]
  BY ProductIsOne
<1>3. S \subseteq S /\ \A x \in S : f[x] = g[x]
  OBVIOUS
<1>4. h[S] = k[S]
  BY ONLY IsFiniteSet(S), <1>1, <1>2, <1>3, ProductsAgree
<1> QED BY <1>1, <1>2, <1>4

LEMMA ProductOfNone == \A f : ProductOnSet(f, {}) = 1
<1> TAKE f
<1>1. IsFiniteSet({})
  BY FS_EmptySet
<1>2. PICK h : IsProduct(h, f, {}) /\ ProductOnSet(f, {}) = h[{}]
  BY <1>1, ProductIsOne
<1>3. h[{}] = ProductStep(h, f, {})
  <2>1. [s \in SUBSET {} |-> ProductStep(h, f, s)][{}] = ProductStep(h, f, {})
    OBVIOUS
  <2> QED BY <1>2, <2>1 DEF IsProduct
<1> QED BY <1>2, <1>3 DEF ProductStep

LEMMA ProductTakesOne ==
    ASSUME NEW f, NEW S, IsFiniteSet(S), S # {}
    PROVE  \E x \in S : ProductOnSet(f, S) = f[x] * ProductOnSet(f, S \ {x})
<1> DEFINE x == Chosen(S)
<1>1. x \in S
  BY ChosenIsIn
<1>2. PICK h : IsProduct(h, f, S) /\ ProductOnSet(f, S) = h[S]
  BY ProductIsOne
<1>3. h[S] = f[x] * h[S \ {x}]
  <2>1. [s \in SUBSET S |-> ProductStep(h, f, s)][S] = ProductStep(h, f, S)
    OBVIOUS
  <2> QED BY <1>2, <2>1 DEF IsProduct, ProductStep
<1> HIDE DEF x
<1>4. IsFiniteSet(S \ {x})
  BY FS_Subset
<1>5. PICK k : IsProduct(k, f, S \ {x}) /\ ProductOnSet(f, S \ {x}) = k[S \ {x}]
  BY <1>4, ProductIsOne
<1>6. h[S \ {x}] = k[S \ {x}]
  BY <1>2, <1>4, <1>5, ProductsAgree
<1> QED BY <1>1, <1>2, <1>3, <1>5, <1>6

LEMMA ProductIsPositive ==
    ASSUME NEW f, NEW S, IsFiniteSet(S), \A x \in S : f[x] \in Nat \ {0}
    PROVE  ProductOnSet(f, S) \in Nat \ {0}
<1> DEFINE Positive == {T \in SUBSET S : ProductOnSet(f, T) \in Nat \ {0}}
<1>1. ASSUME NEW T \in SUBSET S, \A x \in T : T \ {x} \in Positive
      PROVE  T \in Positive
  <2>1. CASE T = {}
    BY <2>1, ProductOfNone
  <2>2. CASE T # {}
    <3>1. IsFiniteSet(T)
      BY FS_Subset
    <3>2. PICK x \in T : ProductOnSet(f, T) = f[x] * ProductOnSet(f, T \ {x})
      BY <2>2, <3>1, ProductTakesOne
    <3>3. ProductOnSet(f, T \ {x}) \in Nat \ {0}
      BY <1>1
    <3> QED BY <3>2, <3>3
  <2> QED BY <2>1, <2>2
<1> HIDE DEF Positive
<1>2. S \in Positive
  BY <1>1, SubsetInduction
<1> QED BY <1>2 DEF Positive

LEMMA TimesSwaps == \A a, b, c \in Nat : a * (b * c) = b * (a * c)
OBVIOUS

LEMMA ProductTakesAny ==
    ASSUME NEW f, NEW S, IsFiniteSet(S), \A x \in S : f[x] \in Nat \ {0}, NEW x \in S
    PROVE  ProductOnSet(f, S) = f[x] * ProductOnSet(f, S \ {x})
<1> DEFINE Prod(T) == ProductOnSet(f, T)
           Apart == {T \in SUBSET S : \A y \in T : Prod(T) = f[y] * Prod(T \ {y})}
<1>1. \A T \in SUBSET S : IsFiniteSet(T) /\ Prod(T) \in Nat \ {0}
  BY FS_Subset, ProductIsPositive
<1>2. \A T \in SUBSET S : T # {} => \E c \in T : Prod(T) = f[c] * Prod(T \ {c})
  BY <1>1, ProductTakesOne
<1> HIDE DEF Prod
<1>3. ASSUME NEW T \in SUBSET S, \A y \in T : T \ {y} \in Apart
      PROVE  T \in Apart
  <2> SUFFICES ASSUME NEW y \in T
               PROVE  Prod(T) = f[y] * Prod(T \ {y})
    OBVIOUS
  <2>1. PICK c \in T : Prod(T) = f[c] * Prod(T \ {c})
    BY <1>2
  <2>2. CASE c = y
    BY <2>1, <2>2
  <2>3. CASE c # y
    <3>1. Prod(T \ {c}) = f[y] * Prod((T \ {c}) \ {y})
      BY <1>3, <2>3
    <3>2. Prod(T \ {y}) = f[c] * Prod((T \ {y}) \ {c})
      BY <1>3, <2>3
    <3>3. (T \ {c}) \ {y} = (T \ {y}) \ {c} /\ (T \ {c}) \ {y} \in SUBSET S
      OBVIOUS
    <3>4. f[c] \in Nat /\ f[y] \in Nat /\ Prod((T \ {c}) \ {y}) \in Nat
      BY <1>1, <3>3
    <3>5. f[c] * (f[y] * Prod((T \ {c}) \ {y})) = f[y] * (f[c] * Prod((T \ {c}) \ {y}))
      BY <3>4, TimesSwaps
    <3>6. Prod(T) = f[c] * (f[y] * Prod((T \ {c}) \ {y})) /\ Prod(T \ {y}) = f[c] * Prod((T \ {c}) \ {y})
      BY <2>1, <3>1, <3>2, <3>3
    <3> QED BY <3>5, <3>6
  <2> QED BY <2>2, <2>3
<1> HIDE DEF Apart
<1>4. S \in Apart
  BY <1>3, SubsetInduction
<1> QED BY <1>4 DEF Apart, Prod

=============================================================================
