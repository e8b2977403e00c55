----------------------------- MODULE FiniteSums ------------------------------
(***************************************************************************)
(* Sums over finite sets, as SumFunctionOnSet of the module Functions      *)
(* computes them: what an audit of the tables adds up.  The fold is a      *)
(* recursive function; that it is well defined, and does not depend on the *)
(* order in which CHOOSE takes the elements, is proved by induction over   *)
(* finite sets in the form of a family of sets (FiniteInduction).          *)
(***************************************************************************)
EXTENDS Integers, FiniteSets, Functions, FiniteSetTheorems, WellFoundedInduction, TLAPS

\* A family of finite sets that contains a set as soon as it contains what is
\* left without any one of its elements contains them all: otherwise there
\* were a smallest set outside it.
LEMMA FiniteInduction ==
    ASSUME NEW S, IsFiniteSet(S), NEW F,
           \A T \in SUBSET S : (\A x \in T : T \ {x} \in F) => T \in F
    PROVE  S \in F
<1> DEFINE Bad == (SUBSET S) \ F
<1> SUFFICES ASSUME S \notin F PROVE FALSE
  OBVIOUS
<1>1. Bad \subseteq FiniteSubsetsOf(S) /\ Bad # {}
  BY FS_FiniteSubsetsOfFinite
<1>2. IsWellFoundedOn(StrictSubsetOrdering(S), FiniteSubsetsOf(S))
  BY FS_StrictSubsetOrderingWellFounded
<1> HIDE DEF Bad
<1>3. PICK T \in Bad : \A U \in Bad : ~(<<U, T>> \in StrictSubsetOrdering(S))
  BY <1>1, <1>2, WFMin
<1>4. T \in SUBSET S /\ T \notin F
  BY DEF Bad
<1>5. PICK x \in T : T \ {x} \notin F
  BY <1>4
<1>6. <<T \ {x}, T>> \in StrictSubsetOrdering(S) /\ T \ {x} \in Bad
  BY <1>4, <1>5 DEF StrictSubsetOrdering, Bad
<1> QED
  BY <1>3, <1>6

\* A finite set of numbers has a least one.
LEMMA LeastMember ==
    ASSUME NEW S, IsFiniteSet(S), S \subseteq Int, S # {}
    PROVE  \E m \in S : \A x \in S : m <= x
<1> DEFINE F == {T \in SUBSET S : T # {} => \E m \in T : \A x \in T : m <= x}
<1>1. ASSUME NEW T \in SUBSET S, \A x \in T : T \ {x} \in F PROVE T \in F
  <2> SUFFICES ASSUME NEW x \in T PROVE \E m \in T : \A y \in T : m <= y
    OBVIOUS
  <2>1. CASE T \ {x} = {}
    BY <2>1
  <2>2. CASE T \ {x} # {}
    <3>1. PICK m \in T \ {x} : \A y \in T \ {x} : m <= y
      BY <1>1, <2>2
    <3> QED
      BY <3>1
  <2> QED
    BY <2>1, <2>2
<1> HIDE DEF F
<1>2. S \in F
  BY <1>1, FiniteInduction
<1> QED
  BY <1>2 DEF F

\* The element the fold takes next.
Any(s) == CHOOSE x \in s : TRUE

\* f computes the sums of w over the subsets of T.
Sums(w, T, f) ==
    f = [s \in SUBSET T |-> IF s = {} THEN 0 ELSE w[Any(s)] + f[s \ {Any(s)}]]

\* The sum unfolded to the recursion of MapThenFoldSet.
LEMMA SumIsFold ==
    ASSUME NEW w, NEW T
    PROVE  SumFunctionOnSet(w, T) = (CHOOSE f : Sums(w, T, f))[T]
  BY DEF SumFunctionOnSet, FoldFunctionOnSet, MapThenFoldSet, Sums, Any

\* The recursion has a solution: one that is right for all sets up to a size
\* yields one that is right up to the next size.
LEMMA SumsExist ==
    ASSUME NEW T, IsFiniteSet(T), NEW w, \A x \in T : w[x] \in Int
    PROVE  \E f \in [SUBSET T -> Int] : Sums(w, T, f)
<1> DEFINE Sum(f, s) == IF s = {} THEN 0 ELSE w[Any(s)] + f[s \ {Any(s)}]
           Right(U, f) == \A s \in SUBSET T :
                             Cardinality(s) <= Cardinality(U) => f[s] = Sum(f, s)
           F == {U \in SUBSET T : \E f \in [SUBSET T -> Int] : Right(U, f)}
<1>1. \A s \in SUBSET T : IsFiniteSet(s) /\ Cardinality(s) \in Nat
                              /\ Cardinality(s) <= Cardinality(T)
  BY FS_Subset, FS_CardinalityType
<1>2. \A s \in SUBSET T : s # {} =>
         /\ Any(s) \in s /\ w[Any(s)] \in Int /\ s \ {Any(s)} \in SUBSET T
         /\ Cardinality(s \ {Any(s)}) = Cardinality(s) - 1 /\ Cardinality(s) # 0
  BY <1>1, FS_RemoveElement, FS_EmptySet DEF Any
<1>3. ASSUME NEW U \in SUBSET T, \A x \in U : U \ {x} \in F
      PROVE  U \in F
  <2>1. CASE U = {}
    <3> DEFINE f == [s \in SUBSET T |-> 0]
    <3>1. f \in [SUBSET T -> Int] OBVIOUS
    <3>2. Right(U, f)
      BY <1>1, <2>1, FS_EmptySet
    <3> QED BY <3>1, <3>2
  <2>2. CASE U # {}
    <3>1. PICK f \in [SUBSET T -> Int] : Right(U \ {Any(U)}, f)
      BY <1>2, <1>3, <2>2
    <3> DEFINE n == Cardinality(U)
               g == [s \in SUBSET T |-> IF Cardinality(s) < n THEN f[s] ELSE Sum(f, s)]
    <3>2. n \in Nat /\ Cardinality(U \ {Any(U)}) = n - 1
      BY <1>1, <1>2, <2>2
    <3>3. ASSUME NEW s \in SUBSET T PROVE Sum(f, s) \in Int
      <4>1. CASE s # {}
        <5>1. w[Any(s)] \in Int /\ f[s \ {Any(s)}] \in Int BY <1>2, <4>1
        <5> QED BY <4>1, <5>1
      <4> QED BY <4>1
    <3>4. g \in [SUBSET T -> Int]
      BY <3>3
    <3>5. \A s \in SUBSET T : Cardinality(s) <= n => g[s] = Sum(f, s)
      BY <1>1, <3>1, <3>2
    <3>6. \A s \in SUBSET T : Cardinality(s) <= n => Sum(g, s) = Sum(f, s)
      BY <1>1, <1>2, <3>2
    <3>7. Right(U, g)
      BY <3>5, <3>6
    <3> QED BY <3>4, <3>7
  <2> QED BY <2>1, <2>2
<1> HIDE DEF F
<1>4. T \in F
  BY <1>3, FiniteInduction
<1>5. PICK f \in [SUBSET T -> Int] : Right(T, f)
  BY <1>4 DEF F
<1>6. \A s \in SUBSET T : f[s] = Sum(f, s)
  BY <1>1, <1>5
<1> QED
  BY <1>6 DEF Sums

\* ... and one only, whatever larger set it was computed for.
LEMMA SumsAgree ==
    ASSUME NEW T, IsFiniteSet(T), NEW U \in SUBSET T, NEW w, NEW v,
           \A x \in U : w[x] = v[x],
           NEW f, Sums(w, T, f), NEW g, Sums(v, U, g)
    PROVE  f[U] = g[U]
<1> DEFINE F == {s \in SUBSET U : f[s] = g[s]}
<1>1. IsFiniteSet(U)
  BY FS_Subset
<1>2. ASSUME NEW s \in SUBSET U, \A x \in s : s \ {x} \in F
      PROVE  s \in F
  <2>1. /\ f[s] = IF s = {} THEN 0 ELSE w[Any(s)] + f[s \ {Any(s)}]
        /\ g[s] = IF s = {} THEN 0 ELSE v[Any(s)] + g[s \ {Any(s)}]
    BY DEF Sums
  <2>2. s # {} => Any(s) \in s /\ w[Any(s)] = v[Any(s)]
    BY DEF Any
  <2> QED BY <1>2, <2>1, <2>2
<1> HIDE DEF F
<1>3. U \in F
  BY <1>1, <1>2, FiniteInduction
<1> QED
  BY <1>3 DEF F

\* The sum is the solution, and an integer.
LEMMA SumIsInt ==
    ASSUME NEW T, IsFiniteSet(T), NEW w, \A x \in T : w[x] \in Int
    PROVE  /\ SumFunctionOnSet(w, T) \in Int
           /\ Sums(w, T, CHOOSE f : Sums(w, T, f))
           /\ \A f : Sums(w, T, f) => f[T] = SumFunctionOnSet(w, T)
<1> DEFINE c == CHOOSE f : Sums(w, T, f)
<1>1. PICK f \in [SUBSET T -> Int] : Sums(w, T, f)
  BY SumsExist
<1>2. Sums(w, T, c)
  BY <1>1
<1>3. SumFunctionOnSet(w, T) = c[T]
  BY SumIsFold
<1> HIDE DEF c
<1>4. \A g : Sums(w, T, g) => g[T] = c[T]
  BY <1>2, SumsAgree
<1>5. f[T] \in Int /\ f[T] = c[T]
  BY <1>1, <1>4
<1> QED
  BY <1>2, <1>3, <1>4, <1>5 DEF c

\* Only the values on the set matter.
LEMMA SumOfEqual ==
    ASSUME NEW T, IsFiniteSet(T), NEW w, NEW v,
           \A x \in T : w[x] \in Int /\ w[x] = v[x]
    PROVE  SumFunctionOnSet(w, T) = SumFunctionOnSet(v, T)
<1>1. PICK f : Sums(w, T, f) BY SumsExist
<1>2. PICK g : Sums(v, T, g) BY SumsExist
<1>3. f[T] = g[T] BY <1>1, <1>2, SumsAgree
<1> QED BY <1>1, <1>2, <1>3, SumIsInt

\* Nothing adds up to nothing.
LEMMA SumOfEmpty ==
    ASSUME NEW w
    PROVE  SumFunctionOnSet(w, {}) = 0
<1>1. IsFiniteSet({}) BY FS_EmptySet
<1>2. PICK f : Sums(w, {}, f) BY <1>1, SumsExist
<1>3. f[{}] = 0 BY <1>2 DEF Sums
<1> QED BY <1>1, <1>2, <1>3, SumIsInt

\* One step of the recursion.
LEMMA SumOfAny ==
    ASSUME NEW T, IsFiniteSet(T), T # {}, NEW w, \A x \in T : w[x] \in Int
    PROVE  SumFunctionOnSet(w, T) = w[Any(T)] + SumFunctionOnSet(w, T \ {Any(T)})
<1> DEFINE U == T \ {Any(T)}
<1>1. U \in SUBSET T /\ IsFiniteSet(U) BY FS_Subset
<1>2. PICK f : Sums(w, T, f) BY SumsExist
<1>3. PICK g : Sums(w, U, g) BY <1>1, SumsExist
<1>4. f[T] = w[Any(T)] + f[U] BY <1>2 DEF Sums
<1>5. f[U] = g[U] BY <1>1, <1>2, <1>3, SumsAgree
<1>6. SumFunctionOnSet(w, T) = f[T] BY <1>2, SumIsInt
<1>7. SumFunctionOnSet(w, U) = g[U] BY <1>1, <1>3, SumIsInt
<1> QED BY <1>4, <1>5, <1>6, <1>7

\* The order of summation does not matter: any element may be taken out.
LEMMA SumWithout ==
    ASSUME NEW T, IsFiniteSet(T), NEW w, \A x \in T : w[x] \in Int, NEW y \in T
    PROVE  SumFunctionOnSet(w, T) = w[y] + SumFunctionOnSet(w, T \ {y})
<1> DEFINE S(U) == SumFunctionOnSet(w, U)
           F == {U \in SUBSET T : \A x \in U : S(U) = w[x] + S(U \ {x})}
<1>1. \A U \in SUBSET T : IsFiniteSet(U) /\ S(U) \in Int
  BY FS_Subset, SumIsInt
<1>2. ASSUME NEW U \in SUBSET T, \A x \in U : U \ {x} \in F, NEW x \in U
      PROVE  S(U) = w[x] + S(U \ {x})
  <2> DEFINE c == Any(U)
  <2>1. c \in U BY DEF Any
  <2>2. S(U) = w[c] + S(U \ {c}) BY <1>1, SumOfAny
  <2> HIDE DEF S, c
  <2>3. CASE x = c BY <2>2, <2>3
  <2>4. CASE x # c
    <3>1. S(U \ {c}) = w[x] + S((U \ {c}) \ {x}) BY <1>2, <2>1, <2>4
    <3>2. S(U \ {x}) = w[c] + S((U \ {x}) \ {c}) BY <1>2, <2>1, <2>4
    <3>3. (U \ {c}) \ {x} = (U \ {x}) \ {c} OBVIOUS
    <3>4. /\ w[x] \in Int /\ w[c] \in Int /\ S((U \ {x}) \ {c}) \in Int
      BY <1>1, <2>1
    <3> DEFINE rest == S((U \ {x}) \ {c})
    <3>5. S(U) = w[c] + (w[x] + rest) /\ S(U \ {x}) = w[c] + rest
      BY <2>2, <3>1, <3>2, <3>3
    <3>6. rest \in Int BY <3>4
    <3> HIDE DEF rest
    <3> QED BY <3>4, <3>5, <3>6
  <2> QED BY <2>3, <2>4
<1>3. \A U \in SUBSET T : (\A x \in U : U \ {x} \in F) => U \in F
  BY <1>2
<1> HIDE DEF F
<1>4. T \in F
  BY <1>3, FiniteInduction
<1> QED
  BY <1>4 DEF F

\* ... or put in.
LEMMA SumWith ==
    ASSUME NEW T, IsFiniteSet(T), NEW y, y \notin T,
           NEW w, \A x \in T \cup {y} : w[x] \in Int
    PROVE  /\ IsFiniteSet(T \cup {y})
           /\ SumFunctionOnSet(w, T) \in Int
           /\ SumFunctionOnSet(w, T \cup {y}) = w[y] + SumFunctionOnSet(w, T)
<1>1. IsFiniteSet(T \cup {y}) BY FS_AddElement
<1>2. (T \cup {y}) \ {y} = T OBVIOUS
<1>3. SumFunctionOnSet(w, T \cup {y}) = w[y] + SumFunctionOnSet(w, (T \cup {y}) \ {y})
  BY <1>1, SumWithout
<1> QED BY <1>1, <1>2, <1>3, SumIsInt

\* A sum lies between the multiples of what bounds its terms.
LEMMA SumBetween ==
    ASSUME NEW T, IsFiniteSet(T), NEW w, NEW low \in Int, NEW high \in Int,
           \A x \in T : w[x] \in low..high
    PROVE  /\ SumFunctionOnSet(w, T) \in Int
           /\ Cardinality(T) * low <= SumFunctionOnSet(w, T)
           /\ SumFunctionOnSet(w, T) <= Cardinality(T) * high
<1> DEFINE Sum(U) == SumFunctionOnSet(w, U)
           F == {U \in SUBSET T : /\ Cardinality(U) * low <= Sum(U)
                                  /\ Sum(U) <= Cardinality(U) * high}
<1>1. \A U \in SUBSET T : /\ IsFiniteSet(U) /\ Cardinality(U) \in Nat
                          /\ \A x \in U : w[x] \in Int
  BY FS_Subset, FS_CardinalityType
<1>2. \A U \in SUBSET T : Sum(U) \in Int
  BY <1>1, SumIsInt
<1>3. ASSUME NEW U \in SUBSET T, \A x \in U : U \ {x} \in F PROVE U \in F
  <2>1. CASE U = {}
    BY <2>1, SumOfEmpty, FS_EmptySet
  <2>2. CASE U # {}
    <3>1. PICK x \in U : TRUE
      BY <2>2
    <3>2. Sum(U) = w[x] + Sum(U \ {x})
      BY <1>1, SumWithout
    <3>3. Cardinality(U) = Cardinality(U \ {x}) + 1 /\ U \ {x} \in SUBSET T
      BY <1>1, FS_RemoveElement
    <3>4. /\ Cardinality(U \ {x}) * low <= Sum(U \ {x})
          /\ Sum(U \ {x}) <= Cardinality(U \ {x}) * high
      BY <1>3
    <3> DEFINE n == Cardinality(U \ {x})
               s == Sum(U \ {x})
               m == Cardinality(U)
    <3>5. n \in Nat /\ s \in Int /\ w[x] \in low..high
      BY <1>1, <1>2, <3>3
    <3> HIDE DEF n, s, m, Sum
    <3>6. m = n + 1 /\ n * low <= s /\ s <= n * high /\ Sum(U) = w[x] + s
      BY <3>2, <3>3, <3>4 DEF n, s, m
    <3>7. m * low = n * low + low /\ m * high = n * high + high
      BY <3>5, <3>6
    <3>8. n * low \in Int /\ n * high \in Int
      BY <3>5
    <3>9. m * low <= Sum(U) /\ Sum(U) <= m * high
      BY <3>5, <3>6, <3>7, <3>8
    <3> QED
      BY <3>9 DEF m
  <2> QED
    BY <2>1, <2>2
<1> HIDE DEF F
<1>4. T \in F
  BY <1>3, FiniteInduction
<1> QED
  BY <1>2, <1>4 DEF F
=============================================================================
