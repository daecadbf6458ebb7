-------------------------------- MODULE Sums --------------------------------
(***************************************************************************)
(* What the models need of SumFunction of the community modules: the sum   *)
(* of a function over a finite set, one element changed, terms that are    *)
(* zero, a difference of sums.  SumFunction is a recursive function over   *)
(* the subsets of its domain; facts of it are proved by the well-founded   *)
(* order of these subsets (WFMin), not by an induction rule.               *)
(***************************************************************************)
EXTENDS Integers, FiniteSets, FiniteSetTheorems, WellFoundedInduction, Functions, TLAPS

Chosen(s) == CHOOSE x \in s : TRUE

\* A set of subsets of a finite set that holds each one whose proper parts it
\* holds, holds them all.
LEMMA SubsetsByParts ==
    ASSUME NEW S, IsFiniteSet(S), NEW good \in SUBSET SUBSET S,
           \A s \in SUBSET S : (\A t \in SUBSET s : t # s => t \in good) => s \in good
    PROVE  good = SUBSET S
<1> SUFFICES ASSUME good # SUBSET S PROVE FALSE
  OBVIOUS
<1> DEFINE bad == (SUBSET S) \ good
<1>1. bad \subseteq SUBSET S /\ bad # {}
  OBVIOUS
<1>2. IsWellFoundedOn(StrictSubsetOrdering(S), SUBSET S)
  <2>1. FiniteSubsetsOf(S) = SUBSET S
    BY FS_FiniteSubsetsOfFinite
  <2>2. IsWellFoundedOn(StrictSubsetOrdering(S), FiniteSubsetsOf(S))
    BY FS_StrictSubsetOrderingWellFounded
  <2> QED BY <2>1, <2>2
<1>3. PICK s \in bad : \A t \in bad : ~ (<<t, s>> \in StrictSubsetOrdering(S))
  <2> HIDE DEF bad
  <2> QED BY <1>1, <1>2, WFMin
<1>4. s \in SUBSET S /\ s \notin good
  OBVIOUS
<1>5. ASSUME NEW t \in SUBSET s, t # s PROVE t \in good
  <2>1. t \in SUBSET S
    BY <1>4
  <2>2. <<t, s>> \in StrictSubsetOrdering(S)
    BY <1>4, <1>5, <2>1 DEF StrictSubsetOrdering
  <2> QED BY <1>3, <2>1, <2>2
<1> QED BY <1>4, <1>5

LEMMA ChosenIsIn ==
    ASSUME NEW S, NEW s \in SUBSET S, s # {}
    PROVE  /\ Chosen(s) \in s /\ Chosen(s) \in S
           /\ s \ {Chosen(s)} \in SUBSET S /\ s \ {Chosen(s)} \in SUBSET s /\ s \ {Chosen(s)} # s
  BY DEF Chosen

\* The same, element by element.
LEMMA SubsetsBySteps ==
    ASSUME NEW S, IsFiniteSet(S), NEW good \in SUBSET SUBSET S, {} \in good,
           \A s \in SUBSET S : s # {} /\ s \ {Chosen(s)} \in good => s \in good
    PROVE  good = SUBSET S
<1>1. ASSUME NEW s \in SUBSET S, \A t \in SUBSET s : t # s => t \in good PROVE s \in good
  <2>1. CASE s = {}
    BY <2>1
  <2>2. CASE s # {}
    <3> DEFINE t == s \ {Chosen(s)}
    <3>1. t \in SUBSET s /\ t # s
      BY <2>2, ChosenIsIn
    <3> HIDE DEF t
    <3>2. t \in good
      BY <1>1, <3>1
    <3> QED BY <2>2, <3>2 DEF t
  <2> QED BY <2>1, <2>2
<1> QED BY <1>1, SubsetsByParts

\* g gives each subset of S the sum of f over it.
Adds(f, S, g) ==
    g = [s \in SUBSET S |-> IF s = {} THEN 0 ELSE f[Chosen(s)] + g[s \ {Chosen(s)}]]

SumsUp(f, S, p) ==
    /\ p[{}] = 0
    /\ \A s \in SUBSET S : s # {} => p[s] = f[Chosen(s)] + p[s \ {Chosen(s)}]

LEMMA AddsSumsUp ==
    ASSUME NEW S, NEW f, NEW p, Adds(f, S, p)
    PROVE  SumsUp(f, S, p)
  BY DEF Adds, SumsUp

LEMMA SumUnfolds ==
    ASSUME NEW S, NEW f
    PROVE  SumFunctionOnSet(f, S) = (CHOOSE g : Adds(f, S, g))[S]
  BY DEF SumFunctionOnSet, FoldFunctionOnSet, MapThenFoldSet, Chosen, Adds

\* Two such functions agree where both are defined.
LEMMA AddsAgree ==
    ASSUME NEW S, IsFiniteSet(S), NEW f, NEW A \in SUBSET S, NEW B \in SUBSET S,
           NEW p, NEW q, Adds(f, A, p), Adds(f, B, q), NEW s \in SUBSET (A \cap B)
    PROVE  p[s] = q[s]
<1>a. SumsUp(f, A, p) /\ SumsUp(f, B, q)
  BY AddsSumsUp
<1> DEFINE V == A \cap B
           good == {t \in SUBSET V : p[t] = q[t]}
<1>1. IsFiniteSet(V)
  BY FS_Subset
<1>2. {} \in good
  BY <1>a DEF SumsUp
<1>3. ASSUME NEW t \in SUBSET V, t # {}, t \ {Chosen(t)} \in good
      PROVE  t \in good
  <2>1. t \in SUBSET A /\ t \in SUBSET B
    OBVIOUS
  <2>2. p[t] = f[Chosen(t)] + p[t \ {Chosen(t)}]
    BY <1>3, <2>1, <1>a DEF SumsUp
  <2>3. q[t] = f[Chosen(t)] + q[t \ {Chosen(t)}]
    BY <1>3, <2>1, <1>a DEF SumsUp
  <2> QED BY <2>2, <2>3, <1>3
<1>4. good = SUBSET V
  <2>1. good \in SUBSET SUBSET V
    OBVIOUS
  <2>2. \A t \in SUBSET V : t # {} /\ t \ {Chosen(t)} \in good => t \in good
    BY <1>3
  <2> HIDE DEF good, V
  <2> QED BY <1>1, <1>2, <2>1, <2>2, SubsetsBySteps
<1> QED BY <1>4

\* There is one for every finite set.
LEMMA AddsExists ==
    ASSUME NEW S, IsFiniteSet(S), NEW f
    PROVE  \E g : Adds(f, S, g)
<1> DEFINE good == {T \in SUBSET S : \E g : Adds(f, T, g)}
<1>1. ASSUME NEW T \in SUBSET S, \A t \in SUBSET T : t # T => t \in good PROVE T \in good
  <2> DEFINE Sum(t) == (CHOOSE h : Adds(f, t, h))[t]
             g == [s \in SUBSET T |-> IF s = {} THEN 0
                                      ELSE f[Chosen(s)] + Sum(s \ {Chosen(s)})]
  <2>1. ASSUME NEW t \in SUBSET T, t # T PROVE Adds(f, t, CHOOSE h : Adds(f, t, h))
    BY <1>1, <2>1
  <2>a. ASSUME NEW t \in SUBSET T, t # T PROVE SumsUp(f, t, CHOOSE h : Adds(f, t, h))
    BY <2>1, <2>a, AddsSumsUp
  <2>2. ASSUME NEW s \in SUBSET T, s # {}
        PROVE  g[s \ {Chosen(s)}] = Sum(s \ {Chosen(s)})
    <3>1. PICK t : t = s \ {Chosen(s)}
      OBVIOUS
    <3>2. t \in SUBSET T /\ t # T
      BY <2>2, <3>1, ChosenIsIn
    <3>3. CASE t = {}
      <4>1. Sum(t) = 0
        BY <2>a, <3>2, <3>3 DEF SumsUp
      <4> QED BY <3>1, <3>3, <4>1
    <3>4. CASE t # {}
      <4>1. PICK h : h = CHOOSE x : Adds(f, t, x)
        OBVIOUS
      <4>2. Adds(f, t, h) /\ Sum(t) = h[t]
        BY <2>1, <3>2, <4>1
      <4>3. PICK u : u = t \ {Chosen(t)}
        OBVIOUS
      <4>4. u \in SUBSET T /\ u # T /\ u \in SUBSET t
        BY <3>2, <3>4, <4>3, ChosenIsIn
      <4>5. h[t] = f[Chosen(t)] + h[u]
        BY <4>1, <4>3, <2>a, <3>2, <3>4 DEF SumsUp
      <4>6. PICK k : k = CHOOSE x : Adds(f, u, x)
        OBVIOUS
      <4>7. Adds(f, u, k) /\ Sum(u) = k[u]
        BY <2>1, <4>4, <4>6
      <4>8. h[u] = k[u]
        <5>1. IsFiniteSet(t)
          BY <3>2, FS_Subset
        <5>2. u \in SUBSET (t \cap u)
          BY <4>4
        <5> QED BY <4>2, <4>4, <4>7, <5>1, <5>2, AddsAgree
      <4>9. g[t] = f[Chosen(t)] + Sum(u)
        BY <3>2, <3>4, <4>3
      <4> QED BY <3>1, <4>2, <4>5, <4>7, <4>8, <4>9
    <3> QED BY <3>3, <3>4
  <2>3. g = [s \in SUBSET T |-> IF s = {} THEN 0 ELSE f[Chosen(s)] + g[s \ {Chosen(s)}]]
    <3>1. \A s \in SUBSET T : s # {} => g[s \ {Chosen(s)}] = Sum(s \ {Chosen(s)})
      BY <2>2
    <3> HIDE DEF Sum
    <3> QED BY <3>1
  <2>4. Adds(f, T, g)
    <3> HIDE DEF g
    <3> QED BY <2>3 DEF Adds
  <2> HIDE DEF g
  <2> QED BY <2>4
<1>2. good \in SUBSET SUBSET S
  OBVIOUS
<1>3. good = SUBSET S
  <2>1. \A s \in SUBSET S : (\A t \in SUBSET s : t # s => t \in good) => s \in good
    BY <1>1
  <2> HIDE DEF good
  <2> QED BY <1>2, <2>1, SubsetsByParts
<1> QED BY <1>3

\* SumFunction is such a sum.
LEMMA SumAdds ==
    ASSUME NEW S, IsFiniteSet(S), NEW f, DOMAIN f = S
    PROVE  \E p : SumFunction(f) = p[S] /\ SumsUp(f, S, p)
<1>1. SumFunction(f) = (CHOOSE p : Adds(f, S, p))[S]
  BY SumUnfolds DEF SumFunction
<1>2. \E p : Adds(f, S, p)
  BY AddsExists
<1>3. PICK p : p = CHOOSE x : Adds(f, S, x)
  OBVIOUS
<1>4. Adds(f, S, p)
  BY <1>2, <1>3
<1>5. SumsUp(f, S, p)
  BY <1>4, AddsSumsUp
<1> QED BY <1>1, <1>3, <1>5

\* The sum of integers is an integer, of naturals a natural, of zeros zero.
LEMMA SumInInt ==
    ASSUME NEW S, IsFiniteSet(S), NEW f \in [S -> Int]
    PROVE  SumFunction(f) \in Int
<1>1. PICK p : SumFunction(f) = p[S] /\ SumsUp(f, S, p)
  BY SumAdds
<1> DEFINE good == {s \in SUBSET S : p[s] \in Int}
<1>3. ASSUME NEW s \in SUBSET S, s # {}, s \ {Chosen(s)} \in good PROVE s \in good
  BY <1>1, <1>3, ChosenIsIn DEF SumsUp
<1>4. {} \in good /\ good \in SUBSET SUBSET S
  BY <1>1 DEF SumsUp
<1>5. good = SUBSET S
  <2>1. \A s \in SUBSET S : s # {} /\ s \ {Chosen(s)} \in good => s \in good
    BY <1>3
  <2> HIDE DEF good
  <2> QED BY <1>4, <2>1, SubsetsBySteps
<1> QED BY <1>1, <1>5

LEMMA SumInNat ==
    ASSUME NEW S, IsFiniteSet(S), NEW f \in [S -> Nat]
    PROVE  SumFunction(f) \in Nat
<1>1. PICK p : SumFunction(f) = p[S] /\ SumsUp(f, S, p)
  BY SumAdds
<1> DEFINE good == {s \in SUBSET S : p[s] \in Nat}
<1>3. ASSUME NEW s \in SUBSET S, s # {}, s \ {Chosen(s)} \in good PROVE s \in good
  BY <1>1, <1>3, ChosenIsIn DEF SumsUp
<1>4. {} \in good /\ good \in SUBSET SUBSET S
  BY <1>1 DEF SumsUp
<1>5. good = SUBSET S
  <2>1. \A s \in SUBSET S : s # {} /\ s \ {Chosen(s)} \in good => s \in good
    BY <1>3
  <2> HIDE DEF good
  <2> QED BY <1>4, <2>1, SubsetsBySteps
<1> QED BY <1>1, <1>5

\* The sum of a difference is the difference of the sums.
LEMMA SumOfDifference ==
    ASSUME NEW S, IsFiniteSet(S), NEW f \in [S -> Int], NEW k \in [S -> Int]
    PROVE  SumFunction([x \in S |-> f[x] - k[x]]) = SumFunction(f) - SumFunction(k)
<1>1. PICK d : d = [x \in S |-> f[x] - k[x]]
  OBVIOUS
<1>2. PICK p : SumFunction(f) = p[S] /\ SumsUp(f, S, p)
  BY SumAdds
<1>3. PICK q : SumFunction(k) = q[S] /\ SumsUp(k, S, q)
  BY SumAdds
<1>4. PICK r : SumFunction(d) = r[S] /\ SumsUp(d, S, r)
  BY <1>1, SumAdds
<1> DEFINE good == {s \in SUBSET S : p[s] \in Int /\ q[s] \in Int /\ r[s] = p[s] - q[s]}
<1>8. ASSUME NEW s \in SUBSET S, s # {}, s \ {Chosen(s)} \in good PROVE s \in good
  <2>1. PICK t : t = s \ {Chosen(s)}
    OBVIOUS
  <2>2. p[t] \in Int /\ q[t] \in Int /\ r[t] = p[t] - q[t]
    BY <1>8, <2>1
  <2>3. Chosen(s) \in S /\ f[Chosen(s)] \in Int /\ k[Chosen(s)] \in Int
    BY <1>8, ChosenIsIn
  <2>4. d[Chosen(s)] = f[Chosen(s)] - k[Chosen(s)]
    BY <1>1, <2>3
  <2>5. p[s] = f[Chosen(s)] + p[t] /\ q[s] = k[Chosen(s)] + q[t] /\ r[s] = d[Chosen(s)] + r[t]
    BY <1>2, <1>3, <1>4, <1>8, <2>1 DEF SumsUp
  <2> QED BY <2>2, <2>3, <2>4, <2>5
<1>9. {} \in good /\ good \in SUBSET SUBSET S
  BY <1>2, <1>3, <1>4 DEF SumsUp
<1>10. good = SUBSET S
  <2>1. \A s \in SUBSET S : s # {} /\ s \ {Chosen(s)} \in good => s \in good
    BY <1>8
  <2> HIDE DEF good
  <2> QED BY <1>9, <2>1, SubsetsBySteps
<1> QED BY <1>1, <1>2, <1>3, <1>4, <1>10

\* The sum of two functions.
LEMMA SumOfBoth ==
    ASSUME NEW S, IsFiniteSet(S), NEW f \in [S -> Int], NEW k \in [S -> Int]
    PROVE  SumFunction([x \in S |-> f[x] + k[x]]) = SumFunction(f) + SumFunction(k)
<1>1. PICK d : d = [x \in S |-> f[x] + k[x]]
  OBVIOUS
<1>2. PICK p : SumFunction(f) = p[S] /\ SumsUp(f, S, p)
  BY SumAdds
<1>3. PICK q : SumFunction(k) = q[S] /\ SumsUp(k, S, q)
  BY SumAdds
<1>4. PICK r : SumFunction(d) = r[S] /\ SumsUp(d, S, r)
  BY <1>1, SumAdds
<1> DEFINE good == {s \in SUBSET S : p[s] \in Int /\ q[s] \in Int /\ r[s] = p[s] + q[s]}
<1>8. ASSUME NEW s \in SUBSET S, s # {}, s \ {Chosen(s)} \in good PROVE s \in good
  <2>1. PICK t : t = s \ {Chosen(s)}
    OBVIOUS
  <2>2. p[t] \in Int /\ q[t] \in Int /\ r[t] = p[t] + q[t]
    BY <1>8, <2>1
  <2>3. Chosen(s) \in S /\ f[Chosen(s)] \in Int /\ k[Chosen(s)] \in Int
    BY <1>8, ChosenIsIn
  <2>4. d[Chosen(s)] = f[Chosen(s)] + k[Chosen(s)]
    BY <1>1, <2>3
  <2>5. p[s] = f[Chosen(s)] + p[t] /\ q[s] = k[Chosen(s)] + q[t] /\ r[s] = d[Chosen(s)] + r[t]
    BY <1>2, <1>3, <1>4, <1>8, <2>1 DEF SumsUp
  <2> QED BY <2>2, <2>3, <2>4, <2>5
<1>9. {} \in good /\ good \in SUBSET SUBSET S
  BY <1>2, <1>3, <1>4 DEF SumsUp
<1>10. good = SUBSET S
  <2>1. \A s \in SUBSET S : s # {} /\ s \ {Chosen(s)} \in good => s \in good
    BY <1>8
  <2> HIDE DEF good
  <2> QED BY <1>9, <2>1, SubsetsBySteps
<1> QED BY <1>1, <1>2, <1>3, <1>4, <1>10

\* Every term multiplied.
LEMMA SumOfMultiple ==
    ASSUME NEW S, IsFiniteSet(S), NEW f \in [S -> Int], NEW c \in Int
    PROVE  SumFunction([x \in S |-> c * f[x]]) = c * SumFunction(f)
<1>1. PICK d : d = [x \in S |-> c * f[x]]
  OBVIOUS
<1>2. PICK p : SumFunction(f) = p[S] /\ SumsUp(f, S, p)
  BY SumAdds
<1>4. PICK r : SumFunction(d) = r[S] /\ SumsUp(d, S, r)
  BY <1>1, SumAdds
<1> DEFINE good == {s \in SUBSET S : p[s] \in Int /\ r[s] = c * p[s]}
<1>8. ASSUME NEW s \in SUBSET S, s # {}, s \ {Chosen(s)} \in good PROVE s \in good
  <2>1. PICK t : t = s \ {Chosen(s)}
    OBVIOUS
  <2>2. p[t] \in Int /\ r[t] = c * p[t]
    BY <1>8, <2>1
  <2>3. Chosen(s) \in S /\ f[Chosen(s)] \in Int
    BY <1>8, ChosenIsIn
  <2>4. d[Chosen(s)] = c * f[Chosen(s)]
    BY <1>1, <2>3
  <2>5. p[s] = f[Chosen(s)] + p[t] /\ r[s] = d[Chosen(s)] + r[t]
    BY <1>2, <1>4, <1>8, <2>1 DEF SumsUp
  <2>6. PICK a \in Int : a = f[Chosen(s)]
    BY <2>3
  <2>7. PICK b \in Int : b = p[t]
    BY <2>2
  <2>8. c * (a + b) = c * a + c * b
    OBVIOUS
  <2> QED BY <2>2, <2>4, <2>5, <2>6, <2>7, <2>8
<1>9. {} \in good /\ good \in SUBSET SUBSET S
  <2>1. p[{}] = 0 /\ r[{}] = 0 /\ c * 0 = 0
    BY <1>2, <1>4 DEF SumsUp
  <2> QED BY <2>1
<1>10. good = SUBSET S
  <2>1. \A s \in SUBSET S : s # {} /\ s \ {Chosen(s)} \in good => s \in good
    BY <1>8
  <2> HIDE DEF good
  <2> QED BY <1>9, <2>1, SubsetsBySteps
<1> QED BY <1>1, <1>2, <1>4, <1>10

\* A sum all of whose terms are zero.
LEMMA SumOfZeros ==
    ASSUME NEW S, IsFiniteSet(S), NEW f \in [S -> Int], \A x \in S : f[x] = 0
    PROVE  SumFunction(f) = 0
<1>1. f = [x \in S |-> f[x] - f[x]]
  OBVIOUS
<1>2. SumFunction([x \in S |-> f[x] - f[x]]) = SumFunction(f) - SumFunction(f)
  BY SumOfDifference
<1> QED BY <1>1, <1>2, SumInInt

\* A sum of which one term is not zero.
LEMMA SumOfOne ==
    ASSUME NEW S, IsFiniteSet(S), NEW f \in [S -> Int], NEW a \in S,
           \A x \in S : x # a => f[x] = 0
    PROVE  SumFunction(f) = f[a]
<1>1. PICK p : SumFunction(f) = p[S] /\ SumsUp(f, S, p)
  BY SumAdds
<1> DEFINE good == {s \in SUBSET S : p[s] = IF a \in s THEN f[a] ELSE 0}
<1>3. ASSUME NEW s \in SUBSET S, s # {}, s \ {Chosen(s)} \in good PROVE s \in good
  <2>1. PICK c : c = Chosen(s)
    OBVIOUS
  <2>2. c \in s /\ c \in S /\ p[s] = f[c] + p[s \ {c}]
    BY <1>1, <1>3, <2>1, ChosenIsIn DEF SumsUp
  <2>3. p[s \ {c}] = IF a \in s \ {c} THEN f[a] ELSE 0
    BY <1>3, <2>1
  <2>4. CASE c = a
    BY <2>2, <2>3, <2>4
  <2>5. CASE c # a
    <3>1. f[c] = 0 /\ (a \in s \ {c} <=> a \in s)
      BY <2>2, <2>5
    <3> QED BY <2>2, <2>3, <3>1
  <2> QED BY <2>4, <2>5
<1>4. {} \in good /\ good \in SUBSET SUBSET S
  BY <1>1 DEF SumsUp
<1>5. good = SUBSET S
  <2>1. \A s \in SUBSET S : s # {} /\ s \ {Chosen(s)} \in good => s \in good
    BY <1>3
  <2> HIDE DEF good
  <2> QED BY <1>4, <2>1, SubsetsBySteps
<1> QED BY <1>1, <1>5

\* Who changes one term changes the sum by as much.
LEMMA SumChanges ==
    ASSUME NEW S, IsFiniteSet(S), NEW f \in [S -> Int], NEW k \in [S -> Int], NEW a \in S,
           \A x \in S : x # a => k[x] = f[x]
    PROVE  SumFunction(k) = SumFunction(f) + k[a] - f[a]
<1>1. PICK d : d = [x \in S |-> k[x] - f[x]]
  OBVIOUS
<1>2. d \in [S -> Int] /\ d[a] = k[a] - f[a] /\ \A x \in S : x # a => d[x] = 0
  BY <1>1
<1>3. SumFunction(d) = d[a]
  BY <1>2, SumOfOne
<1>4. SumFunction(d) = SumFunction(k) - SumFunction(f)
  BY <1>1, SumOfDifference
<1>5. SumFunction(k) \in Int /\ SumFunction(f) \in Int
  BY SumInInt
<1>6. k[a] \in Int /\ f[a] \in Int
  OBVIOUS
<1> QED BY <1>2, <1>3, <1>4, <1>5, <1>6

\* Larger terms, larger sum.
LEMMA SumGrows ==
    ASSUME NEW S, IsFiniteSet(S), NEW f \in [S -> Int], NEW k \in [S -> Int],
           \A x \in S : f[x] <= k[x]
    PROVE  SumFunction(f) <= SumFunction(k)
<1>1. PICK d : d = [x \in S |-> k[x] - f[x]]
  OBVIOUS
<1>2. d \in [S -> Nat]
  BY <1>1
<1>3. SumFunction(d) \in Nat
  BY <1>2, SumInNat
<1>4. SumFunction(d) = SumFunction(k) - SumFunction(f)
  BY <1>1, SumOfDifference
<1> QED BY <1>3, <1>4, SumInInt

\* Terms that are left out because they are zero change nothing.
LEMMA SumOverPart ==
    ASSUME NEW S, IsFiniteSet(S), NEW T \in SUBSET S, NEW f \in [S -> Int], NEW g \in [T -> Int],
           \A x \in T : g[x] = f[x], \A x \in S \ T : f[x] = 0
    PROVE  SumFunction(g) = SumFunction(f)
<1> DEFINE part(s) == [x \in S |-> IF x \in s THEN f[x] ELSE 0]
<1>1. IsFiniteSet(T)
  BY FS_Subset
<1>2. PICK q : SumFunction(g) = q[T] /\ SumsUp(g, T, q)
  BY <1>1, SumAdds
<1> DEFINE good == {s \in SUBSET T : q[s] = SumFunction(part(s))}
<1>3. SumFunction(part({})) = 0
  <2>1. part({}) \in [S -> Int] /\ \A x \in S : part({})[x] = 0
    OBVIOUS
  <2> HIDE DEF part
  <2> QED BY <2>1, SumOfZeros
<1>4. ASSUME NEW s \in SUBSET T, s # {}, s \ {Chosen(s)} \in good PROVE s \in good
  <2>1. PICK c : c = Chosen(s)
    OBVIOUS
  <2>2. c \in s /\ c \in T /\ c \in S /\ q[s] = g[c] + q[s \ {c}]
    BY <1>2, <1>4, <2>1, ChosenIsIn DEF SumsUp
  <2>3. PICK h : h = part(s \ {c})
    OBVIOUS
  <2>4. PICK k : k = part(s)
    OBVIOUS
  <2>5. h \in [S -> Int] /\ k \in [S -> Int]
    BY <2>3, <2>4
  <2>6. h[c] = 0 /\ k[c] = f[c] /\ \A x \in S : x # c => k[x] = h[x]
    BY <2>2, <2>3, <2>4
  <2>7. SumFunction(k) = SumFunction(h) + k[c] - h[c]
    BY <2>2, <2>5, <2>6, SumChanges
  <2>8. SumFunction(h) \in Int
    BY <2>5, SumInInt
  <2>9. q[s \ {c}] = SumFunction(h)
    BY <1>4, <2>1, <2>3
  <2>10. f[c] \in Int /\ g[c] = f[c]
    BY <2>2
  <2>11. q[s] = SumFunction(k)
    BY <2>2, <2>6, <2>7, <2>8, <2>9, <2>10
  <2> QED BY <2>4, <2>11
<1>5. {} \in good /\ good \in SUBSET SUBSET T
  BY <1>2, <1>3 DEF SumsUp
<1>6. good = SUBSET T
  <2>1. \A s \in SUBSET T : s # {} /\ s \ {Chosen(s)} \in good => s \in good
    BY <1>4
  <2> HIDE DEF good
  <2> QED BY <1>1, <1>5, <2>1, SubsetsBySteps
<1>7. part(T) = f
  OBVIOUS
<1> QED BY <1>2, <1>6, <1>7

\* ... and one element besides.
LEMMA SumOfPartAndOne ==
    ASSUME NEW S, IsFiniteSet(S), NEW T \in SUBSET S, NEW m \in S \ T, NEW f \in [S -> Int],
           NEW g \in [T -> Int], \A x \in T : g[x] = f[x],
           \A x \in S \ T : x # m => f[x] = 0
    PROVE  SumFunction(f) = SumFunction(g) + f[m]
<1>1. PICK k : k = [x \in S |-> IF x \in T THEN f[x] ELSE 0]
  OBVIOUS
<1>2. k \in [S -> Int]
  BY <1>1
<1>3. \A x \in T : g[x] = k[x]
  BY <1>1
<1>4. \A x \in S \ T : k[x] = 0
  BY <1>1
<1>5. SumFunction(g) = SumFunction(k)
  BY <1>2, <1>3, <1>4, SumOverPart
<1>6. m \in S /\ k[m] = 0 /\ f[m] \in Int
  BY <1>1
<1>7. \A x \in S : x # m => f[x] = k[x]
  BY <1>1
<1>8. SumFunction(f) = SumFunction(k) + f[m] - k[m]
  BY <1>2, <1>6, <1>7, SumChanges
<1>9. SumFunction(k) \in Int
  BY <1>2, SumInInt
<1> QED BY <1>5, <1>6, <1>8, <1>9

\* A sum of natural numbers is positive when one of them is.
LEMMA SumIsPositive ==
    ASSUME NEW S, IsFiniteSet(S), NEW f \in [S -> Nat]
    PROVE  SumFunction(f) > 0 <=> \E x \in S : f[x] > 0
<1>1. ASSUME NEW a \in S, f[a] > 0 PROVE SumFunction(f) > 0
  <2>1. PICK one : one = [x \in S |-> IF x = a THEN f[a] ELSE 0]
    OBVIOUS
  <2>2. one \in [S -> Int] /\ f \in [S -> Int] /\ one[a] = f[a] /\ f[a] \in Nat
    BY <2>1
  <2>3. \A x \in S : x # a => one[x] = 0
    BY <2>1
  <2>4. SumFunction(one) = f[a]
    BY <2>2, <2>3, SumOfOne
  <2>5. \A x \in S : one[x] <= f[x]
    BY <2>1
  <2>6. SumFunction(one) <= SumFunction(f)
    BY <2>2, <2>5, SumGrows
  <2>7. SumFunction(f) \in Nat
    BY SumInNat
  <2> QED BY <1>1, <2>2, <2>4, <2>6, <2>7
<1>2. ASSUME \A x \in S : ~ (f[x] > 0) PROVE SumFunction(f) = 0
  <2>1. f \in [S -> Int] /\ \A x \in S : f[x] = 0
    BY <1>2
  <2> QED BY <2>1, SumOfZeros
<1> QED BY <1>1, <1>2

=============================================================================
