----------------------------- MODULE DataProofs -----------------------------
(***************************************************************************)
(* Induction over data without an operator as a parameter: a set of        *)
(* naturals has a least member, so a set of subsets that contains the empty *)
(* one and grows by one member at a time contains them all.  On it rest     *)
(* the facts about the folds of the community modules, whose recursion      *)
(* takes the members of a set in the order of a choice c: sums, and numbers *)
(* of members.  Then sorting, and what insertions and removals do to a     *)
(* sequence.                                                               *)
(***************************************************************************)
EXTENDS Integers, FiniteSets, Sequences, SequencesExt, FiniteSetTheorems, WellFoundedInduction, Sorting, TLAPS

LEMMA NatMin ==
    ASSUME NEW T, T \subseteq Nat, T # {}
    PROVE  \E x \in T : \A y \in T : x <= y
<1> DEFINE R == {ss \in Nat \X Nat : ss[1] < ss[2]}
<1>1. OpToRel(<, Nat) = R
  BY DEF OpToRel
<1>2. IsWellFoundedOn(R, Nat)
  BY <1>1, NatLessThanWellFounded
<1> HIDE DEF R
<1>3. PICK x \in T : \A y \in T : ~ (<<y, x>> \in R)
  BY <1>2, WFMin
<1>4. \A y \in T : ~(y < x)
  BY <1>3 DEF R
<1> QED  BY <1>4

\* c takes a member of every subset that has one.
Chooses(c, S) == \A s \in SUBSET S : s # {} => c[s] \in s

LEMMA SmallerRest ==
    ASSUME NEW S, IsFiniteSet(S), NEW s \in SUBSET S, NEW x \in s
    PROVE  /\ IsFiniteSet(s) /\ Cardinality(s) \in Nat /\ s \ {x} \in SUBSET S
           /\ Cardinality(s \ {x}) \in Nat /\ Cardinality(s) = Cardinality(s \ {x}) + 1
<1>1. IsFiniteSet(s) /\ IsFiniteSet(s \ {x})
  BY FS_Subset
<1>2. Cardinality(s) \in Nat /\ Cardinality(s \ {x}) \in Nat
  BY <1>1, FS_CardinalityType
<1>3. Cardinality(s \ {x}) = Cardinality(s) - 1
  BY <1>1, FS_RemoveElement
<1> QED  BY <1>1, <1>2, <1>3

LEMMA SubsetInduction ==
    ASSUME NEW S, IsFiniteSet(S), NEW c, Chooses(c, S), NEW T, {} \in T,
           \A s \in SUBSET S : s # {} /\ s \ {c[s]} \in T => s \in T
    PROVE  SUBSET S \subseteq T
<1> SUFFICES ASSUME NEW out \in SUBSET S, out \notin T PROVE FALSE
  OBVIOUS
<1> DEFINE K == {Cardinality(s) : s \in (SUBSET S) \ T}
<1>1. K \subseteq Nat /\ K # {}
  <2>1. \A s \in SUBSET S : Cardinality(s) \in Nat
    BY FS_Subset, FS_CardinalityType
  <2> QED  BY <2>1
<1>2. PICK k \in K : \A j \in K : k <= j
  <2> HIDE DEF K
  <2> QED  BY <1>1, NatMin
<1>3. PICK s \in SUBSET S : s \notin T /\ Cardinality(s) = k
  BY <1>2
<1>4. s # {} /\ c[s] \in s /\ s \ {c[s]} \notin T
  BY <1>3 DEF Chooses
<1>5. Cardinality(s \ {c[s]}) \in K /\ s \ {c[s]} \in SUBSET S
  <2>1. s \ {c[s]} \in (SUBSET S) \ T
    BY <1>4
  <2> QED  BY <2>1
<1>6. Cardinality(s \ {c[s]}) < k
  BY <1>3, <1>4, SmallerRest
<1> QED  BY <1>1, <1>2, <1>5, <1>6

\* F sums up w over the subsets of S.
IsSum(F, w, c, S) ==
    /\ F \in [SUBSET S -> Int] /\ F[{}] = 0
    /\ \A s \in SUBSET S : s # {} => F[s] = F[s \ {c[s]}] + w[c[s]]

LEMMA SumExists ==
    ASSUME NEW S, IsFiniteSet(S), NEW c, Chooses(c, S), NEW w, \A x \in S : w[x] \in Int
    PROVE  \E F : IsSum(F, w, c, S)
<1> DEFINE Level(k) == {s \in SUBSET S : Cardinality(s) <= k}
           Sums(g, k) == /\ g \in [Level(k) -> Int] /\ g[{}] = 0
                         /\ \A s \in Level(k) : s # {} => g[s] = g[s \ {c[s]}] + w[c[s]]
           K == {k \in Nat : \A g : ~Sums(g, k)}
<1>0. \A s \in SUBSET S : IsFiniteSet(s) /\ Cardinality(s) \in Nat
  BY FS_Subset, FS_CardinalityType
<1>1. 0 \notin K
  <2> DEFINE g == [s \in Level(0) |-> 0]
  <2>1. \A s \in Level(0) : s = {}
    <3>1. \A s \in Level(0) : Cardinality(s) = 0
      BY <1>0
    <3> QED  BY <1>0, <3>1, FS_EmptySet
  <2>2. {} \in Level(0)
    BY FS_EmptySet
  <2>3. g \in [Level(0) -> Int] /\ g[{}] = 0
    BY <2>2
  <2> HIDE DEF g, Level
  <2> QED  BY <2>1, <2>3
<1>2. \A k \in Nat : k \notin K => k + 1 \notin K
  <2> SUFFICES ASSUME NEW k \in Nat, k \notin K PROVE k + 1 \notin K
    OBVIOUS
  <2>1. PICK g : Sums(g, k)
    OBVIOUS
  <2> DEFINE h == [s \in Level(k + 1) |-> IF s = {} THEN 0 ELSE g[s \ {c[s]}] + w[c[s]]]
  <2>2. \A s \in Level(k + 1) : s # {} => c[s] \in S /\ s \ {c[s]} \in Level(k)
    <3> SUFFICES ASSUME NEW s \in Level(k + 1), s # {} PROVE c[s] \in S /\ s \ {c[s]} \in Level(k)
      OBVIOUS
    <3>1. s \in SUBSET S /\ c[s] \in s /\ Cardinality(s) <= k + 1
      BY DEF Chooses
    <3>2. s \ {c[s]} \in SUBSET S /\ Cardinality(s \ {c[s]}) \in Nat /\ Cardinality(s) = Cardinality(s \ {c[s]}) + 1
      BY <3>1, SmallerRest
    <3> QED  BY <3>1, <3>2
  <2>3. Level(k) \subseteq Level(k + 1) /\ {} \in Level(k) /\ {} \in Level(k + 1)
    <3>1. Cardinality({}) = 0
      BY FS_EmptySet
    <3> QED  BY <1>0, <3>1
  <2> HIDE DEF Level
  <2>4. g \in [Level(k) -> Int] /\ g[{}] = 0
        /\ \A s \in Level(k) : s # {} => g[s] = g[s \ {c[s]}] + w[c[s]]
    BY <2>1
  <2>5. h \in [Level(k + 1) -> Int] /\ h[{}] = 0
    <3>1. \A s \in Level(k + 1) : (IF s = {} THEN 0 ELSE g[s \ {c[s]}] + w[c[s]]) \in Int
      <4> SUFFICES ASSUME NEW s \in Level(k + 1), s # {} PROVE g[s \ {c[s]}] + w[c[s]] \in Int
        OBVIOUS
      <4>1. g[s \ {c[s]}] \in Int /\ w[c[s]] \in Int
        BY <2>2, <2>4
      <4> QED  BY <4>1
    <3> QED  BY <2>3, <3>1
  <2>6. \A s \in Level(k) : h[s] = g[s]
    BY <2>3, <2>4
  <2>7. \A s \in Level(k + 1) : s # {} => h[s] = h[s \ {c[s]}] + w[c[s]]
    BY <2>2, <2>6
  <2> HIDE DEF h
  <2> QED  BY <2>5, <2>7
<1>3. K = {}
  <2> SUFFICES ASSUME K # {} PROVE FALSE
    OBVIOUS
  <2>1. K \subseteq Nat
    OBVIOUS
  <2> HIDE DEF K
  <2>2. PICK k \in K : \A j \in K : k <= j
    BY <2>1, NatMin
  <2>3. k # 0 /\ k \in Nat
    BY <1>1, <2>1
  <2>4. k - 1 \in Nat /\ k - 1 \notin K
    BY <2>2, <2>3, <2>1
  <2>5. (k - 1) + 1 \notin K
    BY <1>2, <2>4
  <2> QED  BY <2>3, <2>5
<1>4. Cardinality(S) \in Nat /\ \A s \in SUBSET S : Cardinality(s) <= Cardinality(S)
  BY FS_Subset, FS_CardinalityType
<1>5. Level(Cardinality(S)) = SUBSET S
  BY <1>4
<1>6. PICK g : Sums(g, Cardinality(S))
  BY <1>3, <1>4
<1> HIDE DEF Level
<1>7. g \in [SUBSET S -> Int] /\ g[{}] = 0
      /\ \A s \in SUBSET S : s # {} => g[s] = g[s \ {c[s]}] + w[c[s]]
  BY <1>5, <1>6
<1> QED  BY <1>7 DEF IsSum

\* What the definition of a fold says of it.
SumsUp(F, w, c, S) ==
    /\ F = [s \in SUBSET S |-> F[s]] /\ F[{}] = 0
    /\ \A s \in SUBSET S : s # {} => F[s] = F[s \ {c[s]}] + w[c[s]]

LEMMA RecursionIsSum ==
    ASSUME NEW S, IsFiniteSet(S), NEW c, Chooses(c, S), NEW w, \A x \in S : w[x] \in Int,
           NEW F, SumsUp(F, w, c, S)
    PROVE  IsSum(F, w, c, S)
<1> DEFINE T == {s \in SUBSET S : F[s] \in Int}
<1>1. {} \in T
  BY DEF SumsUp
<1>2. \A s \in SUBSET S : s # {} /\ s \ {c[s]} \in T => s \in T
  <2> SUFFICES ASSUME NEW s \in SUBSET S, s # {}, s \ {c[s]} \in T PROVE F[s] \in Int
    OBVIOUS
  <2>1. c[s] \in S /\ F[s \ {c[s]}] \in Int
    BY DEF Chooses
  <2>2. w[c[s]] \in Int /\ F[s] = F[s \ {c[s]}] + w[c[s]]
    BY <2>1 DEF SumsUp
  <2> QED  BY <2>1, <2>2
<1> HIDE DEF T
<1>3. SUBSET S \subseteq T
  BY <1>1, <1>2, SubsetInduction
<1>4. \A s \in SUBSET S : F[s] \in Int
  BY <1>3 DEF T
<1> QED  BY <1>4 DEF IsSum, SumsUp

\* Sums compare as their terms do: here with a multiple of the sum of weights.
TermsAtMost(p, w, m, S) == \A x \in S : p[x] \in Int /\ w[x] \in Nat /\ p[x] <= m * w[x]

LEMMA SumAtMost ==
    ASSUME NEW S, IsFiniteSet(S), NEW c, Chooses(c, S), NEW m \in Int, NEW p, NEW w, NEW A, NEW B,
           IsSum(A, p, c, S), IsSum(B, w, c, S),
           TermsAtMost(p, w, m, S)
    PROVE  A[S] \in Int /\ B[S] \in Nat /\ A[S] <= m * B[S]
<1> DEFINE T == {s \in SUBSET S : A[s] \in Int /\ B[s] \in Nat /\ A[s] <= m * B[s]}
<1>1. {} \in T
  BY DEF IsSum
<1>2. ASSUME NEW s \in SUBSET S, s # {}, s \ {c[s]} \in T PROVE s \in T
  <2> DEFINE r == s \ {c[s]}
  <2>1. c[s] \in S /\ A[s] = A[r] + p[c[s]] /\ B[s] = B[r] + w[c[s]]
    BY <1>2 DEF IsSum, Chooses
  <2>2. \A a, b, d, e \in Int : a <= m * b /\ d <= m * e => a + d <= m * (b + e)
    <3> SUFFICES ASSUME NEW a \in Int, NEW b \in Int, NEW d \in Int, NEW e \in Int, a <= m * b, d <= m * e
                 PROVE  a + d <= m * (b + e)
      OBVIOUS
    <3>1. m * (b + e) = m * b + m * e /\ m * b \in Int /\ m * e \in Int
      OBVIOUS
    <3> QED  BY <3>1
  <2>3. A[r] \in Int /\ B[r] \in Nat /\ A[r] <= m * B[r]
    BY <1>2
  <2>4. p[c[s]] \in Int /\ w[c[s]] \in Nat /\ p[c[s]] <= m * w[c[s]]
    BY <2>1 DEF TermsAtMost
  <2>5. A[s] <= m * B[s] /\ A[s] \in Int /\ B[s] \in Nat
    BY <2>1, <2>2, <2>3, <2>4
  <2> QED  BY <2>5
<1> HIDE DEF T
<1>3. SUBSET S \subseteq T
  <2>1. \A s \in SUBSET S : s # {} /\ s \ {c[s]} \in T => s \in T
    BY <1>2
  <2> QED  BY <1>1, <2>1, SubsetInduction
<1> QED  BY <1>3 DEF T

TermsAtLeast(p, w, m, S) == \A x \in S : p[x] \in Int /\ w[x] \in Nat /\ p[x] >= m * w[x]

LEMMA SumAtLeast ==
    ASSUME NEW S, IsFiniteSet(S), NEW c, Chooses(c, S), NEW m \in Int, NEW p, NEW w, NEW A, NEW B,
           IsSum(A, p, c, S), IsSum(B, w, c, S),
           TermsAtLeast(p, w, m, S)
    PROVE  A[S] \in Int /\ B[S] \in Nat /\ A[S] >= m * B[S]
<1> DEFINE T == {s \in SUBSET S : A[s] \in Int /\ B[s] \in Nat /\ A[s] >= m * B[s]}
<1>1. {} \in T
  BY DEF IsSum
<1>2. ASSUME NEW s \in SUBSET S, s # {}, s \ {c[s]} \in T PROVE s \in T
  <2> DEFINE r == s \ {c[s]}
  <2>1. c[s] \in S /\ A[s] = A[r] + p[c[s]] /\ B[s] = B[r] + w[c[s]]
    BY <1>2 DEF IsSum, Chooses
  <2>2. \A a, b, d, e \in Int : a >= m * b /\ d >= m * e => a + d >= m * (b + e)
    <3> SUFFICES ASSUME NEW a \in Int, NEW b \in Int, NEW d \in Int, NEW e \in Int, a >= m * b, d >= m * e
                 PROVE  a + d >= m * (b + e)
      OBVIOUS
    <3>1. m * (b + e) = m * b + m * e /\ m * b \in Int /\ m * e \in Int
      OBVIOUS
    <3> QED  BY <3>1
  <2>3. A[r] \in Int /\ B[r] \in Nat /\ A[r] >= m * B[r]
    BY <1>2
  <2>4. p[c[s]] \in Int /\ w[c[s]] \in Nat /\ p[c[s]] >= m * w[c[s]]
    BY <2>1 DEF TermsAtLeast
  <2>5. A[s] >= m * B[s] /\ A[s] \in Int /\ B[s] \in Nat
    BY <2>1, <2>2, <2>3, <2>4
  <2> QED  BY <2>5
<1> HIDE DEF T
<1>3. SUBSET S \subseteq T
  <2>1. \A s \in SUBSET S : s # {} /\ s \ {c[s]} \in T => s \in T
    BY <1>2
  <2> QED  BY <1>1, <2>1, SubsetInduction
<1> QED  BY <1>3 DEF T

\* The greatest index, which is the one FoldLeft takes.
LEMMA GreatestIndex ==
    ASSUME NEW n \in Nat, NEW s \in SUBSET (1..n), s # {}
    PROVE  \E x \in s : \A y \in s : x >= y
<1> DEFINE K == {n - x : x \in s}
<1>1. K \subseteq Nat /\ K # {}
  <2>1. \A x \in s : n - x \in Nat
    OBVIOUS
  <2> QED  BY <2>1
<1>2. PICK k \in K : \A j \in K : k <= j
  <2> HIDE DEF K
  <2> QED  BY <1>1, NatMin
<1>3. PICK x \in s : k = n - x
  BY <1>2
<1>4. \A y \in s : n - x <= n - y
  BY <1>2, <1>3
<1> QED  BY <1>3, <1>4

-----------------------------------------------------------------------------
(* Sums and numbers of members.                                            *)

\* The folds take the indices in an arbitrary order.
Somehow(S) == [s \in SUBSET S |-> CHOOSE x \in s : TRUE]
Summed(g, S) == Chooses(Somehow(S), S) /\ \E F : IsSum(F, g, Somehow(S), S) /\ SumFunctionOnSet(g, S) = F[S]
Numeric(g, S) == \A i \in S : g[i] \in Int

LEMMA SumOnSet ==
    ASSUME NEW g, NEW S, IsFiniteSet(S), Numeric(g, S)
    PROVE  Summed(g, S)
<1> USE DEF Numeric
<1> DEFINE c == Somehow(S)
           Rec(f) == f = [s \in SUBSET S |-> IF s = {} THEN 0 ELSE g[CHOOSE x \in s : TRUE] + f[s \ {CHOOSE x \in s : TRUE}]]
           F == CHOOSE f : Rec(f)
<1>0. Chooses(c, S)
  BY DEF Chooses, Somehow
<1>1. PICK h : IsSum(h, g, c, S)
  <2> HIDE DEF c
  <2> QED  BY <1>0, SumExists
<1>2. \A s \in SUBSET S : s # {} => c[s] = (CHOOSE x \in s : TRUE) /\ c[s] \in s
  BY <1>0 DEF Chooses, Somehow
<1>3. Rec(h)
  <2> HIDE DEF c
  <2>1. h = [s \in SUBSET S |-> h[s]] /\ h \in [SUBSET S -> Int]
    BY <1>1 DEF IsSum
  <2>2. \A s \in SUBSET S : h[s] = IF s = {} THEN 0 ELSE g[CHOOSE x \in s : TRUE] + h[s \ {CHOOSE x \in s : TRUE}]
    <3> SUFFICES ASSUME NEW s \in SUBSET S, s # {} PROVE h[s] = g[CHOOSE x \in s : TRUE] + h[s \ {CHOOSE x \in s : TRUE}]
      BY <1>1 DEF IsSum
    <3> DEFINE x == CHOOSE x \in s : TRUE
    <3>1. c[s] = x /\ x \in s
      BY <1>2
    <3> HIDE DEF x
    <3>2. h[s] = h[s \ {x}] + g[x] /\ g[x] \in Int /\ h[s \ {x}] \in Int
      BY <1>1, <2>1, <3>1 DEF IsSum
    <3>3. h[s] = g[x] + h[s \ {x}]
      BY <3>2
    <3> QED  BY <3>3 DEF x
  <2> QED  BY <2>1, <2>2
<1>4. Rec(F)
  BY <1>3
<1>5. SumFunctionOnSet(g, S) = F[S]
  BY DEF SumFunctionOnSet, FoldFunctionOnSet, MapThenFoldSet
<1> HIDE DEF F
<1>6. F[S] = h[S]
  <2> DEFINE T == {s \in SUBSET S : F[s] = h[s]}
  <2>1. {} \in T
    BY <1>3, <1>4
  <2>2. \A s \in SUBSET S : s # {} /\ s \ {c[s]} \in T => s \in T
    <3> SUFFICES ASSUME NEW s \in SUBSET S, s # {}, s \ {c[s]} \in T PROVE F[s] = h[s]
      OBVIOUS
    <3> DEFINE x == CHOOSE x \in s : TRUE
    <3>1. c[s] = x
      BY <1>2
    <3>2. F[s] = g[x] + F[s \ {x}] /\ h[s] = g[x] + h[s \ {x}]
      BY <1>3, <1>4
    <3> HIDE DEF x
    <3> QED  BY <3>1, <3>2
  <2> HIDE DEF T, c
  <2>3. SUBSET S \subseteq T
    BY <1>0, <2>1, <2>2, SubsetInduction
  <2> QED  BY <2>3 DEF T
<1> QED  BY <1>0, <1>1, <1>5, <1>6 DEF Summed

LEMMA FoldIsASum ==
    ASSUME NEW g, IsFiniteSet(DOMAIN g), \A i \in DOMAIN g : g[i] \in Int
    PROVE  /\ Chooses(Somehow(DOMAIN g), DOMAIN g)
           /\ \E F : IsSum(F, g, Somehow(DOMAIN g), DOMAIN g) /\ FoldSeq(+, 0, g) = F[DOMAIN g]
<1> DEFINE S == DOMAIN g
<1>1. Summed(g, S)
  <2>1. Numeric(g, S) /\ IsFiniteSet(S)
    BY DEF Numeric
  <2> HIDE DEF S
  <2> QED  BY <2>1, SumOnSet
<1>2. PICK F : IsSum(F, g, Somehow(S), S) /\ SumFunctionOnSet(g, S) = F[S]
  BY <1>1 DEF Summed
<1>3. Chooses(Somehow(S), S)
  BY <1>1 DEF Summed
<1> QED  BY <1>2, <1>3 DEF FoldSeq, FoldFunction, FoldFunctionOnSet, MapThenFoldSet, SumFunctionOnSet

\* One or two numbers.
LEMMA SumOfOne ==
    ASSUME NEW g, NEW a, g[a] \in Int
    PROVE  SumFunctionOnSet(g, {a}) = g[a]
<1> DEFINE S == {a}
           c == Somehow(S)
<1>1. Summed(g, S)
  <2>1. Numeric(g, S) /\ IsFiniteSet(S)
    BY FS_Singleton DEF Numeric
  <2> HIDE DEF S
  <2> QED  BY <2>1, SumOnSet
<1> HIDE DEF c
<1>2. PICK F : Chooses(c, S) /\ IsSum(F, g, c, S) /\ SumFunctionOnSet(g, S) = F[S]
  BY <1>1 DEF Summed, c
<1>3. c[S] = a /\ S \ {a} = {}
  BY <1>2 DEF Chooses
<1>4. F[S] = F[{}] + g[a] /\ F[{}] = 0
  BY <1>2, <1>3 DEF IsSum
<1> QED  BY <1>2, <1>4

LEMMA SumOfTwo ==
    ASSUME NEW g, NEW a, NEW b, a # b, g[a] \in Int, g[b] \in Int
    PROVE  SumFunctionOnSet(g, {a, b}) = g[a] + g[b]
<1> DEFINE S == {a, b}
           c == Somehow(S)
<1>0. IsFiniteSet(S)
  <2>1. IsFiniteSet({a}) /\ S = {a} \cup {b}
    BY FS_Singleton
  <2> HIDE DEF S
  <2> QED  BY <2>1, FS_AddElement
<1>1. Summed(g, S)
  <2>1. Numeric(g, S)
    BY DEF Numeric
  <2> HIDE DEF S
  <2> QED  BY <1>0, <2>1, SumOnSet
<1> HIDE DEF c
<1>2. PICK F : Chooses(c, S) /\ IsSum(F, g, c, S) /\ SumFunctionOnSet(g, S) = F[S]
  BY <1>1 DEF Summed, c
<1>3. \A s \in SUBSET S : s # {} => c[s] \in s /\ F[s] = F[s \ {c[s]}] + g[c[s]]
  BY <1>2 DEF Chooses, IsSum
<1>4. F[{}] = 0
  BY <1>2 DEF IsSum
<1>5. F[{a}] = g[a] /\ F[{b}] = g[b]
  <2>1. c[{a}] = a /\ c[{b}] = b
    <3>1. {a} \in SUBSET S /\ {b} \in SUBSET S /\ {a} # {} /\ {b} # {}
      OBVIOUS
    <3>2. c[{a}] \in {a} /\ c[{b}] \in {b}
      BY <1>3, <3>1
    <3> QED  BY <3>2
  <2>2. {a} \ {a} = {} /\ {b} \ {b} = {}
    OBVIOUS
  <2>3. F[{a}] = F[{}] + g[a] /\ F[{b}] = F[{}] + g[b]
    BY <1>3, <2>1, <2>2
  <2> QED  BY <1>4, <2>3
<1>6. CASE c[S] = a
  <2>1. S \ {a} = {b}
    OBVIOUS
  <2>2. F[S] = F[{b}] + g[a]
    BY <1>3, <1>6, <2>1
  <2> QED  BY <1>2, <1>5, <2>2
<1>7. CASE c[S] = b
  <2>1. S \ {b} = {a}
    OBVIOUS
  <2>2. F[S] = F[{a}] + g[b]
    BY <1>3, <1>7, <2>1
  <2> QED  BY <1>2, <1>5, <2>2
<1>8. c[S] \in S
  BY <1>3
<1> QED  BY <1>6, <1>7, <1>8

\* An injective function has as many values as arguments.
OneToOne(f, S) == \A x, y \in S : f[x] = f[y] => x = y
ImageOf(f, S)  == {f[x] : x \in S}

LEMMA AsMany ==
    ASSUME NEW S, IsFiniteSet(S), NEW f, OneToOne(f, S)
    PROVE  IsFiniteSet(ImageOf(f, S)) /\ Cardinality(ImageOf(f, S)) = Cardinality(S)
<1> DEFINE T == {f[x] : x \in S}
           g == [x \in S |-> f[x]]
<1>1. g \in [S -> T] /\ \A x \in S : g[x] = f[x]
  OBVIOUS
<1>2. \A t \in T : \E x \in S : f[x] = t
  OBVIOUS
<1> HIDE DEF T, g
<1>3. g \in Bijection(S, T)
  BY <1>1, <1>2 DEF Bijection, Injection, Surjection, IsInjective, OneToOne
<1>4. ExistsBijection(S, T)
  BY <1>3 DEF ExistsBijection
<1>5. IsFiniteSet(T) /\ Cardinality(T) = Cardinality(S)
  BY <1>4, FS_Bijection
<1> QED  BY <1>5 DEF T, ImageOf

LEMMA ImageFinite ==
    ASSUME NEW S, IsFiniteSet(S), NEW f
    PROVE  IsFiniteSet(ImageOf(f, S))
<1> DEFINE T == ImageOf(f, S)
           g == [x \in S |-> f[x]]
<1>1. g \in Surjection(S, T)
  BY DEF Surjection, ImageOf
<1> HIDE DEF T, g
<1>2. IsFiniteSet(T)
  BY <1>1, FS_Surjection
<1> QED  BY <1>2 DEF T

\* Disjoint parts of a finite set: together they have as many members as their
\* numbers add up to.
Parts(P, w, N, S) ==
    /\ \A x \in S : P[x] \subseteq N /\ w[x] = Cardinality(P[x])
    /\ \A x, y \in S : x # y => P[x] \cap P[y] = {}
Together(P, s) == UNION {P[x] : x \in s}

LEMMA PartsAddUp ==
    ASSUME NEW S, IsFiniteSet(S), NEW N, IsFiniteSet(N), NEW P, NEW w, Parts(P, w, N, S)
    PROVE  SumFunctionOnSet(w, S) = Cardinality(Together(P, S))
<1> DEFINE c == Somehow(S)
           Good == {s \in SUBSET S : Cardinality(Together(P, s)) \in Int}
<1>1. \A s \in SUBSET S : Together(P, s) \subseteq N /\ IsFiniteSet(Together(P, s)) /\ Cardinality(Together(P, s)) \in Nat
  <2> SUFFICES ASSUME NEW s \in SUBSET S PROVE Together(P, s) \subseteq N /\ IsFiniteSet(Together(P, s)) /\ Cardinality(Together(P, s)) \in Nat
    OBVIOUS
  <2>1. Together(P, s) \subseteq N
    BY DEF Together, Parts
  <2> QED  BY <2>1, FS_Subset, FS_CardinalityType
<1>2. \A x \in S : IsFiniteSet(P[x]) /\ Cardinality(P[x]) \in Nat /\ w[x] = Cardinality(P[x])
  <2> SUFFICES ASSUME NEW x \in S PROVE IsFiniteSet(P[x]) /\ Cardinality(P[x]) \in Nat /\ w[x] = Cardinality(P[x])
    OBVIOUS
  <2>1. P[x] \subseteq N /\ w[x] = Cardinality(P[x])
    BY DEF Parts
  <2> QED  BY <2>1, FS_Subset, FS_CardinalityType
<1>3. Numeric(w, S)
  BY <1>2 DEF Numeric
<1>4. Summed(w, S)
  BY <1>3, SumOnSet
<1> HIDE DEF c
<1>5. PICK F : Chooses(c, S) /\ IsSum(F, w, c, S) /\ SumFunctionOnSet(w, S) = F[S]
  BY <1>4 DEF Summed, c
<1> DEFINE T == {s \in SUBSET S : F[s] = Cardinality(Together(P, s))}
<1>6. {} \in T
  <2>1. Together(P, {}) = {}
    BY DEF Together
  <2> QED  BY <1>5, <2>1, FS_EmptySet DEF IsSum
<1>7. \A s \in SUBSET S : s # {} /\ s \ {c[s]} \in T => s \in T
  <2> SUFFICES ASSUME NEW s \in SUBSET S, s # {}, s \ {c[s]} \in T PROVE s \in T
    OBVIOUS
  <2>1. PICK x \in s : x = c[s]
    BY <1>5 DEF Chooses
  <2> DEFINE A == Together(P, s \ {x})
  <2>2. Together(P, s) = A \cup P[x]
    BY DEF Together
  <2>3. A \cap P[x] = {}
    BY DEF Together, Parts
  <2>4. F[s] = F[s \ {x}] + w[x] /\ F[s \ {x}] = Cardinality(A)
    BY <1>5, <2>1 DEF IsSum
  <2>5. IsFiniteSet(A) /\ Cardinality(A) \in Nat
    BY <1>1
  <2>6. x \in S /\ IsFiniteSet(P[x]) /\ Cardinality(P[x]) \in Nat /\ w[x] = Cardinality(P[x])
    BY <1>2
  <2> HIDE DEF A
  <2>7. Cardinality(A \cup P[x]) = Cardinality(A) + Cardinality(P[x]) - Cardinality({})
    BY <2>3, <2>5, <2>6, FS_Union
  <2>8. Cardinality({}) = 0
    BY FS_EmptySet
  <2>9. F[s] = Cardinality(Together(P, s))
    BY <2>2, <2>4, <2>5, <2>6, <2>7, <2>8
  <2> QED  BY <2>9
<1> HIDE DEF T
<1>8. SUBSET S \subseteq T
  BY <1>5, <1>6, <1>7, SubsetInduction
<1> QED  BY <1>5, <1>8 DEF T

\* Any listing of a finite set has every element at one position.
ListsOnce(list, S) ==
    /\ DOMAIN list = 1..Cardinality(S) /\ Cardinality(S) \in Nat
    /\ \A i \in DOMAIN list : list[i] \in S
    /\ \A i, j \in DOMAIN list : list[i] = list[j] => i = j
    /\ \A x \in S : \E i \in DOMAIN list : list[i] = x

LEMMA ListedOnce ==
    ASSUME NEW S, IsFiniteSet(S), NEW list \in SetToSeqs(S)
    PROVE  ListsOnce(list, S)
<1> DEFINE n == Cardinality(S)
<1>1. list \in [1..n -> S] /\ \A i, j \in 1..n : i # j => list[i] # list[j]
  BY DEF SetToSeqs
<1>2. n \in Nat /\ IsFiniteSet(1..n) /\ Cardinality(1..n) = n
  BY FS_CardinalityType, FS_Interval
<1> HIDE DEF n
<1>3. list \in Injection(1..n, S)
  BY <1>1 DEF Injection, IsInjective
<1>4. list \in Surjection(1..n, S)
  BY <1>2, <1>3, FS_Injection DEF n
<1> QED  BY <1>1, <1>2, <1>4 DEF Surjection, n, ListsOnce

-----------------------------------------------------------------------------
(* Sorting.                                                                *)

\* f lists all positions, in ascending order and so each of them once.
Ascending(f, S, key) ==
    /\ f \in [1..Cardinality(S) -> S]
    /\ \A i \in S : \E m \in 1..Cardinality(S) : f[m] = i
    /\ \A m, k \in 1..Cardinality(S) : m < k => Sooner(key, f[m], f[k])

LEMMA InOrderSorts ==
    ASSUME NEW S, IsFiniteSet(S), S \subseteq Int, NEW key, \A i \in S : key[i] \in Int
    PROVE  Cardinality(S) \in Nat /\ Ascending(InOrder(S, key), S, key)
<1> DEFINE n == Cardinality(S)
           Rank(i) == Cardinality(Predecessors(S, key, i))
           rank == [i \in S |-> Rank(i) + 1]
           order == InOrder(S, key)
<1>1. n \in Nat
  BY FS_CardinalityType
<1>2. \A i \in S : Predecessors(S, key, i) \in SUBSET S /\ i \notin Predecessors(S, key, i)
  BY DEF Predecessors, Sooner
<1>3. \A i \in S : Rank(i) \in Nat /\ Rank(i) < n
  <2> SUFFICES ASSUME NEW i \in S PROVE Rank(i) \in Nat /\ Rank(i) < n
    OBVIOUS
  <2>1. /\ IsFiniteSet(Predecessors(S, key, i)) /\ Rank(i) <= n
        /\ Rank(i) = n => S = Predecessors(S, key, i)
    BY <1>2, FS_Subset
  <2>2. Rank(i) \in Nat
    BY <2>1, FS_CardinalityType
  <2> QED  BY <1>1, <1>2, <2>1, <2>2
<1>4. \A i, j \in S : Sooner(key, i, j) => Rank(i) < Rank(j)
  <2> SUFFICES ASSUME NEW i \in S, NEW j \in S, Sooner(key, i, j) PROVE Rank(i) < Rank(j)
    OBVIOUS
  <2> DEFINE P == Predecessors(S, key, i)
             Q == Predecessors(S, key, j)
  <2>0. \A h \in S : Sooner(key, h, i) => Sooner(key, h, j)
    BY DEF Sooner
  <2>1. P \in SUBSET Q /\ i \in Q /\ i \notin P
    BY <1>2, <2>0 DEF Predecessors
  <2>2. IsFiniteSet(Q)
    BY <1>2, FS_Subset
  <2>3. IsFiniteSet(P) /\ Cardinality(P) <= Cardinality(Q) /\ (Cardinality(Q) = Cardinality(P) => Q = P)
    <3> HIDE DEF P, Q
    <3> QED  BY <2>1, <2>2, FS_Subset
  <2> QED  BY <1>3, <2>1, <2>3
<1>5. \A i, j \in S : i # j => Sooner(key, i, j) \/ Sooner(key, j, i)
  BY DEF Sooner
<1>6. rank \in Injection(S, 1..n)
  <2>1. rank \in [S -> 1..n]
    BY <1>1, <1>3
  <2>2. \A i, j \in S : rank[i] = rank[j] => i = j
    BY <1>3, <1>4, <1>5
  <2> QED  BY <2>1, <2>2 DEF Injection, IsInjective
<1>7. rank \in Surjection(S, 1..n)
  <2>1. IsFiniteSet(1..n) /\ Cardinality(1..n) = n
    BY <1>1, FS_Interval
  <2> HIDE DEF rank
  <2> QED  BY <1>6, <2>1, FS_Injection
<1>8. \A m \in 1..n : order[m] \in S /\ Rank(order[m]) = m - 1
  <2> SUFFICES ASSUME NEW m \in 1..n PROVE order[m] \in S /\ Rank(order[m]) = m - 1
    OBVIOUS
  <2>1. \E i \in S : Rank(i) = m - 1
    <3>1. PICK i \in S : rank[i] = m
      BY <1>7 DEF Surjection
    <3>2. rank[i] = Rank(i) + 1 /\ Rank(i) \in Nat
      BY <1>3
    <3> QED  BY <3>1, <3>2
  <2>2. order[m] = CHOOSE i \in S : Rank(i) = m - 1
    BY DEF InOrder
  <2> QED  BY <2>1, <2>2
<1>9. order \in [1..n -> S]
  BY <1>8 DEF InOrder
<1>10. \A i \in S : Rank(i) + 1 \in 1..n /\ order[Rank(i) + 1] = i
  <2> SUFFICES ASSUME NEW i \in S PROVE Rank(i) + 1 \in 1..n /\ order[Rank(i) + 1] = i
    OBVIOUS
  <2>1. Rank(i) + 1 \in 1..n
    BY <1>1, <1>3
  <2>2. order[Rank(i) + 1] \in S /\ Rank(order[Rank(i) + 1]) = Rank(i)
    BY <1>3, <1>8, <2>1
  <2> DEFINE k == order[Rank(i) + 1]
  <2>3. k \in S /\ Rank(k) = Rank(i) /\ Rank(i) \in Nat
    BY <1>3, <2>2
  <2> HIDE DEF order, Rank, k
  <2>4. ~Sooner(key, k, i) /\ ~Sooner(key, i, k)
    BY <1>4, <2>3
  <2>5. k = i
    BY <1>5, <2>3, <2>4
  <2> QED  BY <2>1, <2>5 DEF k
<1>11. \A m, k \in 1..n : m < k => Sooner(key, order[m], order[k])
  <2> SUFFICES ASSUME NEW m \in 1..n, NEW k \in 1..n, m < k PROVE Sooner(key, order[m], order[k])
    OBVIOUS
  <2> HIDE DEF order, Rank, n
  <2>1. order[m] \in S /\ order[k] \in S /\ Rank(order[m]) < Rank(order[k]) /\ Rank(order[m]) \in Nat /\ Rank(order[k]) \in Nat
    BY <1>1, <1>3, <1>8
  <2>2. order[m] # order[k]
    BY <2>1
  <2>3. ~Sooner(key, order[k], order[m])
    <3> SUFFICES ASSUME Sooner(key, order[k], order[m]) PROVE FALSE
      OBVIOUS
    <3>1. Rank(order[k]) < Rank(order[m])
      BY <1>4, <2>1
    <3> QED  BY <2>1, <3>1
  <2> QED  BY <1>5, <2>1, <2>2, <2>3
<1> HIDE DEF order, Rank
<1> QED  BY <1>1, <1>9, <1>10, <1>11 DEF order, Ascending

\* There is only one ascending order.
LEMMA InOrderIs ==
    ASSUME NEW S, IsFiniteSet(S), S \subseteq Int, NEW key, \A i \in S : key[i] \in Int,
           NEW f, Ascending(f, S, key)
    PROVE  InOrder(S, key) = f
<1> DEFINE n == Cardinality(S)
           g == InOrder(S, key)
           Odd == {m \in 1..n : f[m] # g[m]}
<1>1. /\ n \in Nat /\ g \in [1..n -> S]
      /\ \A i \in S : \E m \in 1..n : g[m] = i
      /\ \A m, k \in 1..n : m < k => Sooner(key, g[m], g[k])
  <2>1. Cardinality(S) \in Nat /\ Ascending(InOrder(S, key), S, key)
    BY InOrderSorts
  <2> QED  BY <2>1 DEF Ascending
<1>0. /\ f \in [1..n -> S] /\ \A i \in S : \E m \in 1..n : f[m] = i
      /\ \A m, k \in 1..n : m < k => Sooner(key, f[m], f[k])
  BY DEF Ascending
<1>2. \A i, j \in S : ~(Sooner(key, i, j) /\ Sooner(key, j, i)) /\ ~Sooner(key, i, i)
  BY DEF Sooner
<1> HIDE DEF g, n
<1>3. Odd = {}
  <2> SUFFICES ASSUME Odd # {} PROVE FALSE
    OBVIOUS
  <2>1. Odd \subseteq Nat
    BY <1>1
  <2> HIDE DEF Odd
  <2>2. PICK m \in Odd : \A k \in Odd : m <= k
    BY <2>1, NatMin
  <2>3. m \in 1..n /\ f[m] # g[m] /\ \A k \in 1..n : k < m => f[k] = g[k]
    BY <1>1, <2>2 DEF Odd
  <2>4. PICK k \in 1..n : f[k] = g[m]
    BY <1>0, <1>1, <2>3
  <2>5. PICK j \in 1..n : g[j] = f[m]
    BY <1>0, <1>1, <2>3
  <2>6. m < k
    <3>1. k # m
      BY <2>3, <2>4
    <3>2. ~(k < m)
      <4> SUFFICES ASSUME k < m PROVE FALSE
        OBVIOUS
      <4>1. g[k] = g[m] /\ Sooner(key, g[k], g[m]) /\ g[m] \in S
        BY <1>1, <2>3, <2>4
      <4> QED  BY <1>2, <4>1
    <3> QED  BY <2>3, <3>1, <3>2, <1>1
  <2>7. m < j
    <3>1. j # m
      BY <2>3, <2>5
    <3>2. ~(j < m)
      <4> SUFFICES ASSUME j < m PROVE FALSE
        OBVIOUS
      <4>1. f[j] = f[m] /\ Sooner(key, f[j], f[m]) /\ f[m] \in S
        BY <1>0, <2>3, <2>5
      <4> QED  BY <1>2, <4>1
    <3> QED  BY <2>3, <3>1, <3>2, <1>1
  <2>8. Sooner(key, f[m], g[m])
    BY <1>0, <2>3, <2>4, <2>6
  <2>9. Sooner(key, g[m], f[m])
    BY <1>1, <2>3, <2>5, <2>7
  <2> QED  BY <1>0, <1>1, <1>2, <2>3, <2>8, <2>9
<1>4. \A m \in 1..n : f[m] = g[m]
  BY <1>3
<1> QED  BY <1>0, <1>1, <1>4 DEF g

\* The sorted list t takes its elements from these positions, with their keys ascending.
Ascends(t, list, f, S, key) ==
    /\ f \in [1..Cardinality(S) -> S] /\ t = [n \in 1..Cardinality(S) |-> list[f[n]]]
    /\ \A i \in S : \E m \in 1..Cardinality(S) : f[m] = i
    /\ \A m, k \in 1..Cardinality(S) : m < k => key[f[m]] <= key[f[k]] /\ f[m] # f[k]

LEMMA SortedAscends ==
    ASSUME NEW list, NEW S, IsFiniteSet(S), S \subseteq Int, NEW key, \A i \in S : key[i] \in Int
    PROVE  \E f : Ascends(Sorted(list, S, key), list, f, S, key)
<1> DEFINE f == InOrder(S, key)
<1>1. Cardinality(S) \in Nat /\ Ascending(f, S, key)
  BY InOrderSorts
<1>2. Sorted(list, S, key) = [n \in DOMAIN f |-> list[f[n]]]
  BY DEF Sorted
<1> HIDE DEF f
<1>3. f \in [1..Cardinality(S) -> S] /\ DOMAIN f = 1..Cardinality(S)
  BY <1>1 DEF Ascending
<1>4. \A m, k \in 1..Cardinality(S) : m < k => key[f[m]] <= key[f[k]] /\ f[m] # f[k]
  <2> SUFFICES ASSUME NEW m \in 1..Cardinality(S), NEW k \in 1..Cardinality(S), m < k
               PROVE  key[f[m]] <= key[f[k]] /\ f[m] # f[k]
    OBVIOUS
  <2>1. Sooner(key, f[m], f[k]) /\ f[m] \in S /\ f[k] \in S
    BY <1>1, <1>3 DEF Ascending
  <2>2. key[f[m]] \in Int /\ key[f[k]] \in Int /\ f[m] \in Int /\ f[k] \in Int
    BY <2>1
  <2> QED  BY <2>1, <2>2 DEF Sooner
<1>5. \A i \in S : \E m \in 1..Cardinality(S) : f[m] = i
  BY <1>1 DEF Ascending
<1> QED  BY <1>2, <1>3, <1>4, <1>5 DEF Ascends

\* Where k belongs in an ascending list.
LEMMA GapFor ==
    ASSUME NEW n \in Nat, NEW k \in Int, NEW r, \A m \in 1..n : r[m] \in Int /\ r[m] # k,
           \A m, j \in 1..n : m < j => r[m] < r[j]
    PROVE  \E p \in 1..n + 1 : \A m \in 1..n : (m < p => r[m] < k) /\ (m >= p => r[m] > k)
<1> DEFINE T == {m \in 1..n + 1 : m = n + 1 \/ r[m] > k}
<1>1. T \subseteq Nat /\ T # {}
  OBVIOUS
<1>2. PICK p \in T : \A m \in T : p <= m
  <2> HIDE DEF T
  <2> QED  BY <1>1, NatMin
<1>3. p \in 1..n + 1 /\ (p = n + 1 \/ r[p] > k)
  BY <1>2
<1>4. ASSUME NEW m \in 1..n, m < p PROVE r[m] < k
  <2>1. m \notin T
    BY <1>2, <1>3, <1>4
  <2>2. ~(r[m] > k)
    BY <2>1
  <2> QED  BY <2>2
<1>5. ASSUME NEW m \in 1..n, m >= p PROVE r[m] > k
  <2>1. p \in 1..n /\ r[p] > k
    BY <1>3, <1>5
  <2>2. m = p \/ p < m
    BY <1>3, <1>5
  <2>3. m = p \/ r[p] < r[m]
    BY <2>1, <2>2
  <2> QED  BY <2>1, <2>3
<1> QED  BY <1>3, <1>4, <1>5

\* One more, n + 1, is put into the order f at place p.
Widens(g, f, n, p) ==
    /\ g \in [1..n + 1 -> 1..n + 1] /\ \A i \in 1..n + 1 : \E m \in 1..n + 1 : g[m] = i
    /\ \A m \in 1..n + 1 : /\ m < p => m \in 1..n /\ g[m] = f[m] /\ f[m] \in 1..n
                           /\ m = p => g[m] = n + 1
                           /\ m > p => m - 1 \in 1..n /\ m - 1 >= p /\ g[m] = f[m - 1] /\ f[m - 1] \in 1..n

LEMMA Widened ==
    ASSUME NEW n \in Nat, NEW p \in 1..n + 1, NEW f \in [1..n -> 1..n], \A i \in 1..n : \E m \in 1..n : f[m] = i,
           NEW g, g = [m \in 1..n + 1 |-> IF m < p THEN f[m] ELSE IF m = p THEN n + 1 ELSE f[m - 1]]
    PROVE  Widens(g, f, n, p)
<1>1. ASSUME NEW m \in 1..n + 1
      PROVE  /\ m < p => m \in 1..n /\ g[m] = f[m] /\ f[m] \in 1..n
             /\ m = p => g[m] = n + 1
             /\ m > p => m - 1 \in 1..n /\ m - 1 >= p /\ g[m] = f[m - 1] /\ f[m - 1] \in 1..n
  <2>1. m < p => m \in 1..n
    OBVIOUS
  <2>2. m > p => m - 1 \in 1..n /\ m - 1 >= p /\ ~(m < p) /\ m # p
    OBVIOUS
  <2> QED  BY <2>1, <2>2
<1>2. ASSUME NEW m \in 1..n + 1 PROVE g[m] \in 1..n + 1
  <2>1. m < p \/ m = p \/ m > p
    OBVIOUS
  <2>2. g[m] \in 1..n \/ g[m] = n + 1
    BY <1>1, <2>1
  <2> QED  BY <2>2
<1>3. g \in [1..n + 1 -> 1..n + 1]
  BY <1>2
<1>4. ASSUME NEW i \in 1..n + 1 PROVE \E m \in 1..n + 1 : g[m] = i
  <2>1. CASE i = n + 1
    BY <1>1, <2>1
  <2>2. CASE i # n + 1
    <3>1. PICK m \in 1..n : f[m] = i
      BY <2>2
    <3>2. CASE m < p
      <4>1. m \in 1..n + 1
        OBVIOUS
      <4> QED  BY <1>1, <3>1, <3>2, <4>1
    <3>3. CASE ~(m < p)
      <4>1. m + 1 \in 1..n + 1 /\ m + 1 > p /\ (m + 1) - 1 = m
        BY <3>3
      <4>2. g[m + 1] = i
        BY <1>1, <3>1, <4>1
      <4> QED  BY <4>1, <4>2
    <3> QED  BY <3>2, <3>3
  <2> QED  BY <2>1, <2>2
<1> QED  BY <1>1, <1>3, <1>4 DEF Widens

\* Positions with i left out.
Past(i, y)   == IF y < i THEN y ELSE y + 1
Back(i, z) == IF z < i THEN z ELSE z - 1
PassesOver(n, i) ==
    /\ \A y \in 1..n - 1 : Past(i, y) \in 1..n /\ Past(i, y) # i /\ Back(i, Past(i, y)) = y
    /\ \A z \in 1..n : z # i => Back(i, z) \in 1..n - 1 /\ Past(i, Back(i, z)) = z

LEMMA PassOver ==
    ASSUME NEW n \in Nat, NEW i \in 1..n
    PROVE  PassesOver(n, i)
  BY DEF PassesOver, Past, Back

\* Where the others stand when i, at place m of the order f, is gone.
Narrows(g, f, n, m, i) ==
    /\ g \in [1..n - 1 -> 1..n - 1] /\ \A y \in 1..n - 1 : \E x \in 1..n - 1 : g[x] = y
    /\ \A x \in 1..n - 1 : Past(m, x) \in 1..n /\ f[Past(m, x)] = Past(i, g[x])

Without(f, n, m, i) == [x \in 1..n - 1 |-> Back(i, f[Past(m, x)])]

LEMMA Narrowed ==
    ASSUME NEW n \in Nat, NEW f \in [1..n -> 1..n], \A y \in 1..n : \E x \in 1..n : f[x] = y,
           \A x, y \in 1..n : f[x] = f[y] => x = y, NEW m \in 1..n, NEW i \in 1..n, i = f[m]
    PROVE  Narrows(Without(f, n, m, i), f, n, m, i)
<1> DEFINE g == Without(f, n, m, i)
<1>. g = [x \in 1..n - 1 |-> Back(i, f[Past(m, x)])]
  BY DEF Without
<1> HIDE DEF g
<1>0. PassesOver(n, i) /\ PassesOver(n, m)
  BY PassOver
<1>1. ASSUME NEW x \in 1..n - 1
      PROVE  Past(m, x) \in 1..n /\ g[x] \in 1..n - 1 /\ f[Past(m, x)] = Past(i, g[x])
  <2>1. Past(m, x) \in 1..n /\ Past(m, x) # m
    BY <1>0 DEF PassesOver
  <2>2. f[Past(m, x)] \in 1..n /\ f[Past(m, x)] # i
    BY <2>1
  <2>3. g[x] = Back(i, f[Past(m, x)])
    OBVIOUS
  <2> QED  BY ONLY <1>0, <2>1, <2>2, <2>3 DEF PassesOver
<1>2. g \in [1..n - 1 -> 1..n - 1]
  <2>1. \A x \in 1..n - 1 : g[x] \in 1..n - 1
    BY <1>1
  <2> QED  BY <2>1
<1>3. ASSUME NEW y \in 1..n - 1 PROVE \E x \in 1..n - 1 : g[x] = y
  <2>1. Past(i, y) \in 1..n /\ Past(i, y) # i /\ Back(i, Past(i, y)) = y
    BY <1>0 DEF PassesOver
  <2>2. PICK o \in 1..n : f[o] = Past(i, y)
    BY <2>1
  <2>3. o # m
    BY <2>1, <2>2
  <2>4. Back(m, o) \in 1..n - 1 /\ Past(m, Back(m, o)) = o
    BY <1>0, <2>3 DEF PassesOver
  <2>5. g[Back(m, o)] = Back(i, f[o])
    BY <2>4
  <2> QED  BY <2>1, <2>2, <2>4, <2>5
<1> QED  BY <1>1, <1>2, <1>3 DEF Narrows, g

-----------------------------------------------------------------------------
(* Sequences.                                                              *)

LEMMA SeqIsFun ==
    ASSUME NEW T, NEW s \in Seq(T)
    PROVE  s = [m \in 1..Len(s) |-> s[m]]
  OBVIOUS

LEMMA Joined ==
    ASSUME NEW T, NEW a \in Seq(T), NEW z \in Seq(T)
    PROVE  /\ a \o z \in Seq(T) /\ Len(a \o z) = Len(a) + Len(z)
           /\ \A m \in 1..Len(a) + Len(z) : (a \o z)[m] = IF m <= Len(a) THEN a[m] ELSE z[m - Len(a)]
  OBVIOUS

LEMMA InsertAtIs ==
    ASSUME NEW T, NEW s \in Seq(T), NEW e \in T, NEW i \in 1..Len(s) + 1
    PROVE  /\ InsertAt(s, i, e) \in Seq(T) /\ Len(InsertAt(s, i, e)) = Len(s) + 1
           /\ InsertAt(s, i, e) = [m \in 1..Len(s) + 1 |-> IF m < i THEN s[m] ELSE IF m = i THEN e ELSE s[m - 1]]
<1> DEFINE a == SubSeq(s, 1, i - 1)
           z == SubSeq(s, i, Len(s))
<1>1. /\ a \in Seq(T) /\ Len(a) = i - 1 /\ \A m \in 1..i - 1 : a[m] = s[m]
      /\ z \in Seq(T) /\ Len(z) = Len(s) - i + 1 /\ \A m \in 1..Len(s) - i + 1 : z[m] = s[m + i - 1]
  OBVIOUS
<1> HIDE DEF a, z
<1>2. a \o <<e>> \in Seq(T) /\ Len(a \o <<e>>) = i /\ \A m \in 1..i : (a \o <<e>>)[m] = IF m < i THEN s[m] ELSE e
  BY <1>1
<1> DEFINE y == a \o <<e>>
<1> HIDE DEF y
<1>3. /\ y \o z \in Seq(T) /\ Len(y \o z) = Len(s) + 1
      /\ \A m \in 1..Len(s) + 1 : (y \o z)[m] = IF m <= i THEN y[m] ELSE z[m - i]
  <2>1. y \in Seq(T) /\ Len(y) = i
    BY <1>2 DEF y
  <2>2. i + (Len(s) - i + 1) = Len(s) + 1
    OBVIOUS
  <2>3. /\ y \o z \in Seq(T) /\ Len(y \o z) = Len(y) + Len(z)
        /\ \A m \in 1..Len(y) + Len(z) : (y \o z)[m] = IF m <= Len(y) THEN y[m] ELSE z[m - Len(y)]
    <3>1. y \in Seq(T) /\ z \in Seq(T)
      BY <1>1, <2>1
    <3> QED  BY ONLY <3>1, Joined
  <2> QED  BY <1>1, <2>1, <2>2, <2>3
<1>4. InsertAt(s, i, e) = y \o z
  BY DEF InsertAt, a, z, y
<1>5. \A m \in 1..Len(s) + 1 : (y \o z)[m] = IF m < i THEN s[m] ELSE IF m = i THEN e ELSE s[m - 1]
  BY <1>1, <1>2, <1>3 DEF y
<1>6. y \o z = [m \in 1..Len(s) + 1 |-> (y \o z)[m]]
  BY <1>3, SeqIsFun
<1> QED  BY <1>3, <1>4, <1>5, <1>6

LEMMA RemoveAtIs ==
    ASSUME NEW T, NEW s \in Seq(T), NEW i \in 1..Len(s)
    PROVE  /\ RemoveAt(s, i) \in Seq(T) /\ Len(RemoveAt(s, i)) = Len(s) - 1
           /\ RemoveAt(s, i) = [m \in 1..Len(s) - 1 |-> IF m < i THEN s[m] ELSE s[m + 1]]
<1> DEFINE a == SubSeq(s, 1, i - 1)
           z == SubSeq(s, i + 1, Len(s))
<1>1. /\ a \in Seq(T) /\ Len(a) = i - 1 /\ \A m \in 1..i - 1 : a[m] = s[m]
      /\ z \in Seq(T) /\ Len(z) = Len(s) - i /\ \A m \in 1..Len(s) - i : z[m] = s[m + i]
  OBVIOUS
<1> HIDE DEF a, z
<1>3. /\ a \o z \in Seq(T) /\ Len(a \o z) = Len(s) - 1
      /\ \A m \in 1..Len(s) - 1 : (a \o z)[m] = IF m < i THEN a[m] ELSE z[m - i + 1]
  <2>1. (i - 1) + (Len(s) - i) = Len(s) - 1 /\ \A m \in Int : (m <= i - 1 <=> m < i) /\ m - (i - 1) = m - i + 1
    OBVIOUS
  <2>2. /\ a \o z \in Seq(T) /\ Len(a \o z) = Len(a) + Len(z)
        /\ \A m \in 1..Len(a) + Len(z) : (a \o z)[m] = IF m <= Len(a) THEN a[m] ELSE z[m - Len(a)]
    BY <1>1, Joined
  <2>3. Len(a) = i - 1 /\ Len(a) + Len(z) = Len(s) - 1
    BY <1>1, <2>1
  <2>4. \A m \in 1..Len(s) - 1 : (a \o z)[m] = IF m <= i - 1 THEN a[m] ELSE z[m - (i - 1)]
    BY <2>2, <2>3
  <2>5. ASSUME NEW m \in 1..Len(s) - 1
        PROVE  (a \o z)[m] = IF m < i THEN a[m] ELSE z[m - i + 1]
    <3>1. (m <= i - 1 <=> m < i) /\ m - (i - 1) = m - i + 1
      OBVIOUS
    <3> QED  BY <2>4, <3>1
  <2> QED  BY <2>2, <2>3, <2>5
<1>4. RemoveAt(s, i) = a \o z
  BY DEF RemoveAt, a, z
<1>5. \A m \in 1..Len(s) - 1 : (a \o z)[m] = IF m < i THEN s[m] ELSE s[m + 1]
  BY <1>1, <1>3
<1>6. a \o z = [m \in 1..Len(s) - 1 |-> (a \o z)[m]]
  BY <1>3, SeqIsFun
<1> QED  BY <1>3, <1>4, <1>5, <1>6

LEMMA AppendIsInsert ==
    ASSUME NEW T, NEW s \in Seq(T), NEW e \in T
    PROVE  InsertAt(s, Len(s) + 1, e) = Append(s, e)
<1> DEFINE i == Len(s) + 1
<1>1. Len(s) \in Nat /\ i \in 1..Len(s) + 1
  OBVIOUS
<1>2. Append(s, e) \in Seq(T) /\ Len(Append(s, e)) = i /\ \A m \in 1..i : Append(s, e)[m] = IF m < i THEN s[m] ELSE e
  OBVIOUS
<1> HIDE DEF i
<1>3. InsertAt(s, i, e) = [m \in 1..Len(s) + 1 |-> IF m < i THEN s[m] ELSE IF m = i THEN e ELSE s[m - 1]]
  BY <1>1, InsertAtIs
<1>4. Append(s, e) = [m \in 1..i |-> Append(s, e)[m]]
  <2> DEFINE z == Append(s, e)
  <2>1. z \in Seq(T) /\ Len(z) = i
    BY <1>2
  <2> HIDE DEF z
  <2>2. z = [m \in 1..Len(z) |-> z[m]]
    BY <2>1, SeqIsFun
  <2>3. z = [m \in 1..i |-> z[m]]
    BY <2>1, <2>2
  <2> QED  BY <2>3 DEF z
<1>5. i = Len(s) + 1 /\ \A m \in 1..i : ~(m < i) => m = i
  BY <1>1 DEF i
<1> QED  BY <1>2, <1>3, <1>4, <1>5

LEMMA TailIsRemove ==
    ASSUME NEW T, NEW s \in Seq(T), s # <<>>
    PROVE  1 \in DOMAIN s /\ Head(s) = s[1] /\ Tail(s) = RemoveAt(s, 1)
<1>1. Len(s) \in Nat /\ Len(s) > 0 /\ 1 \in 1..Len(s) /\ DOMAIN s = 1..Len(s) /\ Head(s) = s[1]
  OBVIOUS
<1>2. RemoveAt(s, 1) = [m \in 1..Len(s) - 1 |-> IF m < 1 THEN s[m] ELSE s[m + 1]]
  <2> DEFINE i == 1
  <2>1. i \in 1..Len(s)
    BY <1>1
  <2> HIDE DEF i
  <2>2. RemoveAt(s, i) = [m \in 1..Len(s) - 1 |-> IF m < i THEN s[m] ELSE s[m + 1]]
    BY <2>1, RemoveAtIs
  <2> QED  BY <2>2 DEF i
<1> DEFINE z == Tail(s)
<1>3. z \in Seq(T) /\ Len(z) = Len(s) - 1 /\ \A m \in 1..Len(s) - 1 : z[m] = s[m + 1] /\ ~(m < 1)
  OBVIOUS
<1>4. z = [m \in 1..Len(z) |-> z[m]]
  <2> HIDE DEF z
  <2> QED  BY <1>3, SeqIsFun
<1> HIDE DEF z
<1>5. z = RemoveAt(s, 1)
  BY <1>2, <1>3, <1>4
<1> QED  BY <1>1, <1>5 DEF z

\* The first elements of a list.
LEMMA FirstOnes ==
    ASSUME NEW T, NEW s \in Seq(T), NEW k \in 0..Len(s)
    PROVE  SubSeq(s, 1, k) \in Seq(T) /\ Len(SubSeq(s, 1, k)) = k /\ \A m \in 1..k : SubSeq(s, 1, k)[m] = s[m]
  OBVIOUS

=============================================================================
