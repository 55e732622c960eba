-------------------------------- MODULE NatLemmas ------------------------------
(***************************************************************************)
(* Induction and recursion over numbers, division, sums over finite sets   *)
(* and their orders, and sequences made of sets and of sequences, for the  *)
(* proofs of the other modules: a predicate is a set here and a step of a  *)
(* recursion a function, so that the lemmas have no operator as parameter. *)
(***************************************************************************)
EXTENDS Integers, SequencesExt, SequenceTheorems, WellFoundedInduction, FiniteSetTheorems, TLAPS

\* A set of numbers has a least one.
LEMMA LeastNat ==
  ASSUME NEW T \in SUBSET Nat, T # {}
  PROVE  \E n \in T : \A m \in T : n <= m
<1>1. \E R : IsWellFoundedOn(R, Nat) /\ \A x, y \in Nat : x < y => <<x, y>> \in R
  <2>1. \A x, y \in Nat : x < y => <<x, y>> \in OpToRel(<, Nat)
    BY DEF OpToRel
  <2> QED
    BY <2>1, NatLessThanWellFounded
<1>2. PICK R : IsWellFoundedOn(R, Nat) /\ \A x, y \in Nat : x < y => <<x, y>> \in R
  BY <1>1
<1>3. \E x \in T : \A y \in T : ~(<<y, x>> \in R)
  <2>1. T \subseteq Nat
    OBVIOUS
  <2>2. IsWellFoundedOn(R, Nat) /\ T # {}
    BY <1>2
  <2> QED
    BY ONLY <2>1, <2>2, WFMin, Zenon
<1>4. \A x, y \in T : ~(<<y, x>> \in R) => x <= y
  <2>1. \A x, y \in T : x \in Nat /\ y \in Nat
    OBVIOUS
  <2>2. \A x, y \in Nat : ~(y < x) => x <= y
    OBVIOUS
  <2> QED
    BY <1>2, <2>1, <2>2
<1> QED
  BY <1>3, <1>4

\* What begins at a and goes on from each number to the next holds up to b.
LEMMA UpTo ==
  ASSUME NEW S, NEW a \in Nat, NEW b \in Nat, a \in S,
         \A n \in a..(b - 1) : n \in S => n + 1 \in S
  PROVE  a..b \subseteq S
<1> DEFINE T == {n \in a..b : n \notin S}
<1> SUFFICES ASSUME T # {} PROVE FALSE
  OBVIOUS
<1>1. PICK n \in T : \A m \in T : n <= m
  <2>1. T \in SUBSET Nat
    OBVIOUS
  <2> HIDE DEF T
  <2> QED
    BY <2>1, LeastNat
<1>2. n \in a..b /\ n \notin S /\ n # a
  BY <1>1
<1>3. n - 1 \in a..(b - 1) /\ n - 1 \in a..b /\ ~(n <= n - 1) /\ n - 1 + 1 = n
  BY <1>2
<1>4. n - 1 \in S
  BY <1>1, <1>3
<1> QED
  BY <1>2, <1>3, <1>4

\* What a recursion may do at each step, and what it defines from x0 on.
StepsOver(X, b) == [(1..b) \X X -> X]
Computes(f, X, x0, b, G) ==
  f \in [0..b -> X] /\ f[0] = x0 /\ \A n \in 1..b : f[n] = G[<<n, f[n - 1]>>]

\* A function is defined by its value at 0 and how each value follows from the
\* one before.
LEMMA Recursion ==
  ASSUME NEW X, NEW x0 \in X, NEW b \in Nat, NEW G \in StepsOver(X, b)
  PROVE  \E f : Computes(f, X, x0, b, G)
<1> USE DEF StepsOver
<1> DEFINE Solves(f, c) ==
             f \in [0..c -> X] /\ f[0] = x0 /\ \A n \in 1..c : f[n] = G[<<n, f[n - 1]>>]
           T == {c \in Nat : \E f : Solves(f, c)}
<1>1. 0 \in T
  <2> DEFINE f == [n \in 0..0 |-> x0]
  <2>1. f \in [0..0 -> X] /\ f[0] = x0 /\ \A n \in 1..0 : f[n] = G[<<n, f[n - 1]>>]
    OBVIOUS
  <2>2. Solves(f, 0)
    BY <2>1
  <2> QED
    BY <2>2
<1>2. ASSUME NEW c \in 0..(b - 1), c \in T PROVE c + 1 \in T
  <2>1. PICK f : Solves(f, c)
    BY <1>2
  <2> DEFINE d == c + 1
             g == [n \in 0..d |-> IF n = d THEN G[<<d, f[c]>>] ELSE f[n]]
  <2>2. /\ c \in Nat /\ d \in Nat /\ d \in 1..b /\ d - 1 = c /\ d # 0 /\ c # d
        /\ \A n \in 0..d : n = d \/ n \in 0..c
        /\ \A n \in 1..d : n = d \/ (n \in 1..c /\ n - 1 \in 0..d /\ n - 1 # d)
        /\ 0 \in 0..d /\ d \in 0..d /\ c \in 0..d
    OBVIOUS
  <2>3. f[c] \in X /\ G[<<d, f[c]>>] \in X
    <3>1. f[c] \in X
      BY <2>1, <2>2
    <3> HIDE DEF d
    <3>2. <<d, f[c]>> \in (1..b) \X X
      BY <2>2, <3>1
    <3> QED
      BY <3>1, <3>2
  <2> HIDE DEF d
  <2>4. g \in [0..d -> X]
    <3>1. ASSUME NEW n \in 0..d PROVE (IF n = d THEN G[<<d, f[c]>>] ELSE f[n]) \in X
      BY <2>1, <2>2, <2>3
    <3> QED
      BY <3>1
  <2>5. g[0] = x0
    BY <2>1, <2>2
  <2>6. ASSUME NEW n \in 1..d PROVE g[n] = G[<<n, g[n - 1]>>]
    <3>1. CASE n = d
      BY <2>2, <3>1
    <3>2. CASE n # d
      <4>1. n \in 1..c /\ n - 1 \in 0..d /\ n - 1 # d /\ n \in 0..d
        BY <2>2, <3>2
      <4>2. g[n] = f[n] /\ g[n - 1] = f[n - 1]
        BY <3>2, <4>1
      <4> QED
        BY <2>1, <4>1, <4>2
    <3> QED
      BY <3>1, <3>2
  <2> HIDE DEF g
  <2>7. Solves(g, d)
    BY <2>4, <2>5, <2>6
  <2> HIDE DEF Solves
  <2>8. d \in T
    BY <2>2, <2>7
  <2> QED
    BY <2>8 DEF d
<1>3. b \in T
  <2> HIDE DEF T
  <2>1. 0..b \subseteq T
    BY <1>1, <1>2, UpTo
  <2>2. b \in 0..b
    OBVIOUS
  <2> QED
    BY <2>1, <2>2
<1>4. PICK f : Solves(f, b)
  BY <1>3
<1> QED
  BY <1>4 DEF Computes

--------------------------------------------------------------------------------
(* Sums over finite sets.                                                  *)

\* The element that comes next, and what is left.
Some(s) == CHOOSE x \in s : TRUE
Rest(s) == s \ {Some(s)}

\* g is, for each part of S, the sum of f over it, an element at a time.
Sums(g, f, S) == g = [s \in SUBSET S |-> IF s = {} THEN 0 ELSE f[Some(s)] + g[Rest(s)]]

\* An element is taken from a finite set.
LEMMA OneRemoved ==
  ASSUME NEW S, IsFiniteSet(S), NEW s \in SUBSET S, s # {}
  PROVE  /\ Some(s) \in s /\ Rest(s) \in SUBSET S /\ IsFiniteSet(s) /\ s = Rest(s) \cup {Some(s)}
         /\ Cardinality(s) \in Nat /\ Cardinality(s) > 0 /\ Cardinality(Rest(s)) = Cardinality(s) - 1
<1>1. Some(s) \in s
  BY DEF Some
<1>2. IsFiniteSet(s)
  BY FS_Subset
<1>3. Cardinality(s) \in Nat /\ Cardinality(Rest(s)) = Cardinality(s) - 1 /\ Cardinality(s) # 0
  BY <1>1, <1>2, FS_RemoveElement, FS_CardinalityType, FS_EmptySet DEF Rest
<1> QED
  BY <1>1, <1>2, <1>3 DEF Rest

\* What holds of the empty set and, whenever it holds of the rest, of a set,
\* holds of every part of a finite set.
LEMMA AllParts ==
  ASSUME NEW S, IsFiniteSet(S), NEW P, {} \in P,
         \A s \in SUBSET S : s # {} /\ Rest(s) \in P => s \in P
  PROVE  SUBSET S \subseteq P
<1> DEFINE T == {n \in Nat : \A s \in SUBSET S : Cardinality(s) <= n => s \in P}
           N == Cardinality(S)
<1>1. N \in Nat
  BY FS_CardinalityType
<1>2. ASSUME NEW s \in SUBSET S PROVE IsFiniteSet(s) /\ Cardinality(s) \in Nat /\ Cardinality(s) <= N
  BY FS_Subset, FS_CardinalityType
<1>3. 0 \in T
  <2> SUFFICES ASSUME NEW s \in SUBSET S, Cardinality(s) <= 0 PROVE s \in P
    OBVIOUS
  <2>1. s = {}
    BY <1>2, FS_EmptySet
  <2> QED
    BY <2>1
<1>4. ASSUME NEW n \in 0..(N - 1), n \in T PROVE n + 1 \in T
  <2> SUFFICES ASSUME NEW s \in SUBSET S, Cardinality(s) <= n + 1 PROVE s \in P
    OBVIOUS
  <2>1. CASE s = {}
    BY <2>1
  <2>2. CASE s # {}
    <3>1. Rest(s) \in SUBSET S /\ Cardinality(Rest(s)) <= n
      BY <2>2, OneRemoved
    <3> QED
      BY <1>4, <2>2, <3>1
  <2> QED
    BY <2>1, <2>2
<1>5. N \in T
  <2> HIDE DEF T, N
  <2>1. 0..N \subseteq T
    BY <1>1, <1>3, <1>4, UpTo
  <2> QED
    BY <1>1, <2>1
<1> QED
  BY <1>2, <1>5

\* There is such a g.
LEMMA SumExists ==
  ASSUME NEW S, IsFiniteSet(S), NEW f \in [S -> Nat]
  PROVE  \E g : Sums(g, f, S)
<1> DEFINE N == Cardinality(S)
           b == N + 1
           X == [SUBSET S -> Nat]
           Sum(h) == [s \in SUBSET S |-> IF s = {} THEN 0 ELSE f[Some(s)] + h[Rest(s)]]
           x0 == [s \in SUBSET S |-> 0]
           G == [p \in (1..b) \X X |-> Sum(p[2])]
<1>1. N \in Nat /\ b \in Nat
  BY FS_CardinalityType
<1>2. \A h \in X : Sum(h) \in X
  BY OneRemoved
<1>3. x0 \in X /\ G \in StepsOver(X, b)
  <2>1. ASSUME NEW p \in (1..b) \X X PROVE Sum(p[2]) \in X
    <3>1. p[2] \in X
      OBVIOUS
    <3> HIDE DEF X, Sum
    <3> QED
      BY <1>2, <3>1
  <2> HIDE DEF Sum
  <2> QED
    BY <2>1 DEF StepsOver
<1>4. PICK F : Computes(F, X, x0, b, G)
  <2> HIDE DEF X, x0, G, b
  <2> QED
    BY <1>1, <1>3, Recursion
<1>5. /\ F \in [0..b -> X] /\ F[0] = x0
      /\ \A n \in 1..b : F[n] = Sum(F[n - 1])
  <2>1. F \in [0..b -> X] /\ F[0] = x0 /\ \A n \in 1..b : F[n] = G[<<n, F[n - 1]>>]
    BY <1>4 DEF Computes
  <2>2. ASSUME NEW n \in 1..b PROVE F[n] = Sum(F[n - 1])
    <3>1. n - 1 \in 0..b
      BY <1>1
    <3>2. F[n - 1] \in X
      BY <2>1, <3>1
    <3> HIDE DEF X, Sum, b
    <3>3. <<n, F[n - 1]>> \in (1..b) \X X
      BY <3>2
    <3> QED
      BY <2>1, <3>3
  <2> QED
    BY <2>1, <2>2
<1>s. ASSUME NEW n \in 0..N PROVE F[n + 1] = Sum(F[n])
  <2> DEFINE d == n + 1
  <2>1. d \in 1..b /\ d - 1 = n
    BY <1>1
  <2> HIDE DEF d, Sum
  <2>2. F[d] = Sum(F[n])
    BY <1>5, <2>1
  <2> QED
    BY <2>2 DEF d
<1> HIDE DEF b
<1>6. ASSUME NEW n \in 0..N, NEW s \in SUBSET S, Cardinality(s) <= n
      PROVE  n + 1 \in 1..b /\ n \in 0..b /\ F[n + 1][s] = F[n][s]
  <2> DEFINE T == {m \in 0..N : \A t \in SUBSET S : Cardinality(t) <= m => F[m + 1][t] = F[m][t]}
  <2>1. 0 \in T
    <3> SUFFICES ASSUME NEW t \in SUBSET S, Cardinality(t) <= 0 PROVE F[0 + 1][t] = F[0][t]
      BY <1>1
    <3>1. t = {}
      BY OneRemoved
    <3>2. F[0 + 1] = Sum(F[0])
      <4> HIDE DEF Sum
      <4> QED
        BY <1>1, <1>s
    <3> QED
      BY <1>5, <3>1, <3>2
  <2>2. ASSUME NEW m \in 0..(N - 1), m \in T PROVE m + 1 \in T
    <3> DEFINE d == m + 1
    <3>1. d \in 0..N /\ d \in 1..b /\ d + 1 \in 1..b /\ d + 1 - 1 = d /\ d - 1 = m
      BY <1>1 DEF b
    <3>2. F[d + 1] = Sum(F[d]) /\ F[d] = Sum(F[m])
      <4>1. m \in 0..N
        BY <1>1
      <4> HIDE DEF Sum
      <4>2. F[m + 1] = Sum(F[m])
        BY <1>s, <4>1
      <4> HIDE DEF d
      <4>3. F[d + 1] = Sum(F[d])
        BY <1>s, <3>1
      <4> QED
        BY <4>2, <4>3 DEF d
    <3>3. ASSUME NEW t \in SUBSET S, Cardinality(t) <= d PROVE F[d + 1][t] = F[d][t]
      <4>1. CASE t = {}
        BY <3>2, <4>1
      <4>2. CASE t # {}
        <5>1. Rest(t) \in SUBSET S /\ Cardinality(Rest(t)) <= m
          BY <3>3, <4>2, OneRemoved
        <5>2. F[d][Rest(t)] = F[m][Rest(t)]
          BY <2>2, <5>1
        <5> QED
          BY <3>2, <4>2, <5>2
      <4> QED
        BY <4>1, <4>2
    <3> QED
      BY <3>1, <3>3
  <2>3. n \in T
    <3> HIDE DEF T, N
    <3>1. 0..N \subseteq T
      BY <1>1, <2>1, <2>2, UpTo
    <3> QED
      BY <3>1
  <2> QED
    BY <1>1, <1>6, <2>3 DEF b
<1>7. F[b] = Sum(F[N])
  <2>1. N \in 0..N
    BY <1>1
  <2> HIDE DEF Sum, N
  <2> QED
    BY <1>s, <2>1 DEF b
<1>8. ASSUME NEW s \in SUBSET S PROVE F[b][s] = F[N][s]
  <2>1. Cardinality(s) <= N
    BY FS_Subset
  <2> QED
    BY <1>1, <1>6, <2>1 DEF b
<1>9. Sum(F[N]) = Sum(F[b])
  <2>1. ASSUME NEW s \in SUBSET S, s # {} PROVE F[N][Rest(s)] = F[b][Rest(s)]
    BY <1>8, <2>1, OneRemoved
  <2> QED
    BY <2>1
<1> QED
  BY <1>7, <1>9 DEF Sums

\* A sum of numbers is a number, zero only if all of them are.
LEMMA SumPositive ==
  ASSUME NEW S, IsFiniteSet(S), NEW f \in [S -> Nat], NEW g, Sums(g, f, S), NEW s \in SUBSET S
  PROVE  g[s] \in Nat /\ (g[s] > 0 <=> \E x \in s : f[x] > 0)
<1> DEFINE P == {t \in SUBSET S : g[t] \in Nat /\ (g[t] > 0 <=> \E x \in t : f[x] > 0)}
<1>1. {} \in P
  BY DEF Sums
<1>2. ASSUME NEW t \in SUBSET S, t # {}, Rest(t) \in P PROVE t \in P
  <2>1. g[t] = f[Some(t)] + g[Rest(t)] /\ f[Some(t)] \in Nat
    BY <1>2, OneRemoved DEF Sums
  <2>2. g[Rest(t)] \in Nat /\ (g[Rest(t)] > 0 <=> \E x \in Rest(t) : f[x] > 0)
    BY <1>2
  <2>3. t = Rest(t) \cup {Some(t)}
    BY <1>2, OneRemoved
  <2>4. (\E x \in t : f[x] > 0) <=> f[Some(t)] > 0 \/ \E x \in Rest(t) : f[x] > 0
    BY <2>3
  <2>5. g[t] \in Nat /\ (g[t] > 0 <=> f[Some(t)] > 0 \/ g[Rest(t)] > 0)
    BY ONLY <2>1, <2>2
  <2> QED
    BY <2>2, <2>4, <2>5
<1>3. SUBSET S \subseteq P
  <2> HIDE DEF P
  <2> QED
    BY <1>1, <1>2, AllParts
<1> QED
  BY <1>3

\* Sums over parts of two sets agree where the functions do.
LEMMA SumsAgree ==
  ASSUME NEW S, IsFiniteSet(S), NEW T, S \subseteq T, NEW f, NEW e, \A x \in S : f[x] = e[x],
         NEW g, Sums(g, f, S), NEW h, Sums(h, e, T)
  PROVE  \A s \in SUBSET S : g[s] = h[s]
<1> DEFINE P == {s \in SUBSET S : g[s] = h[s]}
<1>1. {} \in P
  BY DEF Sums
<1>2. ASSUME NEW s \in SUBSET S, s # {}, Rest(s) \in P PROVE s \in P
  <2>1. Some(s) \in S /\ Rest(s) \in SUBSET S /\ s \in SUBSET T
    BY <1>2, OneRemoved
  <2>2. g[s] = f[Some(s)] + g[Rest(s)] /\ h[s] = e[Some(s)] + h[Rest(s)]
    BY <1>2, <2>1 DEF Sums
  <2> QED
    BY <1>2, <2>1, <2>2
<1>3. SUBSET S \subseteq P
  <2> HIDE DEF P
  <2> QED
    BY <1>1, <1>2, AllParts
<1> QED
  BY <1>3

\* The elements may come in any order.
LEMMA SumAnyOrder ==
  ASSUME NEW S, IsFiniteSet(S), NEW f \in [S -> Nat], NEW g, Sums(g, f, S)
  PROVE  \A s \in SUBSET S : \A x \in s : g[s] = f[x] + g[s \ {x}]
<1> DEFINE T == {n \in Nat : \A s \in SUBSET S : Cardinality(s) <= n =>
                              \A x \in s : g[s] = f[x] + g[s \ {x}]}
           N == Cardinality(S)
<1>1. N \in Nat
  BY FS_CardinalityType
<1>2. ASSUME NEW s \in SUBSET S PROVE IsFiniteSet(s) /\ Cardinality(s) \in Nat /\ Cardinality(s) <= N
  BY FS_Subset, FS_CardinalityType
<1>3. 0 \in T
  <2>1. \A s \in SUBSET S : Cardinality(s) <= 0 => s = {}
    BY <1>2, FS_EmptySet
  <2> QED
    BY <2>1
<1>4. ASSUME NEW n \in 0..(N - 1), n \in T PROVE n + 1 \in T
  <2> SUFFICES ASSUME NEW s \in SUBSET S, Cardinality(s) <= n + 1, NEW x \in s
               PROVE  g[s] = f[x] + g[s \ {x}]
    OBVIOUS
  <2> DEFINE y == Some(s)
  <2>1. y \in s /\ g[s] = f[y] + g[s \ {y}]
    BY OneRemoved DEF Sums, Rest
  <2> HIDE DEF y
  <2>2. ASSUME NEW a \in s PROVE s \ {a} \in SUBSET S /\ Cardinality(s \ {a}) <= n
    <3>1. Cardinality(s \ {a}) = Cardinality(s) - 1
      BY <1>2, FS_RemoveElement
    <3> QED
      BY <1>2, <3>1
  <2>3. CASE x = y
    BY <2>1, <2>3
  <2>4. CASE x # y
    <3>1. g[s \ {y}] = f[x] + g[(s \ {y}) \ {x}]
      BY <1>4, <2>1, <2>2, <2>4
    <3>2. g[s \ {x}] = f[y] + g[(s \ {x}) \ {y}]
      BY <1>4, <2>1, <2>2, <2>4
    <3>3. (s \ {y}) \ {x} = (s \ {x}) \ {y} /\ (s \ {y}) \ {x} \in SUBSET S
      OBVIOUS
    <3>4. g[(s \ {y}) \ {x}] \in Nat
      BY <3>3, SumPositive
    <3>5. f[x] \in Nat /\ f[y] \in Nat
      BY <2>1
    <3>6. g[s \ {x}] = f[y] + g[(s \ {y}) \ {x}]
      BY <3>2, <3>3
    <3>7. \A a, b, c \in Nat : a + (b + c) = b + (a + c)
      OBVIOUS
    <3>8. g[s] = f[y] + (f[x] + g[(s \ {y}) \ {x}])
      BY <2>1, <3>1
    <3>9. f[y] + (f[x] + g[(s \ {y}) \ {x}]) = f[x] + (f[y] + g[(s \ {y}) \ {x}])
      BY ONLY <3>4, <3>5, <3>7
    <3> QED
      BY <3>6, <3>8, <3>9
  <2> QED
    BY <2>3, <2>4
<1>5. N \in T
  <2> HIDE DEF T, N
  <2>1. 0..N \subseteq T
    BY <1>1, <1>3, <1>4, UpTo
  <2> QED
    BY <1>1, <2>1
<1> QED
  BY <1>2, <1>5

\* The sum over a set.
SumOn(f, S) == (CHOOSE g : Sums(g, f, S))[S]

LEMMA SumOnIs ==
  ASSUME NEW S, IsFiniteSet(S), NEW f, \A x \in S : f[x] \in Nat
  PROVE  /\ SumOn(f, S) \in Nat
         /\ \E g : Sums(g, f, S) /\ SumOn(f, S) = g[S] /\ Sums(g, [x \in S |-> f[x]], S)
<1> DEFINE e == [x \in S |-> f[x]]
<1>1. e \in [S -> Nat] /\ \A x \in S : e[x] = f[x]
  OBVIOUS
<1>2. \A g : Sums(g, f, S) <=> Sums(g, e, S)
  <2>1. ASSUME NEW g, NEW s \in SUBSET S, s # {} PROVE f[Some(s)] + g[Rest(s)] = e[Some(s)] + g[Rest(s)]
    BY <1>1, <2>1, OneRemoved
  <2> HIDE DEF e
  <2> QED
    BY <2>1 DEF Sums
<1> HIDE DEF e
<1>3. \E g : Sums(g, f, S)
  BY <1>1, <1>2, SumExists
<1> DEFINE c == CHOOSE g : Sums(g, f, S)
<1>4. Sums(c, f, S) /\ SumOn(f, S) = c[S]
  BY <1>3 DEF SumOn
<1> HIDE DEF c
<1>5. Sums(c, e, S)
  BY <1>2, <1>4
<1>6. c[S] \in Nat
  BY <1>1, <1>5, SumPositive
<1> QED
  BY <1>4, <1>5, <1>6 DEF e

\* Nothing to add up; what is added up elsewhere by a function that agrees.
LEMMA SumOnEmpty ==
  ASSUME NEW f
  PROVE  SumOn(f, {}) = 0
<1>1. IsFiniteSet({})
  BY FS_EmptySet
<1>2. PICK g : Sums(g, f, {}) /\ SumOn(f, {}) = g[{}]
  BY <1>1, SumOnIs
<1> QED
  BY <1>2 DEF Sums

LEMMA SumOnAgrees ==
  ASSUME NEW S, IsFiniteSet(S), NEW f, NEW e, \A x \in S : f[x] \in Nat /\ f[x] = e[x]
  PROVE  SumOn(f, S) = SumOn(e, S)
<1>1. PICK g : Sums(g, f, S) /\ SumOn(f, S) = g[S]
  BY SumOnIs
<1>2. PICK h : Sums(h, e, S) /\ SumOn(e, S) = h[S]
  BY SumOnIs
<1> QED
  BY <1>1, <1>2, SumsAgree

\* One more is added up.
LEMMA SumOnOneMore ==
  ASSUME NEW S, IsFiniteSet(S), NEW x, x \notin S, NEW f, \A y \in S \cup {x} : f[y] \in Nat
  PROVE  SumOn(f, S \cup {x}) = f[x] + SumOn(f, S)
<1> DEFINE B == S \cup {x}
           e == [y \in B |-> f[y]]
<1>1. IsFiniteSet(B) /\ B \ {x} = S /\ S \in SUBSET B /\ x \in B
  BY FS_AddElement
<1>2. e \in [B -> Nat] /\ \A y \in B : e[y] = f[y]
  OBVIOUS
<1> HIDE DEF B
<1>3. PICK g : Sums(g, e, B) /\ SumOn(f, B) = g[B]
  BY <1>1, <1>2, SumOnIs DEF B
<1> HIDE DEF e
<1>4. g[B] = e[x] + g[S]
  BY <1>1, <1>2, <1>3, SumAnyOrder
<1>5. PICK h : Sums(h, f, S) /\ SumOn(f, S) = h[S]
  BY SumOnIs
<1>6. \A y \in S : f[y] = e[y]
  BY <1>1, <1>2
<1>7. h[S] = g[S]
  <2>1. S \subseteq B /\ S \in SUBSET S /\ Sums(g, e, B) /\ Sums(h, f, S)
    BY <1>1, <1>3, <1>5
  <2>2. \A s \in SUBSET S : h[s] = g[s]
    BY ONLY IsFiniteSet(S), <1>6, <2>1, SumsAgree
  <2> QED
    BY <2>1, <2>2
<1> QED
  BY <1>1, <1>2, <1>3, <1>4, <1>5, <1>7 DEF B

--------------------------------------------------------------------------------
(* Sorting.                                                                *)

\* Of any two elements one comes first.
Orders(R, S) ==
  /\ \A x, y \in S : x # y => <<x, y>> \in R \/ <<y, x>> \in R
  /\ \A x, y, z \in S : <<x, y>> \in R /\ <<y, z>> \in R => <<x, z>> \in R

HasLast(S, R) == \E m \in S : \A x \in S \ {m} : <<x, m>> \in R

LEMMA LastInOrder ==
  ASSUME NEW S, IsFiniteSet(S), S # {}, NEW R, Orders(R, S)
  PROVE  HasLast(S, R)
<1> DEFINE P == {s \in SUBSET S : s # {} => \E m \in s : \A x \in s \ {m} : <<x, m>> \in R}
<1>1. {} \in P
  OBVIOUS
<1>2. ASSUME NEW s \in SUBSET S, s # {}, Rest(s) \in P PROVE s \in P
  <2>1. Some(s) \in s /\ s = Rest(s) \cup {Some(s)} /\ Rest(s) \in SUBSET S
    BY <1>2, OneRemoved
  <2>2. CASE Rest(s) = {}
    BY <2>1, <2>2
  <2>3. CASE Rest(s) # {}
    <3>1. PICK m \in Rest(s) : \A x \in Rest(s) \ {m} : <<x, m>> \in R
      BY <1>2, <2>3
    <3>2. m \in S /\ Some(s) \in S /\ m \in s
      BY <2>1
    <3>3. CASE <<Some(s), m>> \in R \/ Some(s) = m
      BY <2>1, <3>1, <3>2, <3>3
    <3>4. CASE <<m, Some(s)>> \in R
      <4>1. ASSUME NEW x \in s \ {Some(s)} PROVE <<x, Some(s)>> \in R
        <5>1. x \in Rest(s) /\ x \in S
          BY <2>1
        <5>2. x = m \/ <<x, m>> \in R
          BY <3>1, <5>1
        <5> QED
          BY <3>2, <3>4, <5>1, <5>2 DEF Orders
      <4> QED
        BY <2>1, <4>1
    <3> QED
      BY <3>2, <3>3, <3>4 DEF Orders
  <2> QED
    BY <2>2, <2>3
<1>3. SUBSET S \subseteq P
  <2> HIDE DEF P
  <2> QED
    BY <1>1, <1>2, AllParts
<1>4. S \in P
  BY <1>3
<1> QED
  BY <1>4 DEF HasLast

Ordered(o, R, S) ==
  /\ o \in [1..Cardinality(S) -> S]
  /\ \A i, j \in 1..Cardinality(S) : i # j => o[i] # o[j]
  /\ \A i, j \in 1..Cardinality(S) : i < j => <<o[i], o[j]>> \in R

\* A finite set can be put in order.
LEMMA OrderExists ==
  ASSUME NEW S, IsFiniteSet(S), NEW R, Orders(R, S)
  PROVE  \E o : Ordered(o, R, S)
<1> DEFINE T == {n \in Nat : \A s \in SUBSET S : Cardinality(s) <= n => \E o : Ordered(o, R, s)}
           N == Cardinality(S)
<1>1. N \in Nat
  BY FS_CardinalityType
<1>2. ASSUME NEW s \in SUBSET S
      PROVE  IsFiniteSet(s) /\ Cardinality(s) \in Nat /\ Cardinality(s) <= N /\ Orders(R, s)
  <2>1. Orders(R, s)
    BY DEF Orders
  <2> QED
    BY <2>1, FS_Subset, FS_CardinalityType
<1>3. \E o : Ordered(o, R, {})
  <2>1. Cardinality({}) = 0
    BY FS_EmptySet
  <2>2. <<>> \in [1..0 -> {}]
    OBVIOUS
  <2>3. Ordered(<<>>, R, {})
    BY <2>1, <2>2 DEF Ordered
  <2> QED
    BY <2>3
<1>4. 0 \in T
  <2>1. \A s \in SUBSET S : Cardinality(s) <= 0 => s = {}
    BY <1>2, FS_EmptySet
  <2> QED
    BY <1>3, <2>1
<1>5. ASSUME NEW n \in 0..(N - 1), n \in T PROVE n + 1 \in T
  <2> SUFFICES ASSUME NEW s \in SUBSET S, Cardinality(s) <= n + 1, s # {}
               PROVE  \E o : Ordered(o, R, s)
    BY <1>3
  <2>1. PICK m \in s : \A x \in s \ {m} : <<x, m>> \in R
    BY <1>2, LastInOrder DEF HasLast
  <2> DEFINE r == s \ {m}
             c == Cardinality(s)
             d == c - 1
  <2>2. /\ c \in Nat /\ d \in Nat /\ d + 1 = c /\ Cardinality(r) = d /\ d <= n /\ r \in SUBSET S
        /\ r \subseteq s /\ m \notin r
    <3>1. Cardinality(r) = Cardinality(s) - 1
      BY <1>2, <2>1, FS_RemoveElement
    <3>2. Cardinality(r) \in Nat
      BY <1>2
    <3> QED
      BY <1>2, <3>1, <3>2
  <2>3. PICK q : Ordered(q, R, r)
    BY <1>5, <2>2
  <2> DEFINE o == [i \in 1..c |-> IF i = c THEN m ELSE q[i]]
  <2> HIDE DEF r, c, d
  <2>4. /\ q \in [1..d -> r] /\ \A i, j \in 1..d : i # j => q[i] # q[j]
        /\ \A i, j \in 1..d : i < j => <<q[i], q[j]>> \in R
    BY <2>2, <2>3 DEF Ordered
  <2>5. \A i \in 1..c : (i = c /\ o[i] = m) \/ (i \in 1..d /\ i # c /\ o[i] = q[i])
    BY <2>2
  <2>6. \A i \in 1..d : i # c /\ i < c /\ q[i] \in r /\ q[i] \in s /\ q[i] # m
    BY <2>2, <2>4
  <2>7. o \in [1..c -> s]
    <3>1. \A i \in 1..c : (IF i = c THEN m ELSE q[i]) \in s
      BY <2>5, <2>6, <2>1
    <3> QED
      BY <3>1
  <2> HIDE DEF o
  <2>8. ASSUME NEW i \in 1..c, NEW j \in 1..c, i # j PROVE o[i] # o[j]
    BY <2>4, <2>5, <2>6, <2>8
  <2>9. ASSUME NEW i \in 1..c, NEW j \in 1..c, i < j PROVE <<o[i], o[j]>> \in R
    <3>1. i \in 1..d
      BY <2>2, <2>9
    <3>2. CASE j \in 1..d
      <4>1. o[i] = q[i] /\ o[j] = q[j]
        BY <2>5, <2>6, <3>1, <3>2
      <4> QED
        BY <2>4, <2>9, <3>1, <3>2, <4>1
    <3>3. CASE j = c
      <4>1. o[i] = q[i] /\ o[j] = m /\ q[i] \in s \ {m}
        BY <2>5, <2>6, <3>1, <3>3
      <4> QED
        BY <2>1, <4>1
    <3> QED
      BY <2>5, <3>2, <3>3
  <2>10. Ordered(o, R, s)
    BY <2>7, <2>8, <2>9 DEF Ordered, c
  <2> QED
    BY <2>10
<1>6. N \in T
  <2> HIDE DEF T, N
  <2>1. 0..N \subseteq T
    BY <1>1, <1>4, <1>5, UpTo
  <2> QED
    BY <1>1, <2>1
<1> QED
  BY <1>1, <1>6

\* What is added up is at most what is added up of something greater.
LEMMA SumOnGrows ==
  ASSUME NEW S, IsFiniteSet(S), NEW f, NEW e, \A x \in S : f[x] \in Nat /\ e[x] \in Nat /\ f[x] <= e[x]
  PROVE  SumOn(f, S) <= SumOn(e, S)
<1> DEFINE P == {s \in SUBSET S : SumOn(f, s) <= SumOn(e, s)}
<1>1. {} \in P
  BY SumOnEmpty
<1>2. ASSUME NEW s \in SUBSET S, s # {}, Rest(s) \in P PROVE s \in P
  <2> DEFINE r == Rest(s)
             x == Some(s)
  <2>1. s = r \cup {x} /\ x \notin r /\ x \in s /\ IsFiniteSet(r) /\ r \in SUBSET S
    BY <1>2, OneRemoved, FS_Subset DEF Rest
  <2>4. SumOn(f, r) <= SumOn(e, r)
    BY <1>2
  <2> HIDE DEF r, x
  <2>2. SumOn(f, r \cup {x}) = f[x] + SumOn(f, r) /\ SumOn(e, r \cup {x}) = e[x] + SumOn(e, r)
    BY <2>1, SumOnOneMore
  <2>3. SumOn(f, r) \in Nat /\ SumOn(e, r) \in Nat
    BY <2>1, SumOnIs
  <2>5. f[x] \in Nat /\ e[x] \in Nat /\ f[x] <= e[x]
    BY <2>1
  <2>6. f[x] + SumOn(f, r) <= e[x] + SumOn(e, r)
    BY ONLY <2>3, <2>4, <2>5
  <2> QED
    BY <2>1, <2>2, <2>6
<1>3. SUBSET S \subseteq P
  <2> HIDE DEF P
  <2> QED
    BY <1>1, <1>2, AllParts
<1> QED
  BY <1>3

\* Two sets that have nothing in common.
LEMMA SumOnTwo ==
  ASSUME NEW S, IsFiniteSet(S), NEW T, IsFiniteSet(T), S \cap T = {}, NEW f, \A x \in S \cup T : f[x] \in Nat
  PROVE  SumOn(f, S \cup T) = SumOn(f, S) + SumOn(f, T)
<1> DEFINE P == {s \in SUBSET S : SumOn(f, s \cup T) = SumOn(f, s) + SumOn(f, T)}
<1>0. SumOn(f, T) \in Nat
  BY SumOnIs
<1>1. {} \in P
  <2>1. {} \cup T = T
    OBVIOUS
  <2> QED
    BY <1>0, <2>1, SumOnEmpty
<1>2. ASSUME NEW s \in SUBSET S, s # {}, Rest(s) \in P PROVE s \in P
  <2> DEFINE r == Rest(s)
             x == Some(s)
             q == r \cup T
  <2>1. s = r \cup {x} /\ x \notin r /\ x \in s /\ IsFiniteSet(r) /\ r \in SUBSET S
    BY <1>2, OneRemoved, FS_Subset DEF Rest
  <2>4. SumOn(f, q) = SumOn(f, r) + SumOn(f, T)
    BY <1>2
  <2> HIDE DEF r, x
  <2>2. IsFiniteSet(q) /\ x \notin q /\ s \cup T = q \cup {x}
    BY <2>1, FS_Union
  <2>3. \A y \in q \cup {x} : f[y] \in Nat
    BY <2>1
  <2> HIDE DEF q
  <2>5. SumOn(f, q \cup {x}) = f[x] + SumOn(f, q) /\ SumOn(f, r \cup {x}) = f[x] + SumOn(f, r)
    BY <2>1, <2>2, <2>3, SumOnOneMore
  <2>6. SumOn(f, r) \in Nat /\ f[x] \in Nat
    BY <2>1, SumOnIs
  <2>7. f[x] + (SumOn(f, r) + SumOn(f, T)) = (f[x] + SumOn(f, r)) + SumOn(f, T)
    BY ONLY <1>0, <2>6
  <2> QED
    BY <2>1, <2>2, <2>4, <2>5, <2>7
<1>3. SUBSET S \subseteq P
  <2> HIDE DEF P
  <2> QED
    BY <1>1, <1>2, AllParts
<1> QED
  BY <1>3

\* The parts that a set falls into.
Parted(S, p, K) ==
  /\ S = UNION {p[k] : k \in K}
  /\ \A k \in K : IsFiniteSet(p[k])
  /\ \A k, l \in K : k # l => p[k] \cap p[l] = {}

LEMMA SumOnParts ==
  ASSUME NEW K, IsFiniteSet(K), NEW p, NEW S, Parted(S, p, K), NEW f, \A x \in S : f[x] \in Nat
  PROVE  /\ IsFiniteSet(S) /\ \A k \in K : SumOn(f, p[k]) \in Nat
         /\ SumOn(f, S) = SumOn([k \in K |-> SumOn(f, p[k])], K)
<1> DEFINE All(s) == UNION {p[k] : k \in s}
           t == [k \in K |-> SumOn(f, p[k])]
           P == {s \in SUBSET K : IsFiniteSet(All(s)) /\ SumOn(f, All(s)) = SumOn(t, s)}
<1>0. \A k \in K : IsFiniteSet(p[k]) /\ p[k] \subseteq S /\ t[k] = SumOn(f, p[k]) /\ t[k] \in Nat
  <2>1. ASSUME NEW k \in K PROVE IsFiniteSet(p[k]) /\ p[k] \subseteq S
    BY DEF Parted
  <2>2. ASSUME NEW k \in K PROVE SumOn(f, p[k]) \in Nat
    BY <2>1, SumOnIs
  <2> QED
    BY <2>1, <2>2
<1>1. {} \in P
  <2>1. All({}) = {}
    OBVIOUS
  <2> QED
    BY <2>1, SumOnEmpty, FS_EmptySet
<1>2. ASSUME NEW s \in SUBSET K, s # {}, Rest(s) \in P PROVE s \in P
  <2> DEFINE r == Rest(s)
             x == Some(s)
             A == All(r)
  <2>1. s = r \cup {x} /\ x \notin r /\ x \in K /\ IsFiniteSet(r) /\ r \in SUBSET K
    BY <1>2, OneRemoved, FS_Subset DEF Rest
  <2>4. IsFiniteSet(A) /\ SumOn(f, A) = SumOn(t, r)
    BY <1>2
  <2> HIDE DEF r, x
  <2>2. All(s) = A \cup p[x] /\ A \cap p[x] = {} /\ A \subseteq S /\ p[x] \subseteq S
    BY <1>0, <2>1 DEF Parted
  <2>3. IsFiniteSet(A \cup p[x])
    BY <1>0, <2>1, <2>4, FS_Union
  <2> HIDE DEF A, t
  <2>5. SumOn(f, A \cup p[x]) = SumOn(f, A) + SumOn(f, p[x])
    BY <1>0, <2>1, <2>2, <2>4, SumOnTwo
  <2>6. SumOn(t, r \cup {x}) = t[x] + SumOn(t, r)
    BY <1>0, <2>1, SumOnOneMore
  <2>7. SumOn(t, r) \in Nat /\ t[x] \in Nat
    BY <1>0, <2>1, SumOnIs
  <2>8. SumOn(t, r) + t[x] = t[x] + SumOn(t, r)
    BY <2>7
  <2>9. SumOn(f, All(s)) = SumOn(t, s)
    BY <1>0, <2>1, <2>2, <2>4, <2>5, <2>6, <2>8
  <2> QED
    BY <2>2, <2>3, <2>9
<1>3. SUBSET K \subseteq P
  <2> HIDE DEF P
  <2> QED
    BY <1>1, <1>2, AllParts
<1>4. K \in P /\ All(K) = S
  BY <1>3 DEF Parted
<1> QED
  BY <1>0, <1>4

\* The members of a set under other names.
LEMMA SumOnNames ==
  ASSUME NEW S, IsFiniteSet(S), NEW h, \A x, y \in S : x # y => h[x] # h[y], NEW f, NEW e,
         \A x \in S : f[h[x]] = e[x] /\ e[x] \in Nat
  PROVE  IsFiniteSet({h[x] : x \in S}) /\ SumOn(f, {h[x] : x \in S}) = SumOn(e, S)
<1> DEFINE All(s) == {h[x] : x \in s}
           P == {s \in SUBSET S : IsFiniteSet(All(s)) /\ SumOn(f, All(s)) = SumOn(e, s)}
<1>1. {} \in P
  <2>1. All({}) = {}
    OBVIOUS
  <2> QED
    BY <2>1, SumOnEmpty, FS_EmptySet
<1>2. ASSUME NEW s \in SUBSET S, s # {}, Rest(s) \in P PROVE s \in P
  <2> DEFINE r == Rest(s)
             x == Some(s)
             A == All(r)
             y == h[x]
  <2>1. s = r \cup {x} /\ x \notin r /\ x \in S /\ IsFiniteSet(r) /\ r \in SUBSET S
    BY <1>2, OneRemoved, FS_Subset DEF Rest
  <2>4. IsFiniteSet(A) /\ SumOn(f, A) = SumOn(e, r)
    BY <1>2
  <2> HIDE DEF r, x
  <2>2. All(s) = A \cup {y} /\ y \notin A /\ \A z \in A \cup {y} : f[z] \in Nat
    BY <2>1
  <2>0. f[y] = e[x] /\ \A z \in r \cup {x} : e[z] \in Nat
    BY <2>1
  <2> HIDE DEF A, y
  <2>3. IsFiniteSet(A \cup {y})
    BY <2>4, FS_AddElement
  <2>5. SumOn(f, A \cup {y}) = f[y] + SumOn(f, A)
    BY <2>2, <2>4, SumOnOneMore
  <2>6. SumOn(e, r \cup {x}) = e[x] + SumOn(e, r)
    BY <2>0, <2>1, SumOnOneMore
  <2>9. SumOn(f, All(s)) = SumOn(e, s)
    BY <2>0, <2>1, <2>2, <2>4, <2>5, <2>6
  <2> QED
    BY <2>2, <2>3, <2>9
<1>3. SUBSET S \subseteq P
  <2> HIDE DEF P
  <2> QED
    BY <1>1, <1>2, AllParts
<1>4. S \in P
  BY <1>3
<1> QED
  BY <1>4

\* A sum is zero if and only if all that is added up is.
LEMMA SumOnZero ==
  ASSUME NEW S, IsFiniteSet(S), NEW f, \A x \in S : f[x] \in Nat
  PROVE  SumOn(f, S) = 0 <=> \A x \in S : f[x] = 0
<1> DEFINE e == [x \in S |-> f[x]]
<1>1. PICK g : SumOn(f, S) = g[S] /\ Sums(g, e, S)
  BY SumOnIs
<1>2. e \in [S -> Nat] /\ \A x \in S : e[x] = f[x]
  OBVIOUS
<1> HIDE DEF e
<1>3. g[S] \in Nat /\ (g[S] > 0 <=> \E x \in S : e[x] > 0)
  BY <1>1, <1>2, SumPositive
<1> QED
  BY <1>1, <1>2, <1>3

--------------------------------------------------------------------------------
(* The library's operators on sets and sequences.                          *)

\* A finite set as a sequence has each element.
LEMMA Enumerated ==
  ASSUME NEW S, IsFiniteSet(S)
  PROVE  /\ SetToSeq(S) \in Seq(S) /\ Len(SetToSeq(S)) = Cardinality(S) /\ Cardinality(S) \in Nat
         /\ \A x \in S : \E i \in 1..Cardinality(S) : SetToSeq(S)[i] = x
<1> DEFINE n == Cardinality(S)
           q == SetToSeq(S)
<1>1. n \in Nat /\ \E f \in [1..n -> S] : IsInjective(f)
  BY FS_CardinalityType DEF ExistsBijection, Bijection, Injection
<1>2. q \in [1..n -> S] /\ IsInjective(q)
  BY <1>1 DEF SetToSeq
<1>3. q \in Surjection(1..n, S)
  <2>1. q \in Injection(1..n, S)
    BY <1>2 DEF Injection
  <2>2. Cardinality(1..n) = n
    BY <1>1, FS_Interval
  <2> HIDE DEF n, q
  <2> QED
    BY <2>1, <2>2, FS_Injection DEF n
<1>4. q \in Seq(S) /\ Len(q) = n
  <2> HIDE DEF n, q
  <2> QED
    BY <1>1, <1>2
<1> QED
  BY <1>1, <1>3, <1>4 DEF Surjection

\* The orders of a finite set.
LEMMA Permuted ==
  ASSUME NEW S, IsFiniteSet(S), NEW order \in SetToSeqs(S)
  PROVE  /\ order \in Seq(S) /\ Len(order) = Cardinality(S) /\ Len(order) \in Nat
         /\ DOMAIN order = 1..Len(order) /\ ToSet(order) = S
         /\ \A i, j \in DOMAIN order : i # j => order[i] # order[j]
<1> DEFINE n == Cardinality(S)
<1>1. n \in Nat
  BY FS_CardinalityType
<1>2. order \in [1..n -> S] /\ \A i, j \in 1..n : i # j => order[i] # order[j]
  BY DEF SetToSeqs
<1>3. order \in Surjection(1..n, S)
  <2>1. order \in Injection(1..n, S)
    BY <1>2 DEF Injection, IsInjective
  <2>2. Cardinality(1..n) = n
    BY <1>1, FS_Interval
  <2> HIDE DEF n
  <2> QED
    BY <2>1, <2>2, FS_Injection DEF n
<1>4. order \in Seq(S) /\ Len(order) = n /\ DOMAIN order = 1..n
  <2> HIDE DEF n
  <2> QED
    BY <1>1, <1>2
<1>5. ToSet(order) = S
  BY <1>2, <1>3, <1>4 DEF Surjection, ToSet
<1> QED
  BY <1>1, <1>2, <1>4, <1>5

\* What FlattenSeq goes through.
Joins(g, q) == g = [i \in 1..Len(q) |-> IF i = 1 THEN q[i] ELSE g[i - 1] \o q[i]]

LEMMA Joined ==
  ASSUME NEW X, \A a, b \in X : a \o b \in X, NEW q \in Seq(X), q # <<>>
  PROVE  \E g : /\ g \in [1..Len(q) -> X] /\ FlattenSeq(q) = g[Len(q)] /\ g[1] = q[1]
                /\ \A i \in 1..(Len(q) - 1) : g[i + 1] = g[i] \o q[i + 1]
<1> DEFINE N == Len(q)
           b == N - 1
           G == [p \in (1..b) \X X |-> p[2] \o q[p[1] + 1]]
<1>1. N \in Nat /\ N # 0 /\ b \in Nat /\ \A i \in 1..N : q[i] \in X
  BY EmptySeq, LenProperties, ElementOfSeq
<1>2. G \in StepsOver(X, b)
  <2>1. ASSUME NEW p \in (1..b) \X X PROVE p[2] \o q[p[1] + 1] \in X
    <3>1. p[2] \in X /\ p[1] + 1 \in 1..N
      BY <1>1
    <3> QED
      BY <1>1, <3>1
  <2> QED
    BY <2>1 DEF StepsOver
<1>3. PICK f : Computes(f, X, q[1], b, G)
  <2>1. q[1] \in X
    BY <1>1
  <2> HIDE DEF G, b
  <2> QED
    BY <1>1, <1>2, <2>1, Recursion
<1>4. f \in [0..b -> X] /\ f[0] = q[1] /\ \A n \in 1..b : f[n] = f[n - 1] \o q[n + 1]
  <2>1. f \in [0..b -> X] /\ f[0] = q[1] /\ \A n \in 1..b : f[n] = G[<<n, f[n - 1]>>]
    BY <1>3 DEF Computes
  <2>2. ASSUME NEW n \in 1..b PROVE f[n] = f[n - 1] \o q[n + 1]
    <3>1. n - 1 \in 0..b
      BY <1>1
    <3>2. f[n - 1] \in X
      BY <2>1, <3>1
    <3> QED
      BY <2>1, <3>2
  <2> QED
    BY <2>1, <2>2
<1> DEFINE h == [i \in 1..N |-> f[i - 1]]
<1>5. h \in [1..N -> X] /\ h[1] = q[1]
  BY <1>1, <1>4
<1>6. Joins(h, q)
  <2>1. ASSUME NEW i \in 1..N, i # 1 PROVE h[i] = h[i - 1] \o q[i]
    <3>1. i - 1 \in 1..N /\ i - 1 \in 1..b /\ i - 1 + 1 = i
      BY <1>1, <2>1
    <3>2. f[i - 1] = f[i - 1 - 1] \o q[i]
      BY <1>4, <3>1
    <3> QED
      BY <3>1, <3>2
  <2> QED
    BY <1>5, <2>1 DEF Joins
<1> DEFINE g == CHOOSE g : Joins(g, q)
<1>7. Joins(g, q)
  BY <1>6
<1>8. FlattenSeq(q) = g[N]
  BY <1>1 DEF FlattenSeq, Joins
<1> HIDE DEF g, h
<1>9. ASSUME NEW i \in 1..(N - 1) PROVE g[i + 1] = g[i] \o q[i + 1]
  <2> DEFINE d == i + 1
  <2>1. d \in 1..N /\ d # 1 /\ d - 1 = i
    BY <1>1
  <2> HIDE DEF d
  <2>2. g[d] = g[d - 1] \o q[d]
    BY <1>7, <2>1 DEF Joins
  <2> QED
    BY <2>1, <2>2 DEF d
<1>10. g[1] = q[1]
  BY <1>1, <1>7 DEF Joins
<1>11. g \in [1..N -> X]
  <2> DEFINE T == {i \in 1..N : g[i] \in X}
  <2>1. 1 \in T
    BY <1>1, <1>10
  <2>2. ASSUME NEW i \in 1..(N - 1), i \in T PROVE i + 1 \in T
    <3>1. i + 1 \in 1..N
      BY <1>1
    <3> QED
      BY <1>1, <1>9, <2>2, <3>1
  <2>3. 1..N \subseteq T
    <3> HIDE DEF T, N
    <3> QED
      BY <1>1, <2>1, <2>2, UpTo
  <2> QED
    BY <1>7, <2>3 DEF Joins
<1> QED
  BY <1>8, <1>9, <1>10, <1>11

\* Nothing put together is nothing; one sequence more is put behind the others.
LEMMA FlattenOneMore ==
  ASSUME NEW Y, NEW q \in Seq(Seq(Y)), NEW x \in Seq(Y)
  PROVE  FlattenSeq(q) \in Seq(Y) /\ FlattenSeq(Append(q, x)) = FlattenSeq(q) \o x
<1> DEFINE X == Seq(Y)
           r == Append(q, x)
           N == Len(q)
<1>1. \A a, b \in X : a \o b \in X
  BY ConcatProperties
<1>2. /\ N \in Nat /\ r \in Seq(X) /\ r # <<>> /\ Len(r) = N + 1
      /\ r[N + 1] = x /\ \A i \in 1..N : r[i] = q[i]
  BY AppendProperties, LenProperties, EmptySeq
<1> HIDE DEF X, r, N
<1>3. PICK h : /\ h \in [1..Len(r) -> X] /\ FlattenSeq(r) = h[Len(r)] /\ h[1] = r[1]
               /\ \A i \in 1..(Len(r) - 1) : h[i + 1] = h[i] \o r[i + 1]
  <2>1. r \in Seq(X) /\ r # <<>>
    BY <1>2
  <2> QED
    BY ONLY <1>1, <2>1, Joined
<1>4. CASE q = <<>>
  <2>1. N = 0
    BY <1>4, EmptySeq DEF N
  <2>2. FlattenSeq(q) = <<>>
    BY <1>4, EmptySeq DEF FlattenSeq
  <2>3. Len(r) = 1
    BY <1>2, <2>1
  <2>4. r[1] = x
    BY <1>2, <2>1
  <2>5. <<>> \o x = x /\ <<>> \in Seq(Y)
    BY ConcatEmptySeq, EmptySeq
  <2> QED
    BY <1>3, <2>2, <2>3, <2>4, <2>5 DEF r
<1>5. CASE q # <<>>
  <2>1. PICK g : /\ g \in [1..N -> X] /\ FlattenSeq(q) = g[N] /\ g[1] = q[1]
                 /\ \A i \in 1..(N - 1) : g[i + 1] = g[i] \o q[i + 1]
    BY <1>1, <1>5, Joined DEF X, N
  <2>2. N # 0
    BY <1>5, EmptySeq DEF N
  <2> DEFINE T == {i \in 1..N : h[i] = g[i]}
  <2>3. 1 \in T
    BY <1>2, <1>3, <2>1, <2>2
  <2>4. ASSUME NEW i \in 1..(N - 1), i \in T PROVE i + 1 \in T
    <3>1. i \in 1..(Len(r) - 1) /\ i + 1 \in 1..N
      BY <1>2
    <3> QED
      BY <1>2, <1>3, <2>1, <2>4, <3>1
  <2>5. 1..N \subseteq T
    <3> HIDE DEF T
    <3> QED
      BY <1>2, <2>2, <2>3, <2>4, UpTo
  <2>6. N \in T /\ N \in 1..(Len(r) - 1) /\ g[N] \in X
    BY <1>2, <2>1, <2>2, <2>5
  <2> QED
    BY <1>2, <1>3, <2>1, <2>6 DEF r, X
<1> QED
  BY <1>4, <1>5

LEMMA FlattenNothing == FlattenSeq(<<>>) = <<>>
BY EmptySeq DEF FlattenSeq

\* What a part has, the whole has.
LEMMA FlattenMembers ==
  ASSUME NEW Y, NEW q \in Seq(Seq(Y)), NEW i \in 1..Len(q), NEW n \in 1..Len(q[i])
  PROVE  \E k \in 1..Len(FlattenSeq(q)) : FlattenSeq(q)[k] = q[i][n]
<1> DEFINE X == Seq(Y)
           N == Len(q)
<1>1. \A a, b \in X : a \o b \in X
  BY ConcatProperties
<1>2. N \in Nat /\ N # 0 /\ q # <<>> /\ \A m \in 1..N : q[m] \in X
  BY LenProperties, EmptySeq, ElementOfSeq
<1> HIDE DEF X, N
<1>3. PICK g : /\ g \in [1..N -> X] /\ FlattenSeq(q) = g[N] /\ g[1] = q[1]
               /\ \A m \in 1..(N - 1) : g[m + 1] = g[m] \o q[m + 1]
  BY <1>1, <1>2, Joined DEF X, N
<1> DEFINE Has(s) == \E k \in 1..Len(s) : s[k] = q[i][n]
           T == {m \in i..N : Has(g[m])}
<1>4. i \in Nat /\ i \in 1..N /\ n \in 1..Len(q[i]) /\ Len(q[i]) \in Nat
  BY <1>2, LenProperties DEF X, N
<1>5. ASSUME NEW s \in X, NEW t \in X, Has(s) \/ Has(t) PROVE Has(s \o t)
  <2>1. /\ Len(s) \in Nat /\ Len(t) \in Nat /\ Len(s \o t) = Len(s) + Len(t)
        /\ \A k \in 1..Len(s) : (s \o t)[k] = s[k]
        /\ \A k \in 1..Len(t) : (s \o t)[Len(s) + k] = t[k]
    BY ConcatProperties, LenProperties DEF X
  <2>2. CASE Has(s)
    <3>1. PICK k \in 1..Len(s) : s[k] = q[i][n]
      BY <2>2
    <3>2. k \in 1..Len(s \o t)
      BY <2>1
    <3> QED
      BY <2>1, <3>1, <3>2
  <2>3. CASE Has(t)
    <3>1. PICK k \in 1..Len(t) : t[k] = q[i][n]
      BY <2>3
    <3>2. Len(s) + k \in 1..Len(s \o t)
      BY <2>1
    <3> QED
      BY <2>1, <3>1, <3>2
  <2> QED
    BY <1>5, <2>2, <2>3
<1>6. Has(q[i])
  BY <1>4
<1> HIDE DEF Has
<1>7. i \in T
  <2>1. CASE i = 1
    BY <1>3, <1>4, <1>6, <2>1
  <2>2. CASE i # 1
    <3> DEFINE p == i - 1
    <3>1. p \in 1..(N - 1) /\ p \in 1..N /\ p + 1 = i
      BY <1>2, <1>4, <2>2
    <3> HIDE DEF p
    <3>2. g[i] = g[p] \o q[i] /\ g[p] \in X
      BY <1>3, <3>1
    <3>3. q[i] \in X /\ i \in i..N
      BY <1>2, <1>4
    <3>4. Has(g[p] \o q[i])
      BY <1>5, <1>6, <3>2, <3>3
    <3> QED
      BY <3>2, <3>3, <3>4
  <2> QED
    BY <2>1, <2>2
<1>8. ASSUME NEW m \in i..(N - 1), m \in T PROVE m + 1 \in T
  <2>1. m \in 1..(N - 1) /\ m \in 1..N /\ m + 1 \in 1..N /\ m + 1 \in i..N
    BY <1>2, <1>4
  <2>2. g[m + 1] = g[m] \o q[m + 1] /\ g[m] \in X /\ q[m + 1] \in X /\ Has(g[m])
    BY <1>2, <1>3, <1>8, <2>1
  <2> QED
    BY <1>5, <2>1, <2>2
<1>9. N \in T
  <2>1. i..N \subseteq T
    <3> HIDE DEF T
    <3> QED
      BY <1>2, <1>4, <1>7, <1>8, UpTo
  <2> QED
    BY <1>2, <1>4, <2>1
<1> QED
  BY <1>3, <1>9 DEF Has

\* An image of a finite set.
LEMMA ImageFinite ==
  ASSUME NEW S, IsFiniteSet(S), NEW T, NEW f \in [S -> T], \A t \in T : \E s \in S : f[s] = t
  PROVE  IsFiniteSet(T)
BY FS_Surjection DEF Surjection

\* A sequence is its last member appended to what is before it.
LEMMA LastAppended ==
  ASSUME NEW X, NEW n \in Nat, NEW c \in [1..n -> X], NEW f \in [1..(n + 1) -> X], \A i \in 1..n : c[i] = f[i]
  PROVE  c \in Seq(X) /\ f[n + 1] \in X /\ f = Append(c, f[n + 1])
<1> DEFINE d == n + 1
           y == f[d]
           a == Append(c, y)
<1>1. /\ d \in Nat /\ d \in 1..d /\ 1..n \subseteq 1..d /\ f \in [1..d -> X]
      /\ \A i \in 1..d : i \in 1..n \/ i = d
  OBVIOUS
<1>2. d = n + 1
  OBVIOUS
<1> HIDE DEF d
<1>3. c \in Seq(X) /\ Len(c) = n /\ f \in Seq(X) /\ Len(f) = d /\ y \in X
  BY <1>1
<1>4. y = f[d]
  OBVIOUS
<1> HIDE DEF y
<1>5. a \in Seq(X) /\ Len(a) = n + 1 /\ (\A i \in 1..n : a[i] = c[i]) /\ a[n + 1] = y
  BY <1>3, AppendProperties
<1>6. Len(a) = d /\ a[d] = y /\ a \in Seq(X) /\ \A i \in 1..n : a[i] = c[i]
  BY <1>2, <1>5
<1> HIDE DEF a
<1>7. ASSUME NEW i \in 1..d PROVE f[i] = a[i]
  BY <1>1, <1>4, <1>6
<1>8. f = a
  BY <1>3, <1>6, <1>7, SeqEqual
<1> QED
  BY <1>2, <1>3, <1>4, <1>8 DEF a

--------------------------------------------------------------------------------
(* Numbers.                                                                *)

LEMMA Division ==
  ASSUME NEW a \in Nat, NEW c \in Nat \ {0}
  PROVE  a \div c \in Nat /\ c * (a \div c) <= a /\ a < c * (a \div c) + c
<1>1. a \div c \in Nat
  OBVIOUS
<1>2. c * (a \div c) <= a
  OBVIOUS
<1>3. a < c * (a \div c) + c
  OBVIOUS
<1> QED
  BY <1>1, <1>2, <1>3

LEMMA TimesMore ==
  ASSUME NEW c \in Nat \ {0}, NEW m \in Nat, NEW n \in Nat
  PROVE  /\ c * m \in Nat /\ (m <= n => c * m <= c * n)
         /\ c * (m + 1) = c * m + c
<1>1. c * m \in Nat
  OBVIOUS
<1>2. m <= n => c * m <= c * n
  OBVIOUS
<1>3. c * (m + 1) = c * m + c
  OBVIOUS
<1> QED
  BY <1>1, <1>2, <1>3
================================================================================
