----------------------------- MODULE SumLemmas -----------------------------
(***************************************************************************)
(* Laws of the sum of a function over a finite set, FoldFunction(+, 0, f)  *)
(* of the community modules, for the proofs that lamports and coins are    *)
(* conserved: the sum is an integer, adds pointwise, and is v for a        *)
(* function that is v at one place and 0 everywhere else.                  *)
(*                                                                         *)
(* The induction over the subsets of the domain is done first-order: a     *)
(* nonempty set of subsets for which a formula fails has a minimal member  *)
(* (the strict subset ordering is well-founded), which is nonempty, and    *)
(* the formula holds of it without its first element.                      *)
(***************************************************************************)
EXTENDS Functions, FiniteSets, FiniteSetTheorems, TLAPS

\* MapThenFoldSet, with the definitions of + and 0 expanded: Sums(f, D)[s] is
\* the sum of f over s.
First(s) == CHOOSE x \in s : TRUE
SumRec(g, f, D) ==
  g = [s \in SUBSET D |-> IF s = {} THEN 0 ELSE f[First(s)] + g[s \ {First(s)}]]
Sums(f, D) == CHOOSE g : SumRec(g, f, D)

SumOf(f) == FoldFunction(+, 0, f)

\* The fold of the community modules is that sum.
LEMMA FoldIsSum ==
  ASSUME NEW f
  PROVE  SumOf(f) = Sums(f, DOMAIN f)[DOMAIN f]
  BY SMT DEF SumOf, FoldFunction, FoldFunctionOnSet, MapThenFoldSet, Sums, SumRec, First

\* The induction: a nonempty family of subsets has a minimal member.
LEMMA MinimalSubset ==
  ASSUME NEW S, IsFiniteSet(S), NEW F, F \subseteq SUBSET S, F # {}
  PROVE  \E T \in F : \A U \in F : U \subseteq T => U = T
<1>1. IsWellFoundedOn(StrictSubsetOrdering(S), FiniteSubsetsOf(S))
  BY FS_StrictSubsetOrderingWellFounded
<1>2. FiniteSubsetsOf(S) = SUBSET S
  BY FS_FiniteSubsetsOfFinite
<1>3. PICK T \in F : \A U \in F : ~(<<U, T>> \in StrictSubsetOrdering(S))
  BY <1>1, <1>2, WFMin
<1> QED
  BY <1>3 DEF StrictSubsetOrdering

\* The choice is one of the elements.
LEMMA FirstIn ==
  ASSUME NEW s, s # {}
  PROVE  First(s) \in s
  BY DEF First

\* What the recursion says of one argument.
LEMMA SumStep ==
  ASSUME NEW f, NEW D, NEW g, SumRec(g, f, D), NEW s \in SUBSET D
  PROVE  g[s] = IF s = {} THEN 0 ELSE f[First(s)] + g[s \ {First(s)}]
<1> DEFINE e(t) == IF t = {} THEN 0 ELSE f[First(t)] + g[t \ {First(t)}]
<1>1. g = [t \in SUBSET D |-> e(t)]
  BY DEF SumRec
<1> HIDE DEF e
<1>2. g[s] = e(s)
  BY <1>1
<1> QED
  BY <1>2 DEF e

\* Two functions that satisfy the recursion agree where both are defined.
LEMMA SumUnique ==
  ASSUME NEW f, NEW S, IsFiniteSet(S), NEW A \in SUBSET S, NEW B \in SUBSET S,
         NEW g, NEW h, SumRec(g, f, A), SumRec(h, f, B),
         NEW s \in SUBSET A, s \in SUBSET B
  PROVE  g[s] = h[s]
<1> DEFINE F == {t \in SUBSET S : t \subseteq A /\ t \subseteq B /\ g[t] # h[t]}
<1> SUFFICES ASSUME F # {} PROVE FALSE
  OBVIOUS
<1>1. PICK t \in F : \A U \in F : U \subseteq t => U = t
  <2>1. F \subseteq SUBSET S
    OBVIOUS
  <2> HIDE DEF F
  <2> QED
    BY <2>1, MinimalSubset
<1>2. t \in SUBSET A /\ t \in SUBSET B /\ g[t] # h[t]
  OBVIOUS
<1>3. t # {}
  BY <1>2, SumStep
<1>4. First(t) \in t /\ t \ {First(t)} # t
  BY <1>3, FirstIn
<1>5. g[t \ {First(t)}] = h[t \ {First(t)}]
  BY <1>1, <1>4
<1> QED
  BY <1>2, <1>3, <1>5, SumStep

\* The recursion has a solution: a minimal set without one would get it from
\* the solutions for its subsets.
LEMMA SumExists ==
  ASSUME NEW f, NEW S, IsFiniteSet(S)
  PROVE  \E g : SumRec(g, f, S)
<1> DEFINE F == {T \in SUBSET S : ~\E g : SumRec(g, f, T)}
<1> SUFFICES ASSUME F # {} PROVE FALSE
  OBVIOUS
<1>1. PICK T \in F : \A U \in F : U \subseteq T => U = T
  <2>1. F \subseteq SUBSET S
    OBVIOUS
  <2> HIDE DEF F
  <2> QED
    BY <2>1, MinimalSubset
<1>2. T \in SUBSET S /\ ~\E g : SumRec(g, f, T)
  OBVIOUS
<1>3. \A U \in SUBSET T : U # T => SumRec(Sums(f, U), f, U)
  <2>1. \A U \in SUBSET T : U # T => \E g : SumRec(g, f, U)
    BY <1>1, <1>2
  <2> HIDE DEF F
  <2> QED
    BY <2>1 DEF Sums
<1> HIDE DEF F
<1> DEFINE G(U) == Sums(f, U)[U]
           e(s) == IF s = {} THEN 0 ELSE f[First(s)] + G(s \ {First(s)})
           g == [s \in SUBSET T |-> e(s)]
<1>4. ASSUME NEW s \in SUBSET T, s # T PROVE g[s] = G(s)
  <2>1. SumRec(Sums(f, s), f, s)
    BY <1>3, <1>4
  <2>2. CASE s = {}
    <3>1. G(s) = 0
      BY <2>1, <2>2, SumStep
    <3> QED
      BY <3>1, <2>2
  <2>3. CASE s # {}
    <3> DEFINE U == s \ {First(s)}
    <3>1. First(s) \in s /\ U \in SUBSET T /\ U # T /\ U \in SUBSET s
      BY <2>3, FirstIn
    <3>2. SumRec(Sums(f, U), f, U)
      BY <1>3, <3>1
    <3>3. G(s) = f[First(s)] + Sums(f, s)[U]
      BY <2>1, <2>3, SumStep
    <3>4. Sums(f, s)[U] = Sums(f, U)[U]
      <4>1. s \in SUBSET S /\ U \in SUBSET S
        BY <3>1, <1>2
      <4> HIDE DEF U
      <4> QED
        BY <4>1, <2>1, <3>1, <3>2, SumUnique
    <3> QED
      BY <3>3, <3>4, <2>3
  <2> QED
    BY <2>2, <2>3
<1>5. ASSUME NEW s \in SUBSET T
      PROVE  e(s) = IF s = {} THEN 0 ELSE f[First(s)] + g[s \ {First(s)}]
  <2>1. CASE s # {}
    <3>1. s \ {First(s)} \in SUBSET T /\ s \ {First(s)} # T
      BY <2>1, FirstIn
    <3>2. g[s \ {First(s)}] = G(s \ {First(s)})
      <4> HIDE DEF g, G
      <4> QED
        BY <3>1, <1>4
    <3> QED
      BY <3>2, <2>1
  <2> QED
    BY <2>1
<1>6. g = [s \in SUBSET T |-> IF s = {} THEN 0 ELSE f[First(s)] + g[s \ {First(s)}]]
  <2> HIDE DEF e
  <2>1. g = [s \in SUBSET T |-> e(s)]
    OBVIOUS
  <2> HIDE DEF g
  <2> DEFINE k(s) == IF s = {} THEN 0 ELSE f[First(s)] + g[s \ {First(s)}]
  <2>2. \A s \in SUBSET T : e(s) = k(s)
    BY <1>5
  <2> HIDE DEF k
  <2>3. g = [s \in SUBSET T |-> k(s)]
    BY <2>1, <2>2
  <2> QED
    BY <2>3 DEF k
<1>7. SumRec(g, f, T)
  BY <1>6 DEF SumRec
<1> QED
  BY <1>2, <1>7

\* So the chosen solution is one.
LEMMA SumRecursion ==
  ASSUME NEW D, IsFiniteSet(D), NEW f
  PROVE  \A s \in SUBSET D : Sums(f, D)[s] =
             IF s = {} THEN 0 ELSE f[First(s)] + Sums(f, D)[s \ {First(s)}]
<1>1. SumRec(Sums(f, D), f, D)
  BY SumExists DEF Sums
<1> DEFINE g == Sums(f, D)
<1> HIDE DEF g
<1>2. SumRec(g, f, D)
  BY <1>1 DEF g
<1>3. ASSUME NEW s \in SUBSET D
      PROVE  g[s] = IF s = {} THEN 0 ELSE f[First(s)] + g[s \ {First(s)}]
  BY <1>2, SumStep
<1>4. \A s \in SUBSET D : g[s] = IF s = {} THEN 0 ELSE f[First(s)] + g[s \ {First(s)}]
  BY <1>3
<1> QED
  BY <1>4 DEF g

\* The three laws over every subset of the domain ...
LEMMA PartialSumType ==
  ASSUME NEW D, IsFiniteSet(D), NEW f \in [D -> Int]
  PROVE  \A s \in SUBSET D : Sums(f, D)[s] \in Int
<1> DEFINE I(s) == Sums(f, D)[s]
           F == {s \in SUBSET D : I(s) \notin Int}
<1> SUFFICES ASSUME F # {} PROVE FALSE
  OBVIOUS
<1>1. \A s \in SUBSET D : I(s) = IF s = {} THEN 0 ELSE f[First(s)] + I(s \ {First(s)})
  BY SumRecursion
<1> HIDE DEF I
<1>2. PICK t \in F : \A U \in F : U \subseteq t => U = t
  <2>1. F \subseteq SUBSET D
    OBVIOUS
  <2> HIDE DEF F
  <2> QED
    BY <2>1, MinimalSubset
<1>3. t # {} /\ t \subseteq D
  BY <1>1
<1>4. First(t) \in t /\ t \ {First(t)} # t
  BY <1>3, FirstIn
<1>5. I(t \ {First(t)}) \in Int
  BY <1>2, <1>3, <1>4
<1> QED
  BY <1>1, <1>2, <1>3, <1>4, <1>5

\* ... sums of pointwise sums ...
LEMMA PartialSumAdds ==
  ASSUME NEW D, IsFiniteSet(D), NEW f \in [D -> Int], NEW g \in [D -> Int],
         NEW h \in [D -> Int], \A x \in D : h[x] = f[x] + g[x]
  PROVE  \A s \in SUBSET D : Sums(h, D)[s] = Sums(f, D)[s] + Sums(g, D)[s]
<1> DEFINE I(s) == Sums(f, D)[s]
           J(s) == Sums(g, D)[s]
           K(s) == Sums(h, D)[s]
           F == {s \in SUBSET D : K(s) # I(s) + J(s)}
<1> SUFFICES ASSUME F # {} PROVE FALSE
  OBVIOUS
<1>1. /\ \A s \in SUBSET D :
           I(s) = IF s = {} THEN 0 ELSE f[First(s)] + I(s \ {First(s)})
      /\ \A s \in SUBSET D :
           J(s) = IF s = {} THEN 0 ELSE g[First(s)] + J(s \ {First(s)})
      /\ \A s \in SUBSET D :
           K(s) = IF s = {} THEN 0 ELSE h[First(s)] + K(s \ {First(s)})
  <2>1. \A s \in SUBSET D :
           I(s) = IF s = {} THEN 0 ELSE f[First(s)] + I(s \ {First(s)})
    BY SumRecursion
  <2>2. \A s \in SUBSET D :
           J(s) = IF s = {} THEN 0 ELSE g[First(s)] + J(s \ {First(s)})
    BY SumRecursion
  <2>3. \A s \in SUBSET D :
           K(s) = IF s = {} THEN 0 ELSE h[First(s)] + K(s \ {First(s)})
    BY SumRecursion
  <2> QED
    BY <2>1, <2>2, <2>3
<1>2. \A s \in SUBSET D : I(s) \in Int /\ J(s) \in Int /\ K(s) \in Int
  BY PartialSumType
<1> HIDE DEF I, J, K
<1>3. PICK t \in F : \A U \in F : U \subseteq t => U = t
  <2>1. F \subseteq SUBSET D
    OBVIOUS
  <2> HIDE DEF F
  <2> QED
    BY <2>1, MinimalSubset
<1>4. t # {} /\ t \subseteq D
  <2>1. I({}) = 0 /\ J({}) = 0 /\ K({}) = 0
    BY <1>1
  <2>2. K({}) = I({}) + J({})
    BY <2>1
  <2>3. t \in SUBSET D /\ K(t) # I(t) + J(t)
    BY <1>3
  <2> QED
    BY <2>2, <2>3
<1> DEFINE c == First(t)
           r == t \ {c}
<1>5. c \in t /\ r # t /\ c \in D /\ r \in SUBSET D
  BY <1>4, FirstIn
<1>6. K(r) = I(r) + J(r)
  BY <1>3, <1>4, <1>5
<1>7. I(t) = f[c] + I(r) /\ J(t) = g[c] + J(r) /\ K(t) = h[c] + K(r)
  BY <1>1, <1>4
<1>8. /\ f[c] \in Int /\ g[c] \in Int /\ h[c] = f[c] + g[c]
      /\ I(r) \in Int /\ J(r) \in Int
  BY <1>2, <1>5
<1>9. K(t) # I(t) + J(t)
  BY <1>3
<1> HIDE DEF c, r, F
<1> QED
  BY <1>6, <1>7, <1>8, <1>9

\* ... and of functions that are 0 but at one place.
LEMMA PartialSumAt ==
  ASSUME NEW D, IsFiniteSet(D), NEW x \in D, NEW v \in Int, NEW f,
         \A y \in D : f[y] = IF y = x THEN v ELSE 0
  PROVE  \A s \in SUBSET D : Sums(f, D)[s] = IF x \in s THEN v ELSE 0
<1> DEFINE I(s) == Sums(f, D)[s]
           F == {s \in SUBSET D : I(s) # IF x \in s THEN v ELSE 0}
<1> SUFFICES ASSUME F # {} PROVE FALSE
  OBVIOUS
<1>1. \A s \in SUBSET D : I(s) = IF s = {} THEN 0 ELSE f[First(s)] + I(s \ {First(s)})
  BY SumRecursion
<1> HIDE DEF I
<1>2. PICK t \in F : \A U \in F : U \subseteq t => U = t
  <2>1. F \subseteq SUBSET D
    OBVIOUS
  <2> HIDE DEF F
  <2> QED
    BY <2>1, MinimalSubset
<1>3. t # {} /\ t \subseteq D
  BY <1>1
<1> DEFINE c == First(t)
           r == t \ {c}
<1>4. c \in t /\ r # t /\ c \in D /\ r \in SUBSET D
  BY <1>3, FirstIn
<1>5. I(r) = IF x \in r THEN v ELSE 0
  BY <1>2, <1>3, <1>4
<1>6. I(t) = f[c] + I(r)
  BY <1>1, <1>3
<1>7. f[c] = IF c = x THEN v ELSE 0
  BY <1>4
<1>8. I(t) # IF x \in t THEN v ELSE 0
  BY <1>2
<1>9. x \in t <=> x = c \/ x \in r
  BY <1>4
<1>10. x = c => x \notin r
  OBVIOUS
<1> HIDE DEF c, r, F
<1> QED
  BY <1>5, <1>6, <1>7, <1>8, <1>9, <1>10

-----------------------------------------------------------------------------
\* The same laws of the fold: its type,
LEMMA SumType ==
  ASSUME NEW D, IsFiniteSet(D), NEW f \in [D -> Int]
  PROVE  SumOf(f) \in Int
<1>1. DOMAIN f = D /\ D \in SUBSET D
  OBVIOUS
<1>2. SumOf(f) = Sums(f, D)[D]
  BY <1>1, FoldIsSum
<1>3. Sums(f, D)[D] \in Int
  BY <1>1, PartialSumType
<1> QED
  BY <1>2, <1>3

\* that it adds pointwise,
LEMMA SumAdds ==
  ASSUME NEW D, IsFiniteSet(D), NEW f \in [D -> Int], NEW g \in [D -> Int],
         NEW h \in [D -> Int], \A x \in D : h[x] = f[x] + g[x]
  PROVE  SumOf(h) = SumOf(f) + SumOf(g)
<1>1. DOMAIN f = D /\ DOMAIN g = D /\ DOMAIN h = D /\ D \in SUBSET D
  OBVIOUS
<1>2. /\ SumOf(f) = Sums(f, D)[D]
      /\ SumOf(g) = Sums(g, D)[D]
      /\ SumOf(h) = Sums(h, D)[D]
  BY <1>1, FoldIsSum
<1>3. Sums(h, D)[D] = Sums(f, D)[D] + Sums(g, D)[D]
  BY <1>1, PartialSumAdds
<1> QED
  BY <1>2, <1>3

\* and that one nonzero value is the sum.
LEMMA SumAt ==
  ASSUME NEW D, IsFiniteSet(D), NEW x \in D, NEW v \in Int
  PROVE  SumOf([y \in D |-> IF y = x THEN v ELSE 0]) = v
<1> DEFINE f == [y \in D |-> IF y = x THEN v ELSE 0]
<1>1. DOMAIN f = D /\ D \in SUBSET D /\ \A y \in D : f[y] = IF y = x THEN v ELSE 0
  OBVIOUS
<1> HIDE DEF f
<1>2. Sums(f, D)[D] = v
  BY <1>1, PartialSumAt
<1>3. SumOf(f) = Sums(f, DOMAIN f)[DOMAIN f]
  BY FoldIsSum
<1>4. SumOf(f) = v
  BY <1>1, <1>2, <1>3
<1> QED
  BY <1>4 DEF f

-----------------------------------------------------------------------------
\* What the proofs about the programs use: a function that is 0 everywhere,
LEMMA SumZero ==
  ASSUME NEW D, IsFiniteSet(D)
  PROVE  SumOf([x \in D |-> 0]) = 0
<1> DEFINE f == [x \in D |-> 0]
<1>1. f \in [D -> Int] /\ \A x \in D : f[x] = f[x] + f[x]
  OBVIOUS
<1> HIDE DEF f
<1> DEFINE S == SumOf(f)
<1>2. S \in Int
  BY <1>1, SumType
<1>3. S = S + S
  BY <1>1, SumAdds
<1> HIDE DEF S
<1>4. S = 0
  BY <1>2, <1>3
<1> QED
  BY <1>4 DEF S, f

\* a function changed at one place,
LEMMA SumUpdate ==
  ASSUME NEW D, IsFiniteSet(D), NEW f \in [D -> Int], NEW h \in [D -> Int],
         NEW x \in D, \A y \in D \ {x} : h[y] = f[y]
  PROVE  SumOf(h) = SumOf(f) + (h[x] - f[x])
<1> DEFINE w == h[x] - f[x]
           g == [y \in D |-> IF y = x THEN w ELSE 0]
<1>1. w \in Int /\ \A y \in D : h[y] = f[y] + g[y]
  OBVIOUS
<1> HIDE DEF w
<1>2. g \in [D -> Int]
  BY <1>1
<1>3. SumOf(g) = w
  BY <1>1, SumAt
<1> HIDE DEF g
<1>4. SumOf(h) = SumOf(f) + SumOf(g)
  BY <1>1, <1>2, SumAdds
<1> QED
  BY <1>3, <1>4 DEF w

\* and an amount moved from one place to another.
LEMMA SumMove ==
  ASSUME NEW D, IsFiniteSet(D), NEW f \in [D -> Int], NEW h \in [D -> Int],
         NEW x \in D, NEW y \in D, x # y, NEW n \in Int,
         h[x] = f[x] - n, h[y] = f[y] + n,
         \A z \in D \ {x, y} : h[z] = f[z]
  PROVE  SumOf(h) = SumOf(f)
<1> DEFINE g == [f EXCEPT ![x] = h[x]]
<1>1. /\ g \in [D -> Int] /\ g[x] = h[x] /\ g[y] = f[y]
      /\ \A z \in D \ {x} : g[z] = f[z]
      /\ \A z \in D \ {y} : h[z] = g[z]
  OBVIOUS
<1> HIDE DEF g
<1>2. SumOf(g) = SumOf(f) + (g[x] - f[x])
  BY <1>1, SumUpdate
<1>3. SumOf(h) = SumOf(g) + (h[y] - g[y])
  BY <1>1, SumUpdate
<1>4. g[x] - f[x] = -n /\ h[y] - g[y] = n
  BY <1>1
<1>5. SumOf(f) \in Int
  BY SumType
<1> QED
  BY <1>2, <1>3, <1>4, <1>5

=============================================================================
