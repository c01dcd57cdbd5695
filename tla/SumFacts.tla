------------------------------- MODULE SumFacts -------------------------------
(***************************************************************************)
(* What the proofs need to know of SumOf: it is 0 over no elements, any    *)
(* element can be taken out of it, and changing one value changes it by    *)
(* the difference.  The library's induction over finite sets takes an      *)
(* operator; here a nonempty family of subsets of a finite set has a       *)
(* smallest member, and a smallest counterexample is contradicted.         *)
(***************************************************************************)
EXTENDS Sums, FiniteSets, FiniteSetTheorems, WellFoundedInduction, TLAPS

OneOf(S) == CHOOSE x \in S : TRUE

(* g gives the sum of f over every subset of S, taking out one element at   *)
(* a time.                                                                  *)
Adds(f, S, g) ==
  g = [s \in SUBSET S |-> IF s = {} THEN 0 ELSE f[OneOf(s)] + g[s \ {OneOf(s)}]]

LEMMA Smallest ==
  ASSUME NEW S, IsFiniteSet(S), NEW B, B \subseteq SUBSET S, B # {}
  PROVE  \E T \in B : \A U \in B : U \subseteq T => U = T
<1>1. IsWellFoundedOn(StrictSubsetOrdering(S), SUBSET S)
  BY FS_StrictSubsetOrderingWellFounded, FS_FiniteSubsetsOfFinite
<1>2. PICK T \in B : \A U \in B : ~ (<<U, T>> \in StrictSubsetOrdering(S))
  BY <1>1, WFMin
<1>3. ASSUME NEW U \in B, U \subseteq T PROVE U = T
  BY <1>2, <1>3 DEF StrictSubsetOrdering
<1>. QED
  BY <1>3

LEMMA AddsAgree ==
  ASSUME NEW f, NEW S, IsFiniteSet(S), NEW T, NEW g, NEW h, Adds(f, S, g), Adds(f, T, h),
         NEW s, s \subseteq S, s \subseteq T
  PROVE  g[s] = h[s]
<1>. DEFINE B == {u \in SUBSET S : u \subseteq T /\ g[u] # h[u]}
<1>1. SUFFICES ASSUME B # {} PROVE FALSE
  OBVIOUS
<1>2. PICK u \in B : \A w \in B : w \subseteq u => w = u
  <2>1. B \subseteq SUBSET S
    OBVIOUS
  <2>. HIDE DEF B
  <2>. QED
    BY <1>1, <2>1, Smallest
<1>3. u # {}
  BY DEF Adds
<1>4. OneOf(u) \in u
  BY <1>3 DEF OneOf
<1>5. u \ {OneOf(u)} \notin B
  BY <1>2, <1>4
<1>6. g[u \ {OneOf(u)}] = h[u \ {OneOf(u)}]
  BY <1>5
<1>7. g[u] = f[OneOf(u)] + g[u \ {OneOf(u)}] /\ h[u] = f[OneOf(u)] + h[u \ {OneOf(u)}]
  BY <1>3 DEF Adds
<1>. QED
  BY <1>6, <1>7

LEMMA AddsExist ==
  ASSUME NEW f, NEW S, IsFiniteSet(S)
  PROVE  \E g : Adds(f, S, g)
<1>. DEFINE B == {u \in SUBSET S : ~ \E g : Adds(f, u, g)}
<1>1. SUFFICES ASSUME B # {} PROVE FALSE
  OBVIOUS
<1>2. PICK T \in B : \A w \in B : w \subseteq T => w = T
  <2>1. B \subseteq SUBSET S
    OBVIOUS
  <2>. HIDE DEF B
  <2>. QED
    BY <1>1, <2>1, Smallest
<1>. DEFINE At(u) == CHOOSE g : Adds(f, u, g)
            G(u) == IF u = {} THEN 0 ELSE f[OneOf(u)] + At(u \ {OneOf(u)})[u \ {OneOf(u)}]
            h == [u \in SUBSET T |-> G(u)]
<1>3. \A u \in SUBSET T : u # T => Adds(f, u, At(u))
  BY <1>2
<1>4. ASSUME NEW u \in SUBSET T, u # T PROVE h[u] = At(u)[u]
  <2>. DEFINE d == u \ {OneOf(u)}
  <2>1. CASE u = {}
    <3>1. Adds(f, u, At(u))
      BY <1>3, <1>4
    <3>2. At(u)[u] = 0
      BY <3>1, <2>1 DEF Adds
    <3>. QED
      BY <3>2, <2>1
  <2>2. CASE u # {}
    <3>1. Adds(f, u, At(u)) /\ Adds(f, d, At(d)) /\ IsFiniteSet(u)
      <4>1. d \in SUBSET T /\ d # T
        BY <1>4
      <4>. QED
        BY <1>3, <1>4, <4>1, FS_Subset
    <3>2. At(u)[d] = At(d)[d]
      <4>1. d \subseteq u /\ d \subseteq d
        OBVIOUS
      <4>. HIDE DEF At, d
      <4>. QED
        BY <3>1, <4>1, AddsAgree
    <3>3. At(u)[u] = f[OneOf(u)] + At(u)[d]
      BY <3>1, <2>2 DEF Adds
    <3>4. h[u] = f[OneOf(u)] + At(d)[d]
      BY <2>2
    <3>. QED
      BY <3>2, <3>3, <3>4
  <2>. QED
    BY <2>1, <2>2
<1>5. Adds(f, T, h)
  <2>1. ASSUME NEW s \in SUBSET T PROVE h[s] = IF s = {} THEN 0 ELSE f[OneOf(s)] + h[s \ {OneOf(s)}]
    <3>1. CASE s = {}
      BY <3>1
    <3>2. CASE s # {}
      <4>1. OneOf(s) \in s
        BY <3>2 DEF OneOf
      <4>2. s \ {OneOf(s)} \in SUBSET T /\ s \ {OneOf(s)} # T
        BY <4>1
      <4>3. h[s \ {OneOf(s)}] = At(s \ {OneOf(s)})[s \ {OneOf(s)}]
        BY <1>4, <4>2
      <4>4. h[s] = f[OneOf(s)] + At(s \ {OneOf(s)})[s \ {OneOf(s)}]
        BY <3>2
      <4>. QED
        BY <3>2, <4>3, <4>4
    <3>. QED
      BY <3>1, <3>2
  <2>2. h = [s \in SUBSET T |-> h[s]]
    OBVIOUS
  <2>. HIDE DEF h
  <2>. QED
    BY <2>1, <2>2 DEF Adds
<1>. QED
  BY <1>2, <1>5

LEMMA SumExists ==
  ASSUME NEW f, NEW S, IsFiniteSet(S)
  PROVE  \E g : Adds(f, S, g) /\ SumOf(f, S) = g[S]
<1>. DEFINE g == CHOOSE g : Adds(f, S, g)
<1>1. Adds(f, S, g)
  BY AddsExist
<1>2. SumOf(f, S) = g[S]
  BY DEF SumOf, FoldFunctionOnSet, MapThenFoldSet, Adds, OneOf
<1>. QED
  BY <1>1, <1>2

-----------------------------------------------------------------------------

Integral(f, S) == \A x \in S : f[x] \in Int

LEMMA PartType ==
  ASSUME NEW f, NEW S, IsFiniteSet(S), Integral(f, S), NEW g, Adds(f, S, g),
         NEW T \in SUBSET S
  PROVE  g[T] \in Int
<1>. DEFINE B == {u \in SUBSET S : g[u] \notin Int}
<1>1. SUFFICES ASSUME B # {} PROVE FALSE
  OBVIOUS
<1>2. PICK u \in B : \A w \in B : w \subseteq u => w = u
  <2>1. B \subseteq SUBSET S
    OBVIOUS
  <2>. HIDE DEF B
  <2>. QED
    BY <1>1, <2>1, Smallest
<1>3. CASE u = {}
  BY <1>3 DEF Adds
<1>4. CASE u # {}
  <2>1. OneOf(u) \in u
    BY <1>4 DEF OneOf
  <2>2. g[u \ {OneOf(u)}] \in Int
    BY <1>2, <2>1
  <2>3. g[u] = f[OneOf(u)] + g[u \ {OneOf(u)}]
    BY <1>4 DEF Adds
  <2>4. f[OneOf(u)] \in Int
    BY <2>1 DEF Integral
  <2>. QED
    BY <2>2, <2>3, <2>4
<1>. QED
  BY <1>3, <1>4

LEMMA PartWithout ==
  ASSUME NEW f, NEW S, IsFiniteSet(S), Integral(f, S), NEW g, Adds(f, S, g),
         NEW T \in SUBSET S, NEW y \in T
  PROVE  g[T] = f[y] + g[T \ {y}]
<1>. DEFINE B == {u \in SUBSET S : \E z \in u : g[u] # f[z] + g[u \ {z}]}
<1>1. SUFFICES ASSUME B # {} PROVE FALSE
  OBVIOUS
<1>2. PICK u \in B : \A w \in B : w \subseteq u => w = u
  <2>1. B \subseteq SUBSET S
    OBVIOUS
  <2>. HIDE DEF B
  <2>. QED
    BY <1>1, <2>1, Smallest
<1>3. PICK z \in u : g[u] # f[z] + g[u \ {z}]
  OBVIOUS
<1>. DEFINE x == OneOf(u)
<1>4. x \in u /\ u \in SUBSET S
  BY DEF OneOf
<1>5. g[u] = f[x] + g[u \ {x}]
  BY DEF Adds
<1>. HIDE DEF x
<1>6. x # z
  BY <1>3, <1>5
<1>7. u \ {x} \notin B /\ u \ {z} \notin B
  BY <1>2, <1>4
<1>8. g[u \ {x}] = f[z] + g[(u \ {x}) \ {z}]
  BY <1>4, <1>6, <1>7
<1>9. g[u \ {z}] = f[x] + g[(u \ {z}) \ {x}]
  BY <1>4, <1>6, <1>7
<1>. DEFINE rest == (u \ {x}) \ {z}
<1>10. (u \ {z}) \ {x} = rest
  OBVIOUS
<1>11. f[x] \in Int /\ f[z] \in Int /\ g[rest] \in Int
  BY <1>4, PartType DEF Integral
<1>12. g[u \ {x}] = f[z] + g[rest] /\ g[u \ {z}] = f[x] + g[rest]
  BY <1>8, <1>9, <1>10
<1>. HIDE DEF B, rest
<1>13. g[u] = f[x] + (f[z] + g[rest]) /\ g[u] # f[z] + (f[x] + g[rest])
  BY <1>3, <1>5, <1>12
<1>. QED
  BY <1>11, <1>13

-----------------------------------------------------------------------------
(* The facts about SumOf.                                                   *)

LEMMA SumOfNone ==
  ASSUME NEW f
  PROVE  SumOf(f, {}) = 0
<1>. DEFINE none == {}
<1>1. IsFiniteSet(none)
  BY FS_EmptySet
<1>2. none = {}
  OBVIOUS
<1>. HIDE DEF none
<1>3. PICK g : Adds(f, none, g) /\ SumOf(f, none) = g[none]
  BY <1>1, SumExists
<1>4. g[none] = 0
  BY <1>2, <1>3 DEF Adds
<1>. QED
  BY <1>2, <1>3, <1>4

LEMMA SumType ==
  ASSUME NEW f, NEW S, IsFiniteSet(S), Integral(f, S)
  PROVE  SumOf(f, S) \in Int
<1>1. PICK g : Adds(f, S, g) /\ SumOf(f, S) = g[S]
  BY SumExists
<1>2. g[S] \in Int
  BY <1>1, PartType
<1>. QED
  BY <1>1, <1>2

LEMMA SumWithout ==
  ASSUME NEW f, NEW S, IsFiniteSet(S), Integral(f, S), NEW y \in S
  PROVE  SumOf(f, S) = f[y] + SumOf(f, S \ {y})
<1>. DEFINE R == S \ {y}
<1>1. IsFiniteSet(R) /\ R \subseteq S /\ R \subseteq R
  BY FS_RemoveElement
<1>2. PICK g : Adds(f, S, g) /\ SumOf(f, S) = g[S]
  BY SumExists
<1>3. g[S] = f[y] + g[R]
  BY <1>2, PartWithout
<1>. HIDE DEF R
<1>4. PICK h : Adds(f, R, h) /\ SumOf(f, R) = h[R]
  BY <1>1, SumExists
<1>5. g[R] = h[R]
  BY <1>1, <1>2, <1>4, AddsAgree
<1>. QED
  BY <1>2, <1>3, <1>4, <1>5 DEF R

LEMMA SumSame ==
  ASSUME NEW S, IsFiniteSet(S), NEW f, NEW h, \A x \in S : f[x] = h[x]
  PROVE  SumOf(f, S) = SumOf(h, S)
<1>1. PICK g : Adds(f, S, g) /\ SumOf(f, S) = g[S]
  BY SumExists
<1>2. PICK k : Adds(h, S, k) /\ SumOf(h, S) = k[S]
  BY SumExists
<1>. DEFINE B == {u \in SUBSET S : g[u] # k[u]}
<1>3. ASSUME B # {} PROVE FALSE
  <2>1. PICK u \in B : \A w \in B : w \subseteq u => w = u
    <3>1. B \subseteq SUBSET S
      OBVIOUS
    <3>. HIDE DEF B
    <3>. QED
      BY <1>3, <3>1, Smallest
  <2>2. u # {}
    BY <1>1, <1>2 DEF Adds
  <2>3. OneOf(u) \in u
    BY <2>2 DEF OneOf
  <2>4. g[u \ {OneOf(u)}] = k[u \ {OneOf(u)}]
    BY <2>1, <2>3
  <2>5. g[u] = f[OneOf(u)] + g[u \ {OneOf(u)}] /\ k[u] = h[OneOf(u)] + k[u \ {OneOf(u)}]
    BY <1>1, <1>2, <2>2 DEF Adds
  <2>. QED
    BY <2>3, <2>4, <2>5
<1>. QED
  BY <1>1, <1>2, <1>3

LEMMA SumChanged ==
  ASSUME NEW S, IsFiniteSet(S), NEW f, NEW h, Integral(f, S), Integral(h, S),
         NEW y \in S, \A x \in S : x # y => h[x] = f[x]
  PROVE  SumOf(h, S) = SumOf(f, S) - f[y] + h[y]
<1>. DEFINE R == S \ {y}
<1>1. IsFiniteSet(R) /\ Integral(f, R) /\ \A x \in R : h[x] = f[x]
  BY FS_RemoveElement DEF Integral
<1>2. SumOf(f, S) = f[y] + SumOf(f, R) /\ SumOf(h, S) = h[y] + SumOf(h, R)
  BY SumWithout
<1>. HIDE DEF R
<1>3. SumOf(f, R) = SumOf(h, R) /\ SumOf(f, R) \in Int
  BY <1>1, SumSame, SumType
<1>4. f[y] \in Int /\ h[y] \in Int
  BY DEF Integral
<1>. QED
  BY <1>2, <1>3, <1>4

LEMMA SumOfZeros ==
  ASSUME NEW S, IsFiniteSet(S), NEW f, \A x \in S : f[x] = 0
  PROVE  SumOf(f, S) = 0
<1>1. PICK g : Adds(f, S, g) /\ SumOf(f, S) = g[S]
  BY SumExists
<1>. DEFINE B == {u \in SUBSET S : g[u] # 0}
<1>2. ASSUME B # {} PROVE FALSE
  <2>1. PICK u \in B : \A w \in B : w \subseteq u => w = u
    <3>1. B \subseteq SUBSET S
      OBVIOUS
    <3>. HIDE DEF B
    <3>. QED
      BY <1>2, <3>1, Smallest
  <2>2. u # {}
    BY <1>1 DEF Adds
  <2>3. OneOf(u) \in u
    BY <2>2 DEF OneOf
  <2>4. g[u \ {OneOf(u)}] = 0
    BY <2>1, <2>3
  <2>5. g[u] = f[OneOf(u)] + g[u \ {OneOf(u)}]
    BY <1>1, <2>2 DEF Adds
  <2>. QED
    BY <2>3, <2>4, <2>5
<1>. QED
  BY <1>1, <1>2

LEMMA SumReplaced ==
  ASSUME NEW S, NEW T, IsFiniteSet(S), IsFiniteSet(T),
         NEW f, NEW h, Integral(f, S), Integral(h, T),
         NEW y, \A x \in S \cup T : x # y => x \in S /\ x \in T /\ h[x] = f[x]
  PROVE  SumOf(h, T) = SumOf(f, S) - (IF y \in S THEN f[y] ELSE 0)
                                   + (IF y \in T THEN h[y] ELSE 0)
<1>. DEFINE R == S \ {y}
<1>1. IsFiniteSet(R) /\ Integral(f, R) /\ \A x \in R : h[x] = f[x]
  BY FS_RemoveElement DEF Integral
<1>2. SumOf(f, S) = (IF y \in S THEN f[y] ELSE 0) + SumOf(f, R)
  <2>1. CASE y \in S
    BY <2>1, SumWithout
  <2>2. CASE y \notin S
    <3>1. R = S
      BY <2>2
    <3>2. SumOf(f, S) \in Int /\ SumOf(f, R) = SumOf(f, S)
      BY <3>1, SumType
    <3>. HIDE DEF R
    <3>. QED
      BY <2>2, <3>1, <3>2
  <2>. QED
    BY <2>1, <2>2
<1>3. SumOf(h, T) = (IF y \in T THEN h[y] ELSE 0) + SumOf(h, R)
  <2>1. T \ {y} = R
    OBVIOUS
  <2>2. CASE y \in T
    BY <2>1, <2>2, SumWithout
  <2>3. CASE y \notin T
    <3>1. R = T
      BY <2>1, <2>3
    <3>2. SumOf(h, T) \in Int /\ SumOf(h, R) = SumOf(h, T)
      BY <3>1, SumType
    <3>. HIDE DEF R
    <3>. QED
      BY <2>3, <3>1, <3>2
  <2>. QED
    BY <2>2, <2>3
<1>4. (y \in S => f[y] \in Int) /\ (y \in T => h[y] \in Int)
  BY DEF Integral
<1>. HIDE DEF R
<1>5. SumOf(f, R) = SumOf(h, R) /\ SumOf(f, R) \in Int
  BY <1>1, SumSame, SumType
<1>. QED
  BY <1>2, <1>3, <1>4, <1>5

-----------------------------------------------------------------------------

LEMMA SumNatural ==
  ASSUME NEW S, IsFiniteSet(S), NEW f, \A x \in S : f[x] \in Nat
  PROVE  SumOf(f, S) \in Nat
<1>. DEFINE B == {u \in SUBSET S : SumOf(f, u) \notin Nat}
<1>1. SUFFICES ASSUME B # {} PROVE FALSE
  OBVIOUS
<1>2. PICK u \in B : \A w \in B : w \subseteq u => w = u
  <2>1. B \subseteq SUBSET S
    OBVIOUS
  <2>. HIDE DEF B
  <2>. QED
    BY <1>1, <2>1, Smallest
<1>3. u # {}
  <2>1. ASSUME u = {} PROVE FALSE
    <3>1. SumOf(f, u) = 0
      BY <2>1, SumOfNone, Zenon
    <3>. QED
      BY <1>2, <3>1
  <2>. QED
    BY <2>1
<1>4. PICK y \in u : TRUE
  BY <1>3
<1>5. IsFiniteSet(u) /\ Integral(f, u) /\ f[y] \in Nat
  BY <1>2, <1>4, FS_Subset DEF Integral
<1>6. SumOf(f, u) = f[y] + SumOf(f, u \ {y})
  BY <1>4, <1>5, SumWithout
<1>7. SumOf(f, u \ {y}) \in Nat
  BY <1>2, <1>4
<1>. QED
  BY <1>2, <1>5, <1>6, <1>7

LEMMA SumTogether ==
  ASSUME NEW R, NEW T, IsFiniteSet(R), IsFiniteSet(T), R \cap T = {},
         NEW f, Integral(f, R), Integral(f, T)
  PROVE  SumOf(f, R \cup T) = SumOf(f, R) + SumOf(f, T)
<1>. DEFINE B == {u \in SUBSET T : SumOf(f, R \cup u) # SumOf(f, R) + SumOf(f, u)}
<1>1. SUFFICES ASSUME B # {} PROVE FALSE
  OBVIOUS
<1>2. PICK u \in B : \A w \in B : w \subseteq u => w = u
  <2>1. B \subseteq SUBSET T
    OBVIOUS
  <2>. HIDE DEF B
  <2>. QED
    BY <1>1, <2>1, Smallest
<1>3. SumOf(f, R) \in Int
  BY SumType
<1>4. u # {}
  <2>1. ASSUME u = {} PROVE FALSE
    <3>1. SumOf(f, u) = 0
      BY <2>1, SumOfNone, Zenon
    <3>2. R \cup u = R
      BY <2>1
    <3>3. SumOf(f, R \cup u) = SumOf(f, R)
      BY <3>2, Zenon
    <3>4. SumOf(f, R \cup u) # SumOf(f, R) + SumOf(f, u)
      BY <1>2
    <3>. QED
      BY <1>3, <3>1, <3>3, <3>4
  <2>. QED
    BY <2>1
<1>5. PICK y \in u : TRUE
  BY <1>4
<1>. DEFINE d == u \ {y}
            V == R \cup u
<1>6. IsFiniteSet(u) /\ IsFiniteSet(d) /\ IsFiniteSet(V) /\ Integral(f, u) /\ Integral(f, V)
      /\ Integral(f, d) /\ f[y] \in Int
  BY <1>2, <1>5, FS_Subset, FS_Union DEF Integral
<1>7. SumOf(f, u) = f[y] + SumOf(f, d)
  BY <1>5, <1>6, SumWithout
<1>8. SumOf(f, V) = f[y] + SumOf(f, V \ {y})
  BY <1>5, <1>6, SumWithout
<1>9. V \ {y} = R \cup d
  BY <1>2, <1>5
<1>10. SumOf(f, R \cup d) = SumOf(f, R) + SumOf(f, d)
  BY <1>2, <1>5
<1>11. SumOf(f, d) \in Int
  BY <1>6, SumType
<1>. QED
  BY <1>2, <1>3, <1>6, <1>7, <1>8, <1>9, <1>10, <1>11

=============================================================================
