----------------------------- MODULE Inductions -----------------------------
(***************************************************************************)
(* Induction on natural numbers stated with sets, and what follows from it *)
(* for folds: the least element of a set of numbers takes the place of an  *)
(* induction hypothesis.                                                   *)
(***************************************************************************)
EXTENDS Integers, Sequences, FiniteSets, FiniteSetsExt, Folds, FiniteSetTheorems,
  WellFoundedInduction, TLAPS

LEMMA SmallestNat ==
  ASSUME NEW T \in SUBSET Nat, T # {}
  PROVE  \E n \in T : \A m \in T : n <= m
<1> DEFINE R == OpToRel(<, Nat)
<1>1. IsWellFoundedOn(R, Nat) BY NatLessThanWellFounded
<1>2. \A x, y \in Nat : <<y, x>> \in R <=> y < x BY DEF OpToRel
<1> HIDE DEF R
<1>3. PICK n \in T : \A y \in T : ~(<<y, n>> \in R) BY <1>1, WFMin
<1>4. ASSUME NEW m \in T PROVE n <= m
  <2>1. ~(<<m, n>> \in R) BY <1>3
  <2>2. n \in Nat /\ m \in Nat OBVIOUS
  <2>3. ~(m < n) BY <1>2, <2>1, <2>2
  <2> QED BY <2>2, <2>3
<1> QED BY <1>4

LEMMA InductionOnNat ==
  ASSUME NEW S, 0 \in S, \A n \in Nat : n \in S => n + 1 \in S
  PROVE  Nat \subseteq S
<1>1. SUFFICES ASSUME Nat \ S # {} PROVE FALSE OBVIOUS
<1>2. PICK n \in Nat \ S : \A m \in Nat \ S : n <= m BY <1>1, SmallestNat
<1>3. n # 0 /\ n - 1 \in Nat /\ n - 1 \in S BY <1>2
<1> QED BY <1>2, <1>3

LEMMA InductionUpTo ==
  ASSUME NEW N \in Nat, NEW S, 0 \in S, \A n \in 0..N - 1 : n \in S => n + 1 \in S
  PROVE  0..N \subseteq S
<1> DEFINE T == {n \in Nat : n \in S \/ n > N}
<1>1. 0 \in T OBVIOUS
<1>2. ASSUME NEW n \in Nat, n \in T PROVE n + 1 \in T BY <1>2
<1> HIDE DEF T
<1>3. Nat \subseteq T BY <1>1, <1>2, InductionOnNat
<1> QED BY <1>3 DEF T

\* A set of numbers up to N that is not empty has a greatest one.
LEMMA GreatestUpTo ==
  ASSUME NEW N \in Nat, NEW S \in SUBSET (0..N), S # {}
  PROVE  Max(S) \in S /\ \A n \in S : n <= Max(S)
<1> DEFINE T == {N - n : n \in S}
<1>1. T \in SUBSET Nat /\ T # {}
  <2>1. ASSUME NEW n \in S PROVE N - n \in Nat BY <2>1
  <2>2. PICK n \in S : TRUE OBVIOUS
  <2>3. N - n \in T OBVIOUS
  <2> QED BY <2>1, <2>3
<1>2. PICK d \in T : \A e \in T : d <= e BY <1>1, SmallestNat
<1>3. PICK x \in S : d = N - x BY <1>2
<1>4. \A n \in S : x >= n BY <1>2, <1>3
<1> QED BY <1>4 DEF Max

LEMMA LeastUpTo ==
  ASSUME NEW S \in SUBSET Nat, S # {}
  PROVE  Min(S) \in S /\ \A n \in S : Min(S) <= n
BY SmallestNat DEF Min

\* The recursion behind a fold has a solution, which is one step per element.
Folded(h, N, base, seq, g) ==
  \A s \in SUBSET (1..N) :
    h[s] = IF s = {} THEN base ELSE g[<<h[s \ {Max(s)}], seq[Max(s)]>>]

Small(N, n) == {s \in SUBSET (1..N) : Cardinality(s) <= n}

LEMMA FoldExists ==
  ASSUME NEW N \in Nat, NEW A, NEW B, NEW base \in A, NEW seq \in [1..N -> B],
         NEW g \in [A \X B -> A]
  PROVE  \E h \in [SUBSET (1..N) -> A] : Folded(h, N, base, seq, g)
<1> DEFINE Rule(h, s) == IF s = {} THEN base ELSE g[<<h[s \ {Max(s)}], seq[Max(s)]>>]
           Solved == {n \in Nat : \E h \in [Small(N, n) -> A] :
                                    \A s \in Small(N, n) : h[s] = Rule(h, s)}
<1>1. ASSUME NEW s \in SUBSET (1..N), s # {} PROVE Max(s) \in s
  <2>1. s \in SUBSET (0..N) OBVIOUS
  <2> QED BY <1>1, <2>1, GreatestUpTo
<1>2. ASSUME NEW s \in SUBSET (1..N)
      PROVE  /\ IsFiniteSet(s) /\ Cardinality(s) \in Nat
             /\ Cardinality(s) = 0 <=> s = {}
             /\ \A x \in s : Cardinality(s \ {x}) = Cardinality(s) - 1
  <2>1. IsFiniteSet(1..N) BY FS_Interval
  <2>2. IsFiniteSet(s) BY <2>1, FS_Subset
  <2> QED BY <2>2, FS_EmptySet, FS_CardinalityType, FS_RemoveElement
<1>3. 0 \in Solved
  <2> DEFINE h == [s \in Small(N, 0) |-> base]
  <2>1. \A s \in Small(N, 0) : s = {} BY <1>2 DEF Small
  <2>2. h \in [Small(N, 0) -> A] OBVIOUS
  <2>3. \A s \in Small(N, 0) : h[s] = Rule(h, s) BY <2>1
  <2> QED BY <2>2, <2>3
<1>4. ASSUME NEW n \in Nat, n \in Solved PROVE n + 1 \in Solved
  <2>1. PICK h \in [Small(N, n) -> A] : \A s \in Small(N, n) : h[s] = Rule(h, s) BY <1>4
  <2> DEFINE k == [s \in Small(N, n + 1) |-> IF s \in Small(N, n) THEN h[s] ELSE Rule(h, s)]
  <2>2. ASSUME NEW s \in Small(N, n + 1), s # {}
        PROVE  s \ {Max(s)} \in Small(N, n) /\ s \ {Max(s)} \in Small(N, n + 1) /\ Max(s) \in 1..N
    <3>1. s \in SUBSET (1..N) /\ Cardinality(s) \in Nat /\ Cardinality(s) <= n + 1
      BY <1>2 DEF Small
    <3>2. Max(s) \in s BY <1>1, <2>2, <3>1
    <3>3. Cardinality(s \ {Max(s)}) = Cardinality(s) - 1 BY <1>2, <3>1, <3>2
    <3> DEFINE t == s \ {Max(s)}
    <3>4. t \in SUBSET (1..N) /\ Cardinality(t) = Cardinality(s) - 1 BY <3>1, <3>3
    <3> HIDE DEF t
    <3>5. Cardinality(t) <= n /\ Cardinality(t) <= n + 1 BY <3>1, <3>4
    <3>6. t \in Small(N, n) /\ t \in Small(N, n + 1) BY <3>4, <3>5 DEF Small
    <3> QED BY <3>1, <3>2, <3>6 DEF t
  <2>3. ASSUME NEW s \in Small(N, n) PROVE s \in Small(N, n + 1) BY <1>2, <2>3 DEF Small
  <2>4. ASSUME NEW s \in Small(N, n + 1), s # {}
        PROVE  k[s \ {Max(s)}] = h[s \ {Max(s)}]
    BY <2>2, <2>4
  <2>5. ASSUME NEW s \in Small(N, n + 1) PROVE k[s] \in A
    <3>1. CASE s \in Small(N, n) BY <3>1
    <3>2. CASE s \notin Small(N, n) /\ s # {}
      <4>1. k[s] = g[<<h[s \ {Max(s)}], seq[Max(s)]>>] BY <3>2
      <4>2. h[s \ {Max(s)}] \in A /\ seq[Max(s)] \in B BY <2>2, <3>2
      <4> QED BY <4>1, <4>2
    <3>3. CASE s \notin Small(N, n) /\ s = {} BY <3>3
    <3> QED BY <3>1, <3>2, <3>3
  <2>6. ASSUME NEW s \in Small(N, n + 1) PROVE k[s] = Rule(k, s)
    <3>1. k[s] = Rule(h, s) BY <2>1, <2>3
    <3>2. Rule(k, s) = Rule(h, s)
      <4>1. CASE s = {} BY <4>1
      <4>2. CASE s # {}
        <5>1. k[s \ {Max(s)}] = h[s \ {Max(s)}] BY <2>4, <4>2
        <5> HIDE DEF k
        <5> QED BY <4>2, <5>1
      <4> QED BY <4>1, <4>2
    <3> QED BY <3>1, <3>2
  <2>7. k \in [Small(N, n + 1) -> A] BY <2>5
  <2> HIDE DEF k
  <2>8. n + 1 \in Nat OBVIOUS
  <2>9. \E f \in [Small(N, n + 1) -> A] : \A s \in Small(N, n + 1) : f[s] = Rule(f, s)
    BY <2>6, <2>7
  <2> QED BY <2>8, <2>9
<1> HIDE DEF Solved
<1>5. N \in Solved BY <1>3, <1>4, InductionOnNat
<1>6. Small(N, N) = SUBSET (1..N)
  <2>1. ASSUME NEW s \in SUBSET (1..N) PROVE Cardinality(s) <= N
    <3>1. IsFiniteSet(1..N) /\ Cardinality(1..N) = N BY FS_Interval
    <3>2. Cardinality(s) <= Cardinality(1..N) BY <3>1, FS_Subset
    <3> QED BY <3>1, <3>2
  <2> QED BY <2>1 DEF Small
<1> QED BY <1>5, <1>6 DEF Solved, Folded

\* What a fold is of which we know only where its steps lead, as long as they stay in A.
FoldsIn(A, B, h, N, base, seq, g) ==
  /\ base \in A /\ seq \in [1..N -> B] /\ g \in [A \X B -> A]
  /\ h[{}] = base
  /\ \A s \in SUBSET (1..N) :
       s # {} /\ h[s \ {Max(s)}] \in A => h[s] = g[<<h[s \ {Max(s)}], seq[Max(s)]>>]

LEMMA FirstOnes ==
  ASSUME NEW N \in Nat, NEW n \in 1..N
  PROVE  /\ 1..n \in SUBSET (1..N) /\ 1..n # {} /\ Max(1..n) = n
         /\ (1..n) \ {n} = 1..n - 1
<1>1. 1..n \in SUBSET (0..N) /\ 1..n \in SUBSET (1..N) /\ 1..n # {} OBVIOUS
<1>2. Max(1..n) \in 1..n /\ \A m \in 1..n : m <= Max(1..n) BY <1>1, GreatestUpTo
<1>3. Max(1..n) = n BY <1>2
<1> QED BY <1>1, <1>3

Runs(A, a, N, base, seq, g) ==
  /\ a[0] = base /\ \A n \in 1..N : a[n] = g[<<a[n - 1], seq[n]>>]
  /\ \A n \in 0..N : a[n] \in A

LEMMA FoldRuns ==
  ASSUME NEW N \in Nat, NEW A, NEW B, NEW base, NEW seq, NEW g, NEW h,
         FoldsIn(A, B, h, N, base, seq, g)
  PROVE  \E a : Runs(A, a, N, base, seq, g) /\ a[N] = h[1..N]
<1>0. base \in A /\ seq \in [1..N -> B] /\ g \in [A \X B -> A] BY DEF FoldsIn
<1>1. 1..0 = {} /\ h[1..0] = base BY DEF FoldsIn
<1>2. ASSUME NEW n \in 1..N, h[1..n - 1] \in A PROVE h[1..n] = g[<<h[1..n - 1], seq[n]>>]
  BY <1>2, FirstOnes DEF FoldsIn
<1> DEFINE S == {n \in Nat : h[1..n] \in A}
<1>3. 0..N \subseteq S
  <2>1. 0 \in S BY <1>0, <1>1
  <2>2. ASSUME NEW n \in 0..N - 1, n \in S PROVE n + 1 \in S
    <3>1. n + 1 \in 1..N /\ n + 1 - 1 = n /\ n + 1 \in Nat OBVIOUS
    <3>2. h[1..n + 1] = g[<<h[1..n], seq[n + 1]>>] BY <1>2, <2>2, <3>1
    <3>3. seq[n + 1] \in B BY <1>0, <3>1
    <3> QED BY <1>0, <2>2, <3>1, <3>2, <3>3
  <2> HIDE DEF S
  <2> QED BY <2>1, <2>2, InductionUpTo
<1> DEFINE a == [n \in 0..N |-> h[1..n]]
<1>4. a[0] = base /\ a[N] = h[1..N] BY <1>1
<1>5. ASSUME NEW n \in 1..N PROVE a[n] = g[<<a[n - 1], seq[n]>>]
  <2>1. n \in 0..N /\ n - 1 \in 0..N OBVIOUS
  <2>2. h[1..n - 1] \in A BY <1>3, <2>1
  <2> QED BY <1>2, <2>1, <2>2
<1>6. \A n \in 0..N : a[n] \in A BY <1>3
<1> HIDE DEF a
<1>7. Runs(A, a, N, base, seq, g) BY <1>4, <1>5, <1>6 DEF Runs
<1> QED BY <1>4, <1>7

\* g gives a function's value at x, from its values at lower ones.
GoesDown(g, D, A, height) ==
  /\ height \in [D -> Nat] /\ g \in [D \X [D -> A] -> A]
  /\ \A x \in D : \A e, f \in [D -> A] :
       (\A y \in D : height[y] < height[x] => e[y] = f[y]) => g[<<x, e>>] = g[<<x, f>>]

Solvable(g, D, A) == \E f \in [D -> A] : \A x \in D : f[x] = g[<<x, f>>]

\* A function is well defined by a rule that looks at what is lower only.
LEMMA Recursion ==
  ASSUME NEW D, NEW A, A # {}, NEW height, NEW g, GoesDown(g, D, A, height)
  PROVE  Solvable(g, D, A)
<1>0. height \in [D -> Nat] /\ g \in [D \X [D -> A] -> A] BY DEF GoesDown
<1> USE <1>0
<1> DEFINE Below(n) == {x \in D : height[x] < n}
           Solves(f, n) == f \in [D -> A] /\ \A x \in Below(n) : f[x] = g[<<x, f>>]
           Solved == {n \in Nat : \E f \in [D -> A] : Solves(f, n)}
<1>1. 0 \in Solved
  <2>1. PICK a \in A : TRUE OBVIOUS
  <2>2. [x \in D |-> a] \in [D -> A] OBVIOUS
  <2>3. Below(0) = {} OBVIOUS
  <2>4. Solves([x \in D |-> a], 0) BY <2>2, <2>3
  <2> HIDE DEF Solves
  <2> QED BY <2>2, <2>4
<1>2. ASSUME NEW n \in Nat, n \in Solved PROVE n + 1 \in Solved
  <2>1. PICK f \in [D -> A] : Solves(f, n) BY <1>2
  <2> DEFINE e == [x \in D |-> g[<<x, f>>]]
  <2>2. e \in [D -> A] OBVIOUS
  <2>3. ASSUME NEW x \in Below(n + 1) PROVE e[x] = g[<<x, e>>]
    <3>1. x \in D /\ e[x] = g[<<x, f>>] OBVIOUS
    <3>2. ASSUME NEW y \in D, height[y] < height[x] PROVE e[y] = f[y]
      <4>1. height[x] < n + 1 /\ height[x] \in Nat /\ height[y] \in Nat OBVIOUS
      <4>2. height[y] < n BY <3>2, <4>1
      <4>3. f[y] = g[<<y, f>>] BY <2>1, <4>2
      <4> QED BY <4>3
    <3> HIDE DEF e
    <3>3. g[<<x, e>>] = g[<<x, f>>] BY <2>2, <3>1, <3>2 DEF GoesDown
    <3> QED BY <3>1, <3>3
  <2> HIDE DEF e
  <2>4. Solves(e, n + 1) BY <2>2, <2>3
  <2> HIDE DEF Solves
  <2> QED BY <2>2, <2>4
<1> HIDE DEF Solved
<1>3. \A n \in Nat : n \in Solved BY <1>1, <1>2, InductionOnNat
<1>4. \A n \in Nat : \E f \in [D -> A] : Solves(f, n) BY <1>3 DEF Solved
\* Where two solutions are defined, they agree.
<1>5. ASSUME NEW e, NEW f, NEW m \in Nat, NEW n \in Nat, Solves(e, m), Solves(f, n)
      PROVE  \A x \in Below(m) \cap Below(n) : e[x] = f[x]
  <2> DEFINE Differ == {x \in Below(m) \cap Below(n) : e[x] # f[x]}
             Heights == {height[x] : x \in Differ}
  <2> SUFFICES ASSUME Differ # {} PROVE FALSE OBVIOUS
  <2>1. Heights \in SUBSET Nat /\ Heights # {} OBVIOUS
  <2>2. PICK h \in Heights : \A k \in Heights : h <= k BY <2>1, SmallestNat
  <2>3. PICK x \in Differ : h = height[x] BY <2>2
  <2>4. x \in D /\ x \in Below(m) /\ x \in Below(n) /\ e[x] # f[x] BY <2>3
  <2>5. ASSUME NEW y \in D, height[y] < height[x] PROVE e[y] = f[y]
    <3>1. height[y] \in Nat /\ height[x] \in Nat BY <2>4
    <3>2. y \in Below(m) /\ y \in Below(n) BY <2>4, <2>5, <3>1
    <3>3. CASE y \in Differ
      <4>1. height[y] \in Heights BY <3>3
      <4>2. h <= height[y] BY <2>2, <4>1
      <4> QED BY <2>3, <2>5, <3>1, <4>2
    <3> QED BY <3>2, <3>3
  <2>6. e \in [D -> A] /\ f \in [D -> A] BY <1>5
  <2>7. g[<<x, e>>] = g[<<x, f>>] BY <2>4, <2>5, <2>6 DEF GoesDown
  <2>8. e[x] = g[<<x, e>>] /\ f[x] = g[<<x, f>>] BY <1>5, <2>4
  <2> QED BY <2>4, <2>7, <2>8
<1> DEFINE part(n) == CHOOSE f \in [D -> A] : Solves(f, n)
           whole == [x \in D |-> part(height[x] + 1)[x]]
<1>6. \A n \in Nat : part(n) \in [D -> A] /\ Solves(part(n), n)
  <2> HIDE DEF Solves
  <2> QED BY <1>4
<1> HIDE DEF part
<1>7. whole \in [D -> A] BY <1>6
<1>8. ASSUME NEW x \in D PROVE whole[x] = g[<<x, whole>>]
  <2> DEFINE n == height[x] + 1  f == part(n)
  <2>1. n \in Nat /\ height[x] \in Nat /\ x \in Below(n) OBVIOUS
  <2>2. f \in [D -> A] /\ Solves(f, n) BY <1>6, <2>1
  <2>3. whole[x] = f[x] OBVIOUS
  <2>4. f[x] = g[<<x, f>>] BY <2>1, <2>2
  <2>5. ASSUME NEW y \in D, height[y] < height[x] PROVE whole[y] = f[y]
    <3>1. height[y] \in Nat /\ height[y] + 1 \in Nat OBVIOUS
    <3>2. y \in Below(height[y] + 1) /\ y \in Below(n) BY <2>1, <2>5, <3>1
    <3>3. Solves(part(height[y] + 1), height[y] + 1) BY <1>6, <3>1
    <3> HIDE DEF n, f, Below, Solves
    <3>4. part(height[y] + 1)[y] = f[y] BY <1>5, <2>1, <2>2, <3>1, <3>2, <3>3
    <3> QED BY <3>4
  <2> HIDE DEF whole, f, n
  <2>6. g[<<x, whole>>] = g[<<x, f>>] BY <1>7, <2>2, <2>5 DEF GoesDown
  <2> QED BY <2>3, <2>4, <2>6
<1> HIDE DEF whole
<1> QED BY <1>7, <1>8 DEF Solvable
=============================================================================
