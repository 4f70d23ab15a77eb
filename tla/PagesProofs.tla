------------------------------ MODULE PagesProofs ------------------------------
(***************************************************************************)
(* Proofs about the pages of the pager.  For a document of any length,     *)
(* whatever its parts are and however they are nested: each text is on the *)
(* page exactly once, and in reading order, but that a table in an item of *)
(* a list goes ahead of the line that it interrupts; and the writer's      *)
(* flags tell what is open.  For any line, width and indentation: wrapping *)
(* loses nothing but blanks and keeps within the width wherever a          *)
(* character does.  For any table: its columns fit into what there is, and *)
(* none of them vanishes as long as there is room.                         *)
(*                                                                         *)
(* The text on the lines, then what a table holds back, then what a code   *)
(* block holds back, are the texts read, in order but for the pairs that   *)
(* tables have put ahead: that is inductive together with how tags may be  *)
(* nested, as something is held back in one of the two only, an open table *)
(* is told after all that is on the lines, and only an item leaves a line  *)
(* unfinished for it.  Wrapping is proved from the end of a line to its    *)
(* start, and the widths of columns pass by pass: what is not locked keeps *)
(* room for a column's width each.                                         *)
(***************************************************************************)
EXTENDS Pages, Inductions, FunctionTheorems, SequenceTheorems

-----------------------------------------------------------------------------
(* Step by step.                                                           *)

\* Step by step upwards.
Climbs(a, N, A, base, step) ==
  a \in [0..N -> A] /\ a[0] = base /\ \A n \in 1..N : a[n] = step[<<n, a[n - 1]>>]

LEMMA Upwards ==
  ASSUME NEW N \in Nat, NEW A, NEW base \in A, NEW step \in [(1..N) \X A -> A]
  PROVE  \E a : Climbs(a, N, A, base, step)
<1> DEFINE D == 0..N
           Rule(n, f) == IF n = 0 THEN base ELSE step[<<n, f[n - 1]>>]
           g == [x \in D \X [D -> A] |-> Rule(x[1], x[2])]
           height == [n \in D |-> n]
<1>1. ASSUME NEW n \in D, NEW f \in [D -> A] PROVE Rule(n, f) \in A
  <2>1. n # 0 => n \in 1..N /\ n - 1 \in D OBVIOUS
  <2> QED BY <2>1
<1>2. \A n \in D : \A f \in [D -> A] : g[<<n, f>>] = Rule(n, f) OBVIOUS
<1>3. g \in [D \X [D -> A] -> A]
  <2> HIDE DEF Rule
  <2> QED BY <1>1
<1>4. GoesDown(g, D, A, height)
  <2>1. height \in [D -> Nat] /\ \A n \in D : height[n] = n OBVIOUS
  <2>2. ASSUME NEW n \in D, NEW e \in [D -> A], NEW f \in [D -> A],
               \A m \in D : height[m] < height[n] => e[m] = f[m]
        PROVE  g[<<n, e>>] = g[<<n, f>>]
    <3>1. n # 0 => n - 1 \in D /\ n - 1 < n OBVIOUS
    <3>2. n # 0 => e[n - 1] = f[n - 1] BY <2>1, <2>2, <3>1
    <3>3. Rule(n, e) = Rule(n, f) BY <3>2
    <3> HIDE DEF Rule, g
    <3> QED BY <1>2, <3>3
  <2> HIDE DEF g, height, D
  <2> QED BY <1>3, <2>1, <2>2 DEF GoesDown
<1>5. A # {} OBVIOUS
<1> HIDE DEF g, height
<1>6. Solvable(g, D, A) BY <1>4, <1>5, Recursion
<1>7. PICK a \in [D -> A] : \A n \in D : a[n] = Rule(n, a)
  <2> HIDE DEF Rule
  <2> QED BY <1>2, <1>6 DEF Solvable
<1>8. a[0] = base
  <2>1. 0 \in D OBVIOUS
  <2> HIDE DEF D
  <2> QED BY <1>7, <2>1
<1>9. ASSUME NEW n \in 1..N PROVE a[n] = step[<<n, a[n - 1]>>]
  <2>1. n \in D /\ n # 0 OBVIOUS
  <2> HIDE DEF D
  <2> QED BY <1>7, <2>1
<1> QED BY <1>7, <1>8, <1>9 DEF Climbs

-----------------------------------------------------------------------------
(* Pages.  Sequences put together and picked over.                         *)

LEMMA Concats ==
  ASSUME NEW A, NEW x \in Seq(A), NEW y \in Seq(A), NEW z \in Seq(A)
  PROVE  /\ (x \o y) \o z = x \o (y \o z) /\ x \o y \in Seq(A)
         /\ x \o <<>> = x /\ <<>> \o x = x
         /\ Len(x \o y) = Len(x) + Len(y)
BY ConcatAssociative, ConcatEmptySeq, ConcatProperties

PutTogether(f, s) ==
  /\ f[0] = <<>> /\ \A n \in 1..Len(s) : f[n] = f[n - 1] \o s[n]

LEMMA FlattenRuns ==
  ASSUME NEW A, NEW s \in Seq(Seq(A))
  PROVE  \E f \in [0..Len(s) -> Seq(A)] : PutTogether(f, s) /\ FlattenSeq(s) = f[Len(s)]
<1> DEFINE N == Len(s)
           Is(h) == h = [i \in 1..N |-> IF i = 1 THEN s[i] ELSE h[i - 1] \o s[i]]
           step == [x \in (1..N) \X Seq(A) |-> x[2] \o s[x[1]]]
<1>1. N \in Nat /\ \A i \in 1..N : s[i] \in Seq(A) OBVIOUS
<1>2. <<>> \in Seq(A) OBVIOUS
<1>3. ASSUME N # 0 PROVE FlattenSeq(s) = (CHOOSE h : Is(h))[N]
  BY <1>3 DEF FlattenSeq
<1>4. ASSUME N = 0 PROVE FlattenSeq(s) = <<>>
  <2>1. s = <<>> BY <1>4
  <2> QED BY <1>4, <2>1 DEF FlattenSeq
<1> HIDE DEF N
<1>5. \A i \in 1..N : \A x \in Seq(A) : step[<<i, x>>] = x \o s[i] OBVIOUS
<1>6. step \in [(1..N) \X Seq(A) -> Seq(A)]
  <2>1. ASSUME NEW i \in 1..N, NEW x \in Seq(A) PROVE x \o s[i] \in Seq(A) BY <1>1
  <2> QED BY <2>1
<1> HIDE DEF step
<1>7. PICK f : Climbs(f, N, Seq(A), <<>>, step) BY <1>1, <1>2, <1>6, Upwards
<1>8. f \in [0..N -> Seq(A)] /\ f[0] = <<>> /\ \A n \in 1..N : f[n] = step[<<n, f[n - 1]>>]
  BY <1>7 DEF Climbs
<1>9. ASSUME NEW n \in 1..N PROVE f[n] = f[n - 1] \o s[n]
  <2>1. n - 1 \in 0..N BY <1>1
  <2>2. f[n - 1] \in Seq(A) BY <1>8, <2>1
  <2> QED BY <1>5, <1>8, <2>2
<1>10. PutTogether(f, s) BY <1>8, <1>9 DEF PutTogether, N
<1>11. CASE N = 0 BY <1>4, <1>8, <1>10, <1>11 DEF N
<1>12. CASE N # 0
  <2> DEFINE e == [i \in 1..N |-> f[i]]
  <2>1. Is(e)
    <3>1. ASSUME NEW i \in 1..N PROVE e[i] = IF i = 1 THEN s[i] ELSE e[i - 1] \o s[i]
      <4>1. CASE i = 1
        <5>1. f[1] = f[0] \o s[1]
          <6>1. 1 - 1 = 0 /\ 1 \in 1..N BY <4>1
          <6> QED BY <1>9, <6>1
        <5>2. PICK t \in Seq(A) : t = s[1] BY <1>1, <4>1
        <5>3. <<>> \o t = t BY Concats
        <5> QED BY <1>8, <4>1, <5>1, <5>2, <5>3
      <4>2. CASE i # 1
        <5>1. i - 1 \in 1..N BY <1>1, <4>2
        <5>2. e[i - 1] = f[i - 1] BY <5>1
        <5>3. f[i] = f[i - 1] \o s[i] BY <1>9
        <5> QED BY <4>2, <5>2, <5>3
      <4> QED BY <4>1, <4>2
    <3>2. e = [i \in 1..N |-> e[i]] OBVIOUS
    <3> HIDE DEF e
    <3> QED BY <3>1, <3>2
  <2> DEFINE h == CHOOSE h : Is(h)
  <2>2. Is(h)
    <3> HIDE DEF Is
    <3> QED BY <2>1
  <2> HIDE DEF h, e
  <2>3. \A i \in 1..N : h[i] = IF i = 1 THEN s[i] ELSE h[i - 1] \o s[i] BY <2>2
  <2> HIDE DEF Is
  <2> DEFINE S == {n \in 0..N : n # 0 => h[n] = f[n]}
  <2>4. 0 \in S BY <1>1
  <2>5. ASSUME NEW n \in 0..N - 1, n \in S PROVE n + 1 \in S
    <3>1. PICK k \in 1..N : k = n + 1 /\ k - 1 = n BY <1>1
    <3>5. f[k] = f[k - 1] \o s[k] BY <1>9
    <3>2. k \in 0..N /\ f[k] = f[n] \o s[k] BY <1>1, <3>1, <3>5
    <3>3. CASE n = 0
      <4>1. PICK t \in Seq(A) : t = s[k] BY <1>1
      <4>2. <<>> \o t = t BY Concats
      <4>3. h[k] = t BY <2>3, <3>1, <3>3, <4>1
      <4>4. f[k] = t BY <1>8, <3>2, <3>3, <4>1, <4>2
      <4> QED BY <3>1, <3>2, <4>3, <4>4
    <3>4. CASE n # 0
      <4>1. k # 1 BY <3>1, <3>4
      <4>2. h[k] = h[n] \o s[k] BY <2>3, <3>1, <4>1
      <4>3. h[n] = f[n] BY <2>5, <3>4
      <4> QED BY <3>1, <3>2, <4>2, <4>3
    <3> QED BY <3>3, <3>4
  <2> HIDE DEF S
  <2>6. 0..N \subseteq S BY <1>1, <2>4, <2>5, InductionUpTo
  <2>7. N \in S BY <1>1, <2>6
  <2>8. FlattenSeq(s) = f[N] BY <1>3, <1>12, <2>7 DEF S, h
  <2> QED BY <1>8, <1>10, <2>8 DEF N
<1> QED BY <1>11, <1>12

LEMMA FlattenIs ==
  ASSUME NEW A, NEW s \in Seq(Seq(A))
  PROVE  FlattenSeq(s) \in Seq(A)
<1>1. PICK f \in [0..Len(s) -> Seq(A)] : FlattenSeq(s) = f[Len(s)] BY FlattenRuns
<1>2. Len(s) \in 0..Len(s) OBVIOUS
<1> QED BY <1>1, <1>2

LEMMA FlattenEmpty == FlattenSeq(<<>>) = <<>>
BY DEF FlattenSeq

\* Whatever sums the elements up in order is the whole.
LEMMA FlattenOnly ==
  ASSUME NEW A, NEW s \in Seq(Seq(A)), NEW e, PutTogether(e, s)
  PROVE  FlattenSeq(s) = e[Len(s)]
<1>1. PICK f \in [0..Len(s) -> Seq(A)] : PutTogether(f, s) /\ FlattenSeq(s) = f[Len(s)]
  BY FlattenRuns
<1> DEFINE S == {n \in 0..Len(s) : e[n] = f[n]}
<1>2. Len(s) \in Nat OBVIOUS
<1>3. 0 \in S BY <1>1, <1>2 DEF PutTogether
<1>4. ASSUME NEW n \in 0..Len(s) - 1, n \in S PROVE n + 1 \in S
  <2>1. PICK k \in 1..Len(s) : k = n + 1 /\ k - 1 = n /\ k \in 0..Len(s) BY <1>2
  <2>2. e[k] = e[n] \o s[k] /\ f[k] = f[n] \o s[k]
    BY <1>1, <2>1 DEF PutTogether
  <2> QED BY <1>4, <2>1, <2>2
<1> HIDE DEF S
<1>5. 0..Len(s) \subseteq S BY <1>2, <1>3, <1>4, InductionUpTo
<1>6. Len(s) \in S BY <1>2, <1>5
<1> QED BY <1>1, <1>6 DEF S

LEMMA FlattenConcat ==
  ASSUME NEW A, NEW s \in Seq(Seq(A)), NEW t \in Seq(Seq(A))
  PROVE  /\ FlattenSeq(s \o t) = FlattenSeq(s) \o FlattenSeq(t)
         /\ FlattenSeq(s) \in Seq(A) /\ FlattenSeq(t) \in Seq(A)
<1>0. \A x, y, z \in Seq(A) : (x \o y) \o z = x \o (y \o z) BY Concats
<1> DEFINE M == Len(s)  N == Len(t)
<1>1. PICK e \in [0..M -> Seq(A)] : PutTogether(e, s) /\ FlattenSeq(s) = e[M] BY FlattenRuns
<1>2. PICK f \in [0..N -> Seq(A)] : PutTogether(f, t) /\ FlattenSeq(t) = f[N] BY FlattenRuns
<1>3. M \in Nat /\ N \in Nat
  <2>1. Len(s) \in Nat /\ Len(t) \in Nat OBVIOUS
  <2> QED BY <2>1
<1>4. PICK u \in Seq(Seq(A)) : u = s \o t BY Concats
<1>5. /\ Len(u) = M + N
      /\ \A i \in 1..M + N : u[i] = IF i <= M THEN s[i] ELSE t[i - M]
  BY <1>4, ConcatProperties
<1>6. /\ e[0] = <<>> /\ \A n \in 1..M : e[n] = e[n - 1] \o s[n]
      /\ f[0] = <<>> /\ \A n \in 1..N : f[n] = f[n - 1] \o t[n]
  BY <1>1, <1>2 DEF PutTogether
<1>14. \A n \in 1..N : t[n] \in Seq(A) OBVIOUS
<1> HIDE DEF M, N
<1> DEFINE g == [n \in 0..M + N |-> IF n <= M THEN e[n] ELSE e[M] \o f[n - M]]
<1>7. /\ \A n \in 0..M : g[n] = e[n]
      /\ \A n \in M + 1..M + N : g[n] = e[M] \o f[n - M]
  <2>1. /\ \A n \in 0..M : n \in 0..M + N /\ n <= M
        /\ \A n \in M + 1..M + N : n \in 0..M + N /\ ~(n <= M)
    BY <1>3
  <2> QED BY <2>1
<1> HIDE DEF g
<1>8. e[M] \in Seq(A) /\ f[0] = <<>> /\ f[N] \in Seq(A)
  <2>1. M \in 0..M /\ N \in 0..N BY <1>3
  <2> QED BY <1>1, <1>2, <1>6, <2>1
<1>9. ASSUME NEW n \in 1..M + N PROVE g[n] = g[n - 1] \o u[n]
  <2>1. CASE n <= M
    <3>1. n \in 1..M /\ n \in 0..M /\ n - 1 \in 0..M BY <1>3, <2>1
    <3> QED BY <1>5, <1>6, <1>7, <2>1, <3>1
  <2>2. CASE ~(n <= M)
    <3>1. n \in M + 1..M + N /\ n - M \in 1..N /\ n - M - 1 = n - 1 - M /\ n - M - 1 \in 0..N
      BY <1>3, <2>2
    <3>2. PICK k \in 1..N : k = n - M /\ k - 1 \in 0..N BY <3>1
    <3>3. u[n] = t[k] /\ f[k] = f[k - 1] \o t[k] BY <1>5, <1>6, <2>2, <3>2
    <3>4. g[n] = e[M] \o f[k] BY <1>7, <3>1, <3>2
    <3>5. PICK x \in Seq(A), y \in Seq(A), z \in Seq(A) : x = e[M] /\ y = f[k - 1] /\ z = t[k]
      BY <1>2, <1>8, <1>14, <3>2
    <3>8. (x \o y) \o z = x \o (y \o z) BY <1>0
    <3>6. g[n] = (e[M] \o f[k - 1]) \o t[k] BY <3>3, <3>4, <3>5, <3>8
    <3>7. g[n - 1] = e[M] \o f[k - 1]
      <4>1. CASE k = 1
        <5>1. n - 1 = M /\ k - 1 = 0 BY <1>3, <3>2, <4>1
        <5>2. M \in 0..M BY <1>3
        <5>3. g[n - 1] = e[M] BY <1>6, <1>7, <5>1, <5>2
        <5>4. PICK r \in Seq(A) : r = e[M] BY <1>8
        <5>5. r \o <<>> = r BY Concats
        <5> QED BY <1>8, <5>1, <5>3, <5>4, <5>5
      <4>2. CASE k # 1
        <5>1. n - 1 \in M + 1..M + N /\ n - 1 - M = k - 1 BY <1>3, <3>2, <4>2
        <5> QED BY <1>7, <5>1
      <4> QED BY <4>1, <4>2
    <3> QED BY <3>3, <3>6, <3>7
  <2> QED BY <2>1, <2>2
<1>10. g[0] = <<>>
  <2>1. 0 \in 0..M BY <1>3
  <2> QED BY <1>6, <1>7, <2>1
<1>11. PutTogether(g, u) BY <1>5, <1>9, <1>10 DEF PutTogether
<1>12. FlattenSeq(u) = g[M + N] BY <1>5, <1>11, FlattenOnly
<1>13. g[M + N] = e[M] \o f[N]
  <2>1. CASE N = 0
    <3>1. M \in 0..M /\ M + N = M BY <1>3, <2>1
    <3>2. g[M + N] = e[M] BY <1>7, <3>1
    <3>3. PICK x \in Seq(A) : x = e[M] BY <1>8
    <3>4. x \o <<>> = x BY Concats
    <3> QED BY <1>8, <2>1, <3>2, <3>3, <3>4
  <2>2. CASE N # 0
    <3>1. PICK m \in M + 1..M + N : m = M + N /\ m - M = N BY <1>3, <2>2
    <3>2. g[m] = e[M] \o f[m - M] BY <1>7
    <3> QED BY <3>1, <3>2
  <2> QED BY <2>1, <2>2
<1> QED BY <1>1, <1>2, <1>4, <1>8, <1>12, <1>13

LEMMA FlattenSingle ==
  ASSUME NEW A, NEW x \in Seq(A)
  PROVE  FlattenSeq(<<x>>) = x
<1>1. <<x>> \in Seq(Seq(A)) /\ Len(<<x>>) = 1 /\ <<x>>[1] = x OBVIOUS
<1>2. PICK s \in Seq(Seq(A)) : s = <<x>> BY <1>1
<1>3. Len(s) = 1 /\ s[1] = x BY <1>1, <1>2
<1>4. PICK f \in [0..Len(s) -> Seq(A)] : PutTogether(f, s) /\ FlattenSeq(s) = f[Len(s)]
  BY FlattenRuns
<1>5. f[1] = f[0] \o x /\ f[0] = <<>>
  <2>1. 1 \in 1..Len(s) /\ 1 - 1 = 0 BY <1>3
  <2> QED BY <1>3, <1>4, <2>1 DEF PutTogether
<1>6. <<>> \o x = x BY Concats
<1> QED BY <1>2, <1>3, <1>4, <1>5, <1>6

LEMMA FlattenAppend ==
  ASSUME NEW A, NEW s \in Seq(Seq(A)), NEW x \in Seq(A)
  PROVE  FlattenSeq(Append(s, x)) = FlattenSeq(s) \o x
<1>1. <<x>> \in Seq(Seq(A)) /\ Append(s, x) = s \o <<x>> OBVIOUS
<1>2. PICK t \in Seq(Seq(A)) : t = <<x>> BY <1>1
<1>3. FlattenSeq(t) = x BY <1>2, FlattenSingle
<1>4. FlattenSeq(s \o t) = FlattenSeq(s) \o FlattenSeq(t) BY FlattenConcat
<1> QED BY <1>1, <1>2, <1>3, <1>4

LEMMA Beyond ==
  ASSUME NEW m \in Nat, NEW n \in Nat, NEW i \in 1..m + n, ~(i <= m)
  PROVE  i - m \in 1..n
OBVIOUS

Singles(s, S) == [i \in DOMAIN s |-> IF s[i] \in S THEN <<s[i]>> ELSE <<>>]

IsSingles(e, s, S, B) ==
  /\ e \in Seq(Seq(B)) /\ Len(e) = Len(s)
  /\ \A i \in 1..Len(s) : e[i] = IF s[i] \in S THEN <<s[i]>> ELSE <<>>

LEMMA SinglesAre ==
  ASSUME NEW A, NEW s \in Seq(A), NEW S
  PROVE  IsSingles(Singles(s, S), s, S, A \cap S)
<1>1. Len(s) \in Nat /\ DOMAIN s = 1..Len(s) /\ \A i \in 1..Len(s) : s[i] \in A OBVIOUS
<1> DEFINE e == [i \in 1..Len(s) |-> IF s[i] \in S THEN <<s[i]>> ELSE <<>>]
<1>2. Singles(s, S) = e BY <1>1 DEF Singles
<1>3. ASSUME NEW x \in A PROVE x \in S => <<x>> \in Seq(A \cap S) OBVIOUS
<1>4. <<>> \in Seq(A \cap S) OBVIOUS
<1>5. \A i \in 1..Len(s) : e[i] \in Seq(A \cap S) BY <1>1, <1>3, <1>4
<1>6. e \in [1..Len(s) -> Seq(A \cap S)] BY <1>5
<1>7. e \in Seq(Seq(A \cap S)) BY <1>1, <1>6, SeqDef
<1>8. Len(e) = Len(s) BY <1>1, <1>7
<1> QED BY <1>2, <1>7, <1>8 DEF IsSingles

LEMMA OnlyIs ==
  ASSUME NEW A, NEW s \in Seq(A), NEW S
  PROVE  Only(s, S) \in Seq(A \cap S) /\ Only(s, S) \in Seq(A)
<1>1. Singles(s, S) \in Seq(Seq(A \cap S)) BY SinglesAre DEF IsSingles
<1>2. Only(s, S) = FlattenSeq(Singles(s, S)) BY DEF Only, Singles
<1>3. Only(s, S) \in Seq(A \cap S) BY <1>1, <1>2, FlattenIs
<1>4. Seq(A \cap S) \subseteq Seq(A)
  <2>1. ASSUME NEW t \in Seq(A \cap S) PROVE t \in Seq(A) BY SeqDef
  <2> QED BY <2>1
<1> QED BY <1>3, <1>4

LEMMA OnlyConcat ==
  ASSUME NEW A, NEW s \in Seq(A), NEW t \in Seq(A), NEW S
  PROVE  Only(s \o t, S) = Only(s, S) \o Only(t, S)
<1>1. s \o t \in Seq(A) /\ Len(s \o t) = Len(s) + Len(t) BY ConcatProperties
<1>4. PICK u \in Seq(A) : u = s \o t BY <1>1
<1> DEFINE B == A \cap S  e == Singles(s, S)  f == Singles(t, S)  g == Singles(u, S)
<1>2. IsSingles(e, s, S, B) BY SinglesAre
<1>3. IsSingles(f, t, S, B) BY SinglesAre
<1>5. IsSingles(g, u, S, B) BY SinglesAre
<1>6. \A i \in 1..Len(s) + Len(t) : u[i] = IF i <= Len(s) THEN s[i] ELSE t[i - Len(s)]
  BY <1>4, ConcatProperties
<1>7. Len(s) \in Nat /\ Len(t) \in Nat OBVIOUS
<1> HIDE DEF e, f, g, B
<1>20. /\ e \in Seq(Seq(B)) /\ Len(e) = Len(s)
       /\ \A i \in 1..Len(s) : e[i] = IF s[i] \in S THEN <<s[i]>> ELSE <<>>
  BY <1>2 DEF IsSingles
<1>30. /\ f \in Seq(Seq(B)) /\ Len(f) = Len(t)
       /\ \A i \in 1..Len(t) : f[i] = IF t[i] \in S THEN <<t[i]>> ELSE <<>>
  BY <1>3 DEF IsSingles
<1>50. /\ g \in Seq(Seq(B)) /\ Len(g) = Len(u)
       /\ \A i \in 1..Len(u) : g[i] = IF u[i] \in S THEN <<u[i]>> ELSE <<>>
  BY <1>5 DEF IsSingles
<1>8. PICK h \in Seq(Seq(B)) : h = e \o f BY <1>20, <1>30, Concats
<1>9. /\ Len(h) = Len(s) + Len(t)
      /\ \A i \in 1..Len(s) + Len(t) : h[i] = IF i <= Len(s) THEN e[i] ELSE f[i - Len(s)]
  <2>2. e \in Seq(Seq(B)) /\ f \in Seq(Seq(B)) BY <1>20, <1>30
  <2>1. /\ Len(h) = Len(e) + Len(f)
        /\ \A i \in 1..Len(e) + Len(f) : h[i] = IF i <= Len(e) THEN e[i] ELSE f[i - Len(e)]
    BY <1>8, <2>2, ConcatProperties
  <2> QED BY <1>20, <1>30, <2>1
<1>10. Len(u) = Len(s) + Len(t) BY <1>1, <1>4
<1>11. ASSUME NEW i \in 1..Len(u) PROVE g[i] = h[i]
  <2>1. CASE i <= Len(s)
    <3>1. i \in 1..Len(s) BY <1>7, <1>10, <2>1
    <3> QED BY <1>20, <1>50, <1>6, <1>9, <1>10, <2>1, <3>1
  <2>2. CASE ~(i <= Len(s))
    <3>3. i \in 1..Len(s) + Len(t) BY <1>10
    <3>4. i - Len(s) \in 1..Len(t) BY <1>7, <2>2, <3>3, Beyond
    <3>1. PICK j \in 1..Len(t) : j = i - Len(s) BY <3>4
    <3>2. h[i] = f[j] /\ u[i] = t[j] BY <1>6, <1>9, <1>10, <2>2, <3>1
    <3> QED BY <1>30, <1>50, <3>1, <3>2
  <2> QED BY <2>1, <2>2
<1>12. g = h
  <2>1. Len(g) = Len(h) /\ Len(g) \in Nat BY <1>50, <1>9, <1>10
  <2>2. \A i \in 1..Len(g) : g[i] = h[i] BY <1>50, <1>11
  <2> QED BY <1>50, <1>8, <2>1, <2>2, SeqEqual
<1>13. FlattenSeq(g) = FlattenSeq(e) \o FlattenSeq(f)
  BY <1>20, <1>30, <1>8, <1>12, FlattenConcat
<1>14. FlattenSeq(g) = Only(u, S) /\ FlattenSeq(e) = Only(s, S) /\ FlattenSeq(f) = Only(t, S)
  BY DEF Only, Singles, e, f, g
<1> QED BY <1>4, <1>13, <1>14

LEMMA OnlyEmpty ==
  ASSUME NEW S
  PROVE  Only(<<>>, S) = <<>>
<1>1. [i \in DOMAIN <<>> |-> IF <<>>[i] \in S THEN <<<<>>[i]>> ELSE <<>>] = <<>> OBVIOUS
<1> QED BY <1>1, FlattenEmpty DEF Only

LEMMA OnlyOne ==
  ASSUME NEW A, NEW x \in A, NEW S
  PROVE  Only(<<x>>, S) = IF x \in S THEN <<x>> ELSE <<>>
<1>1. <<x>> \in Seq(A) /\ Len(<<x>>) = 1 /\ <<x>>[1] = x OBVIOUS
<1>2. PICK s \in Seq(A) : s = <<x>> BY <1>1
<1>7. (IF x \in S THEN <<x>> ELSE <<>>) \in Seq(A) OBVIOUS
<1>3. PICK y \in Seq(A) : y = IF x \in S THEN <<x>> ELSE <<>> BY <1>7
<1>4. Singles(s, S) \in Seq(Seq(A \cap S)) /\ Len(Singles(s, S)) = 1 /\ Singles(s, S)[1] = y
  <2>1. Len(s) = 1 /\ s[1] = x /\ 1 \in 1..Len(s) BY <1>1, <1>2
  <2>2. IsSingles(Singles(s, S), s, S, A \cap S) BY SinglesAre
  <2> QED BY <1>3, <2>1, <2>2 DEF IsSingles
<1>5. Singles(s, S) = <<y>> BY <1>4
<1>6. FlattenSeq(<<y>>) = y BY FlattenSingle
<1> QED BY <1>2, <1>3, <1>5, <1>6 DEF Only, Singles

LEMMA OnlyAppend ==
  ASSUME NEW A, NEW s \in Seq(A), NEW x \in A, NEW S
  PROVE  Only(Append(s, x), S) = IF x \in S THEN Append(Only(s, S), x) ELSE Only(s, S)
<1>0. <<x>> \in Seq(A) OBVIOUS
<1>1. PICK t \in Seq(A) : t = <<x>> BY <1>0
<1>2. Append(s, x) = s \o t BY <1>1
<1>3. Only(s \o t, S) = Only(s, S) \o Only(t, S) BY OnlyConcat
<1>4. Only(t, S) = IF x \in S THEN <<x>> ELSE <<>> BY <1>1, OnlyOne
<1>5. PICK o \in Seq(A) : o = Only(s, S) BY OnlyIs
<1>6. o \o <<>> = o BY Concats
<1>7. o \o <<x>> = Append(o, x) OBVIOUS
<1> QED BY <1>2, <1>3, <1>4, <1>5, <1>6, <1>7

\* Sequences of which nothing is left
LEMMA FlattenNothing ==
  ASSUME NEW A, NEW s \in Seq(Seq(A)), \A i \in 1..Len(s) : s[i] = <<>>
  PROVE  FlattenSeq(s) = <<>>
<1> DEFINE e == [n \in 0..Len(s) |-> <<>>]
<1>1. Len(s) \in Nat OBVIOUS
<1>2. \A n \in 0..Len(s) : e[n] = <<>> OBVIOUS
<1> HIDE DEF e
<1>3. ASSUME NEW n \in 1..Len(s) PROVE e[n] = e[n - 1] \o s[n]
  <2>1. n \in 0..Len(s) /\ n - 1 \in 0..Len(s) BY <1>1
  <2>2. <<>> \o <<>> = <<>> OBVIOUS
  <2> QED BY <1>2, <2>1, <2>2
<1>7. e[0] = <<>>
  <2>1. 0 \in 0..Len(s) BY <1>1
  <2> QED BY <1>2, <2>1
<1>4. PutTogether(e, s) BY <1>3, <1>7 DEF PutTogether
<1>5. FlattenSeq(s) = e[Len(s)] BY <1>4, FlattenOnly
<1>6. Len(s) \in 0..Len(s) BY <1>1
<1> QED BY <1>2, <1>5, <1>6

LEMMA OnlyNothing ==
  ASSUME NEW A, NEW s \in Seq(A), NEW S, \A i \in 1..Len(s) : s[i] \notin S
  PROVE  Only(s, S) = <<>>
<1>3. IsSingles(Singles(s, S), s, S, A \cap S) BY SinglesAre
<1>1. /\ Singles(s, S) \in Seq(Seq(A \cap S)) /\ Len(Singles(s, S)) = Len(s)
      /\ \A i \in 1..Len(s) : Singles(s, S)[i] = <<>>
  BY <1>3 DEF IsSingles
<1>2. FlattenSeq(Singles(s, S)) = <<>> BY <1>1, FlattenNothing
<1> QED BY <1>2 DEF Only, Singles

-----------------------------------------------------------------------------
(* Texts on a page.                                                        *)

AllTags == BlockTags \cup InlineTags \cup {"item", "head", "row", "cell"}
Spans == [text : Nat, style : Seq(AllTags)]
Numbers == Nat
Texts == Nat \ {0}

TextsIn(s) == [i \in DOMAIN s |-> s[i].text]

LEMMA TextsInIs ==
  ASSUME NEW s \in Seq(Spans)
  PROVE  /\ TextsIn(s) \in Seq(Numbers) /\ Len(TextsIn(s)) = Len(s)
         /\ \A i \in 1..Len(s) : TextsIn(s)[i] = s[i].text
<1>1. Len(s) \in Nat /\ DOMAIN s = 1..Len(s) OBVIOUS
<1>2. \A i \in 1..Len(s) : s[i] \in Spans OBVIOUS
<1>3. \A i \in 1..Len(s) : s[i].text \in Nat BY <1>2 DEF Spans
<1> DEFINE e == [i \in 1..Len(s) |-> s[i].text]
<1>4. e \in [1..Len(s) -> Numbers] BY <1>3 DEF Numbers
<1>5. e \in Seq(Numbers) BY <1>1, <1>4, SeqDef
<1>6. TextsIn(s) = e BY <1>1 DEF TextsIn
<1> QED BY <1>1, <1>5, <1>6

LEMMA TextsAre ==
  ASSUME NEW s \in Seq(Spans)
  PROVE  TextsOf(s) \in Seq(Numbers) /\ TextsOf(s) = Only(TextsIn(s), Texts)
<1>1. TextsOf(s) = Only(TextsIn(s), Texts) BY DEF TextsOf, TextsIn, Texts
<1> QED BY <1>1, TextsInIs, OnlyIs

LEMMA NumbersConcat ==
  ASSUME NEW e \in Seq(Numbers), NEW f \in Seq(Numbers)
  PROVE  Only(e \o f, Texts) = Only(e, Texts) \o Only(f, Texts)
BY OnlyConcat

LEMMA TextsConcat ==
  ASSUME NEW s \in Seq(Spans), NEW t \in Seq(Spans)
  PROVE  TextsOf(s \o t) = TextsOf(s) \o TextsOf(t)
<1>1. PICK u \in Seq(Spans) : u = s \o t BY Concats
<1>2. PICK e \in Seq(Numbers) : e = TextsIn(s) BY TextsInIs
<1>3. PICK f \in Seq(Numbers) : f = TextsIn(t) BY TextsInIs
<1>4. PICK g \in Seq(Numbers) : g = TextsIn(u) BY TextsInIs
<1>5. PICK h \in Seq(Numbers) : h = e \o f BY Concats
<1>6. /\ Len(e) = Len(s) /\ Len(f) = Len(t) /\ Len(g) = Len(u)
      /\ \A i \in 1..Len(s) : e[i] = s[i].text
      /\ \A i \in 1..Len(t) : f[i] = t[i].text
      /\ \A i \in 1..Len(u) : g[i] = u[i].text
  BY <1>2, <1>3, <1>4, TextsInIs
<1>7. /\ Len(u) = Len(s) + Len(t)
      /\ \A i \in 1..Len(s) + Len(t) : u[i] = IF i <= Len(s) THEN s[i] ELSE t[i - Len(s)]
  BY <1>1, ConcatProperties
<1>8. /\ Len(h) = Len(e) + Len(f)
      /\ \A i \in 1..Len(e) + Len(f) : h[i] = IF i <= Len(e) THEN e[i] ELSE f[i - Len(e)]
  BY <1>5, ConcatProperties
<1>9. Len(s) \in Nat /\ Len(t) \in Nat OBVIOUS
<1>10. ASSUME NEW i \in 1..Len(u) PROVE g[i] = h[i]
  <2>1. CASE i <= Len(s)
    <3>1. i \in 1..Len(s) BY <1>7, <1>9, <2>1
    <3> QED BY <1>6, <1>7, <1>8, <2>1, <3>1
  <2>2. CASE ~(i <= Len(s))
    <3>3. i \in 1..Len(s) + Len(t) BY <1>7
    <3>4. i - Len(s) \in 1..Len(t) BY <1>9, <2>2, <3>3, Beyond
    <3>1. PICK j \in 1..Len(t) : j = i - Len(s) BY <3>4
    <3>2. h[i] = f[j] /\ u[i] = t[j] BY <1>6, <1>7, <1>8, <2>2, <3>1
    <3> QED BY <1>6, <3>1, <3>2
  <2> QED BY <2>1, <2>2
<1>11. g = h
  <2>1. Len(g) = Len(h) BY <1>6, <1>7, <1>8
  <2>2. \A i \in 1..Len(g) : g[i] = h[i] BY <1>6, <1>10
  <2> QED BY <2>1, <2>2, SeqEqual
<1>12. Only(e \o f, Texts) = Only(e, Texts) \o Only(f, Texts)
  <2>1. e \in Seq(Numbers) /\ f \in Seq(Numbers) OBVIOUS
  <2> QED BY <2>1, NumbersConcat
<1>13. /\ TextsOf(s) = Only(e, Texts) /\ TextsOf(t) = Only(f, Texts)
       /\ TextsOf(u) = Only(g, Texts)
  BY <1>2, <1>3, <1>4, TextsAre
<1> QED BY <1>1, <1>5, <1>11, <1>12, <1>13

LEMMA TextsEmpty == TextsOf(<<>>) = <<>>
<1>1. [i \in DOMAIN <<>> |-> <<>>[i].text] = <<>> OBVIOUS
<1> QED BY <1>1, OnlyEmpty DEF TextsOf

LEMMA TextsNothing ==
  ASSUME NEW s \in Seq(Spans), \A i \in 1..Len(s) : s[i].text = 0
  PROVE  TextsOf(s) = <<>>
<1>1. PICK e \in Seq(Numbers) : e = TextsIn(s) BY TextsInIs
<1>2. Len(e) = Len(s) /\ \A i \in 1..Len(s) : e[i] \notin Texts BY <1>1, TextsInIs DEF Texts
<1>3. Only(e, Texts) = <<>> BY <1>2, OnlyNothing
<1> QED BY <1>1, <1>3, TextsAre

LEMMA TextsOne ==
  ASSUME NEW x \in Spans
  PROVE  TextsOf(<<x>>) = IF x.text = 0 THEN <<>> ELSE <<x.text>>
<1>0. <<x>> \in Seq(Spans) OBVIOUS
<1>1. PICK s \in Seq(Spans) : s = <<x>> BY <1>0
<1>2. PICK e \in Seq(Numbers) : e = TextsIn(s) BY TextsInIs
<1>3. Len(e) = 1 /\ e[1] = x.text
  <2>1. Len(s) = 1 /\ s[1] = x BY <1>1
  <2>2. Len(e) = Len(s) /\ \A i \in 1..Len(s) : e[i] = s[i].text BY <1>2, TextsInIs
  <2> QED BY <2>1, <2>2
<1>4. x.text \in Numbers BY DEF Spans, Numbers
<1>5. e = <<x.text>> BY <1>3, <1>4
<1>6. Only(<<x.text>>, Texts) = IF x.text \in Texts THEN <<x.text>> ELSE <<>> BY <1>4, OnlyOne
<1> QED BY <1>1, <1>2, <1>4, <1>5, <1>6, TextsAre DEF Texts, Numbers

LEMMA TextsAppend ==
  ASSUME NEW s \in Seq(Spans), NEW x \in Spans
  PROVE  TextsOf(Append(s, x)) = IF x.text = 0 THEN TextsOf(s) ELSE Append(TextsOf(s), x.text)
<1>0. <<x>> \in Seq(Spans) OBVIOUS
<1>1. PICK t \in Seq(Spans) : t = <<x>> BY <1>0
<1>2. Append(s, x) = s \o t BY <1>1
<1>3. TextsOf(s \o t) = TextsOf(s) \o TextsOf(t) BY TextsConcat
<1>4. TextsOf(t) = IF x.text = 0 THEN <<>> ELSE <<x.text>> BY <1>1, TextsOne
<1>5. PICK o \in Seq(Numbers) : o = TextsOf(s) BY TextsAre
<1>6. o \o <<>> = o BY Concats
<1>7. x.text \in Numbers BY DEF Spans, Numbers
<1>8. o \o <<x.text>> = Append(o, x.text) BY <1>7
<1> QED BY <1>2, <1>3, <1>4, <1>5, <1>6, <1>8

LEMMA Shrinks ==
  ASSUME NEW A, NEW o \in Seq(A), o # <<>>
  PROVE  /\ Front(o) \in Seq(A) /\ Len(Front(o)) = Len(o) - 1
         /\ \A i \in 1..Len(o) - 1 : Front(o)[i] = o[i]
         /\ Len(o) \in Nat \ {0} /\ Last(o) = o[Len(o)] /\ Last(o) \in A
         /\ o = Append(Front(o), Last(o))
<1>1. Len(o) \in Nat \ {0} BY EmptySeq
<1>2. \A i \in 1..Len(o) - 1 : o[i] \in A BY <1>1
<1>3. 1 \in Int /\ Len(o) - 1 \in Int BY <1>1
<1>15. PICK n \in Nat : n = Len(o) - 1 BY <1>1
<1>16. \A i \in 1..n : o[i] \in A BY <1>2, <1>15
<1>17. Front(o) = SubSeq(o, 1, n) BY <1>15 DEF Front
<1>4. /\ Front(o) \in Seq(A)
      /\ Len(Front(o)) = IF 1 <= n THEN n - 1 + 1 ELSE 0
      /\ \A i \in 1..n - 1 + 1 : Front(o)[i] = o[1 + i - 1]
  BY <1>16, <1>17, SubSeqProperties
<1>5. Len(Front(o)) = Len(o) - 1 BY <1>4, <1>15
<1>18. \A i \in 1..n : i \in 1..n - 1 + 1 /\ 1 + i - 1 = i OBVIOUS
<1>6. \A i \in 1..Len(o) - 1 : Front(o)[i] = o[i] BY <1>4, <1>15, <1>18
<1>7. Last(o) = o[Len(o)] /\ Last(o) \in A BY <1>1 DEF Last
<1>8. PICK f \in Seq(A) : f = Front(o) BY <1>4
<1>9. PICK x \in A : x = Last(o) BY <1>7
<1>19. Append(f, x) \in Seq(A) BY AppendProperties
<1>10. PICK p \in Seq(A) : p = Append(f, x) BY <1>19
<1>11. /\ Len(p) = Len(f) + 1 /\ \A i \in 1..Len(f) : p[i] = f[i]
       /\ p[Len(f) + 1] = x
  BY <1>10, AppendProperties
<1>12. Len(p) = Len(o) BY <1>1, <1>5, <1>8, <1>11
<1>13. ASSUME NEW i \in 1..Len(o) PROVE o[i] = p[i]
  <2>1. CASE i = Len(o)
    <3>1. i = Len(f) + 1 BY <1>1, <1>5, <1>8, <2>1
    <3> QED BY <1>7, <1>9, <1>11, <2>1, <3>1
  <2>2. CASE i # Len(o)
    <3>1. i \in 1..Len(o) - 1 /\ i \in 1..Len(f) BY <1>1, <1>5, <1>8, <2>2
    <3> QED BY <1>6, <1>8, <1>11, <3>1
  <2> QED BY <2>1, <2>2
<1>14. o = p BY <1>12, <1>13, SeqEqual
<1> QED BY <1>1, <1>4, <1>5, <1>6, <1>7, <1>8, <1>9, <1>10, <1>14

LEMMA OnlyFront ==
  ASSUME NEW A, NEW o \in Seq(A), o # <<>>, NEW S
  PROVE  Only(o, S) = IF Last(o) \in S THEN Append(Only(Front(o), S), Last(o))
                      ELSE Only(Front(o), S)
<1>1. Front(o) \in Seq(A) /\ Last(o) \in A /\ o = Append(Front(o), Last(o)) BY Shrinks
<1>2. PICK f \in Seq(A), x \in A : f = Front(o) /\ x = Last(o) BY <1>1
<1>3. Only(Append(f, x), S) = IF x \in S THEN Append(Only(f, S), x) ELSE Only(f, S)
  BY OnlyAppend
<1> QED BY <1>1, <1>2, <1>3

LEMMA FrontOfAppend ==
  ASSUME NEW A, NEW s \in Seq(A), NEW x \in A
  PROVE  Front(Append(s, x)) = s
<1>0. Append(s, x) \in Seq(A) BY AppendProperties
<1>1. PICK o \in Seq(A) : o = Append(s, x) BY <1>0
<1>2. o # <<>> BY <1>1, AppendProperties
<1>3. Front(o) \in Seq(A) /\ Last(o) \in A /\ o = Append(Front(o), Last(o)) BY <1>2, Shrinks
<1> QED BY <1>1, <1>3, AppendInjective

-----------------------------------------------------------------------------
(* How tags are nested.                                                    *)

Cells == {"cell"} \cup InlineTags
Under(a, b) ==
  /\ a = "table" => b \in {"head", "row"} \cup Cells
  /\ a \in {"head", "row"} => b \in Cells
  /\ a \in {"cell", "heading", "paragraph"} \cup InlineTags => b \in InlineTags
  /\ a # "code"

LEMMA UnderHolds ==
  ASSUME NEW a \in AllTags, NEW l \in AllTags, NEW b \in MayHold(l)
  PROVE  b \in AllTags /\ Under(l, b) /\ (Under(a, l) => Under(a, b))
<1>1. l \in {"quote"} => MayHold(l) = BlockTags BY DEF MayHold
<1>2. l = "item" => MayHold(l) = BlockTags \cup InlineTags BY DEF MayHold
<1>3. l = "list" => MayHold(l) = {"item"} BY DEF MayHold
<1>4. l = "table" => MayHold(l) = {"head", "row"} BY DEF MayHold
<1>5. l \in {"head", "row"} => MayHold(l) = {"cell"} BY DEF MayHold
<1>6. l \in {"paragraph", "heading", "cell"} => MayHold(l) = InlineTags BY DEF MayHold
<1>7. l = "emphasis" => MayHold(l) = InlineTags BY DEF MayHold
<1>8. l = "link" => MayHold(l) = {"emphasis"} BY DEF MayHold
<1>9. l = "code" => MayHold(l) = {} BY DEF MayHold
<1> QED BY <1>1, <1>2, <1>3, <1>4, <1>5, <1>6, <1>7, <1>8, <1>9
     DEF AllTags, BlockTags, InlineTags, Under, Cells

Nested(o) ==
  /\ o \in Seq(AllTags)
  /\ o # <<>> => o[1] \in BlockTags
  /\ \A i \in 1..Len(o) - 1 : o[i + 1] \in MayHold(o[i])
  /\ \A i, j \in 1..Len(o) : i < j => Under(o[i], o[j])

Inner(o) == IF o = <<>> THEN "document" ELSE Last(o)
Has(o, tag) == \E i \in 1..Len(o) : o[i] = tag

LEMMA HasIs ==
  /\ Innermost = Inner(mOpen)
  /\ mOpen \in Seq(AllTags) => \A tag : IsOpen(tag) <=> Has(mOpen, tag)
BY DEF Innermost, Inner, IsOpen, Has

LEMMA NestedGrows ==
  ASSUME NEW o, Nested(o), NEW b \in MayHold(Inner(o))
  PROVE  /\ Nested(Append(o, b)) /\ b \in AllTags /\ Inner(Append(o, b)) = b
         /\ \A tag : Has(Append(o, b), tag) <=> Has(o, tag) \/ tag = b
         /\ \A tag : Has(o, tag) => Under(tag, b)
<1>1. o \in Seq(AllTags) /\ Len(o) \in Nat BY DEF Nested
<1>2. o = <<>> => b \in BlockTags BY DEF Inner, MayHold
<1>3. o # <<>> => Len(o) \in 1..Len(o) /\ o[Len(o)] \in AllTags /\ Inner(o) = o[Len(o)]
  <2>1. SUFFICES ASSUME o # <<>> PROVE Len(o) \in 1..Len(o) /\ o[Len(o)] \in AllTags /\ Last(o) = o[Len(o)]
    BY DEF Inner
  <2>2. Len(o) \in Nat \ {0} /\ Last(o) = o[Len(o)] /\ Last(o) \in AllTags BY <1>1, <2>1, Shrinks
  <2> QED BY <2>2
<1>4. ASSUME NEW i \in 1..Len(o) PROVE Under(o[i], b) /\ b \in AllTags
  <2>1. o # <<>> /\ o[i] \in AllTags BY <1>1
  <2>2. PICK l \in AllTags : l = o[Len(o)] /\ b \in MayHold(l) BY <1>3, <2>1
  <2>3. Under(l, b) /\ b \in AllTags /\ (Under(o[i], l) => Under(o[i], b)) BY <2>1, <2>2, UnderHolds
  <2>4. CASE i = Len(o) BY <2>2, <2>3, <2>4
  <2>5. CASE i # Len(o)
    <3>1. i < Len(o) /\ Len(o) \in 1..Len(o) BY <1>1, <2>5
    <3>2. Under(o[i], o[Len(o)]) BY <3>1 DEF Nested
    <3> QED BY <2>2, <2>3, <3>2
  <2> QED BY <2>4, <2>5
<1>5. b \in AllTags
  <2>1. CASE o = <<>> BY <1>2, <2>1 DEF AllTags
  <2>2. CASE o # <<>> BY <1>3, <1>4, <2>2
  <2> QED BY <2>1, <2>2
<1>14. Append(o, b) \in Seq(AllTags) BY <1>1, <1>5, AppendProperties
<1>6. PICK p \in Seq(AllTags) : p = Append(o, b) BY <1>14
<1>7. /\ Len(p) = Len(o) + 1 /\ \A i \in 1..Len(o) : p[i] = o[i]
      /\ p[Len(o) + 1] = b /\ p # <<>>
  BY <1>1, <1>5, <1>6, AppendProperties
<1>8. p[1] \in BlockTags
  <2>1. CASE o = <<>>
    <3>1. Len(o) = 0 BY <2>1
    <3> QED BY <1>2, <1>7, <2>1, <3>1
  <2>2. CASE o # <<>>
    <3>1. 1 \in 1..Len(o) /\ o[1] \in BlockTags BY <1>1, <1>3, <2>2 DEF Nested
    <3> QED BY <1>7, <3>1
  <2> QED BY <2>1, <2>2
<1>9. ASSUME NEW i \in 1..Len(p) - 1 PROVE p[i + 1] \in MayHold(p[i])
  <2>1. i \in 1..Len(o) BY <1>1, <1>7
  <2>2. CASE i = Len(o)
    <3>1. o # <<>> /\ p[i] = o[Len(o)] /\ p[i + 1] = b BY <1>1, <1>7, <2>1, <2>2
    <3> QED BY <1>3, <3>1
  <2>3. CASE i # Len(o)
    <3>1. i \in 1..Len(o) - 1 /\ i + 1 \in 1..Len(o) BY <1>1, <2>1, <2>3
    <3>2. o[i + 1] \in MayHold(o[i]) BY <3>1 DEF Nested
    <3> QED BY <1>7, <2>1, <3>1, <3>2
  <2> QED BY <2>2, <2>3
<1>10. ASSUME NEW i \in 1..Len(p), NEW j \in 1..Len(p), i < j PROVE Under(p[i], p[j])
  <2>1. i \in 1..Len(o) /\ p[i] = o[i] BY <1>1, <1>7, <1>10
  <2>2. CASE j = Len(o) + 1 BY <1>4, <1>7, <2>1, <2>2
  <2>3. CASE j # Len(o) + 1
    <3>1. j \in 1..Len(o) /\ p[j] = o[j] BY <1>1, <1>7, <2>3
    <3>2. Under(o[i], o[j]) BY <1>10, <2>1, <3>1 DEF Nested
    <3> QED BY <2>1, <3>1, <3>2
  <2> QED BY <2>2, <2>3
<1>11. Nested(p) BY <1>8, <1>9, <1>10 DEF Nested
<1>12. Inner(p) = b BY <1>7 DEF Inner, Last
<1>13. ASSUME NEW tag PROVE Has(p, tag) <=> Has(o, tag) \/ tag = b
  <2>1. 1..Len(p) = 1..Len(o) \cup {Len(o) + 1} BY <1>1, <1>7
  <2> QED BY <1>7, <2>1 DEF Has
<1>15. \A tag : Has(o, tag) => Under(tag, b) BY <1>4 DEF Has
<1> QED BY <1>5, <1>6, <1>11, <1>12, <1>13, <1>15

\* What is left when the innermost tag ends, and what it was in.
LEMMA NestedShrinks ==
  ASSUME NEW o, Nested(o), o # <<>>
  PROVE  /\ Nested(Front(o)) /\ Inner(o) \in AllTags /\ Inner(o) \in MayHold(Inner(Front(o)))
         /\ \A tag : Has(o, tag) <=> Has(Front(o), tag) \/ tag = Inner(o)
         /\ \A tag : Has(Front(o), tag) => Under(tag, Inner(o))
<1> DEFINE f == Front(o)  n == Len(o)
<1>1. o \in Seq(AllTags) BY DEF Nested
<1>2. /\ f \in Seq(AllTags) /\ Len(f) = n - 1 /\ \A i \in 1..n - 1 : f[i] = o[i]
      /\ n \in Nat \ {0} /\ Last(o) = o[n] /\ Last(o) \in AllTags
  BY <1>1, Shrinks
<1> HIDE DEF f, n
<1>3. Inner(o) = o[n] BY <1>2 DEF Inner
<1>4. /\ \A i \in 1..n - 1 : o[i + 1] \in MayHold(o[i])
      /\ \A i, j \in 1..n : i < j => Under(o[i], o[j])
      /\ o[1] \in BlockTags
  BY DEF Nested, n
<1>5. Nested(f)
  <2>1. f # <<>> => f[1] \in BlockTags
    <3>1. f # <<>> => 1 \in 1..n - 1 BY <1>2, EmptySeq
    <3> QED BY <1>2, <1>4, <3>1
  <2>2. ASSUME NEW i \in 1..Len(f) - 1 PROVE f[i + 1] \in MayHold(f[i])
    <3>1. i \in 1..n - 1 /\ i + 1 \in 1..n - 1 BY <1>2
    <3>2. o[i + 1] \in MayHold(o[i]) BY <1>4, <3>1
    <3> QED BY <1>2, <3>1, <3>2
  <2>3. ASSUME NEW i \in 1..Len(f), NEW j \in 1..Len(f), i < j PROVE Under(f[i], f[j])
    <3>1. i \in 1..n - 1 /\ j \in 1..n - 1 /\ i \in 1..n /\ j \in 1..n BY <1>2
    <3>2. Under(o[i], o[j]) BY <1>4, <2>3, <3>1
    <3> QED BY <1>2, <3>1, <3>2
  <2> QED BY <1>2, <2>1, <2>2, <2>3 DEF Nested
<1>6. Inner(o) \in MayHold(Inner(f))
  <2>1. CASE n = 1
    <3>1. f = <<>> BY <1>2, <2>1
    <3> QED BY <1>3, <1>4, <2>1, <3>1 DEF Inner, MayHold
  <2>2. CASE n # 1
    <3>1. n - 1 \in 1..n - 1 /\ n - 1 + 1 = n /\ f # <<>> BY <1>2, <2>2
    <3>2. o[n] \in MayHold(o[n - 1]) BY <1>4, <3>1
    <3>3. Inner(f) = f[n - 1] BY <1>2, <3>1 DEF Inner, Last
    <3>4. f[n - 1] = o[n - 1] BY <1>2, <3>1
    <3> QED BY <1>3, <3>2, <3>3, <3>4
  <2> QED BY <2>1, <2>2
<1>7. ASSUME NEW tag PROVE Has(o, tag) <=> Has(f, tag) \/ tag = Inner(o)
  <2>1. 1..n = 1..n - 1 \cup {n} BY <1>2
  <2>2. Has(o, tag) <=> \E i \in 1..n : o[i] = tag BY DEF Has, n
  <2>3. Has(f, tag) <=> \E i \in 1..n - 1 : o[i] = tag BY <1>2 DEF Has
  <2> QED BY <1>3, <2>1, <2>2, <2>3
<1>8. ASSUME NEW tag, Has(f, tag) PROVE Under(tag, Inner(o))
  <2>1. PICK i \in 1..n - 1 : o[i] = tag BY <1>2, <1>8 DEF Has
  <2>2. i \in 1..n /\ n \in 1..n /\ i < n BY <1>2
  <2>3. Under(o[i], o[n]) BY <1>4, <2>2
  <2> QED BY <1>3, <2>1, <2>3
<1> QED BY <1>2, <1>3, <1>5, <1>6, <1>7, <1>8 DEF f

\* A cell or a row is in a table.
LEMMA InTable ==
  ASSUME NEW o, Nested(o), NEW tag \in {"head", "row", "cell"}, Has(o, tag)
  PROVE  Has(o, "table")
<1>1. o \in Seq(AllTags) /\ Len(o) \in Nat BY DEF Nested
<1>2. ASSUME NEW i \in 1..Len(o), o[i] \in {"head", "row", "cell"}
      PROVE  i - 1 \in 1..Len(o) /\ o[i] \in MayHold(o[i - 1]) /\ o[i - 1] \in AllTags
  <2>1. i # 1
    <3>1. o # <<>> BY <1>1
    <3>2. o[1] \in BlockTags BY <3>1 DEF Nested
    <3> QED BY <1>2, <3>2 DEF BlockTags
  <2>2. PICK j \in 1..Len(o) - 1 : j = i - 1 /\ j + 1 = i /\ j \in 1..Len(o) BY <1>1, <2>1
  <2>3. o[j + 1] \in MayHold(o[j]) BY DEF Nested
  <2> QED BY <1>1, <2>2, <2>3
<1>3. ASSUME NEW a \in AllTags, NEW b \in MayHold(a)
      PROVE  /\ b = "cell" => a \in {"head", "row"}
             /\ b \in {"head", "row"} => a = "table"
  BY DEF AllTags, BlockTags, InlineTags, MayHold
<1>4. ASSUME NEW i \in 1..Len(o), o[i] \in {"head", "row"} PROVE Has(o, "table")
  BY <1>2, <1>3, <1>4 DEF Has
<1>5. PICK i \in 1..Len(o) : o[i] = tag BY DEF Has
<1>6. CASE tag = "cell"
  <2>1. i - 1 \in 1..Len(o) /\ o[i - 1] \in {"head", "row"} BY <1>2, <1>3, <1>5, <1>6
  <2> QED BY <1>4, <2>1
<1> QED BY <1>4, <1>5, <1>6

\* Where a line may have been left unfinished: a table finds one in an item only.
Writes(o) == Has(o, "item") \/ Has(o, "paragraph") \/ Has(o, "heading")

\* Text outside tables and code is in one of them.
LEMMA InLine ==
  ASSUME NEW o, Nested(o), o # <<>>, ~Has(o, "table"),
         Inner(o) \in {"paragraph", "heading", "cell", "item"} \cup InlineTags
  PROVE  Writes(o)
<1>1. o \in Seq(AllTags) /\ Len(o) \in Nat BY DEF Nested
<1>2. ~Has(o, "cell") BY InTable
<1>3. PICK n \in 1..Len(o) : o[n] = Inner(o)
  <2>1. Len(o) \in Nat \ {0} /\ Last(o) = o[Len(o)] BY <1>1, Shrinks
  <2>2. Len(o) \in 1..Len(o) BY <2>1
  <2> QED BY <2>1, <2>2 DEF Inner
<1>4. CASE Inner(o) \notin InlineTags BY <1>2, <1>3, <1>4 DEF Writes, Has
<1>5. CASE Inner(o) \in InlineTags
  <2> DEFINE T == {i \in 1..Len(o) : o[i] \in InlineTags}
  <2>1. T \in SUBSET Nat /\ T # {} BY <1>3, <1>5
  <2>2. PICK i \in T : \A j \in T : i <= j
    <3> HIDE DEF T
    <3> QED BY <1>1, <2>1, LeastUpTo
  <2>3. i # 1
    <3>1. o[1] \in BlockTags BY DEF Nested
    <3> QED BY <3>1 DEF BlockTags, InlineTags
  <2>4. PICK j \in 1..Len(o) - 1 : j = i - 1 /\ j + 1 = i /\ j \in 1..Len(o) BY <1>1, <2>3
  <2>5. o[j] \notin InlineTags BY <2>2, <2>4
  <2>6. o[i] \in MayHold(o[j]) /\ o[j] \in AllTags BY <1>1, <2>4 DEF Nested
  <2>7. o[i] \in InlineTags OBVIOUS
  <2>8. \A a \in AllTags \ InlineTags : \A b \in MayHold(a) \cap InlineTags :
          a \in {"item", "paragraph", "heading", "cell"}
    BY DEF AllTags, BlockTags, InlineTags, MayHold
  <2>9. o[j] \in {"item", "paragraph", "heading", "cell"} BY <2>5, <2>6, <2>7, <2>8
  <2> QED BY <1>2, <2>4, <2>9 DEF Writes, Has
<1> QED BY <1>4, <1>5

Lines == [lines : Seq(Seq(Spans)), spans : Seq(Spans),
          pending : BOOLEAN, needs : BOOLEAN, has : BOOLEAN]
LinesText(lines) == TextsOf(FlattenSeq(lines))
LineText(l) == LinesText(l.lines) \o TextsOf(l.spans)
SaysAs(m, l) == m \in Lines /\ LineText(m) = LineText(l)
\* What waits on the unfinished line does so still, or the line is finished.
Waits(m, l) == TextsOf(m.spans) \in {<<>>, TextsOf(l.spans)}

LEMMA NumbersJoined ==
  ASSUME NEW x \in Seq(Numbers), NEW y \in Seq(Numbers), NEW z \in Seq(Numbers)
  PROVE  /\ (x \o y) \o z = x \o (y \o z) /\ x \o y \in Seq(Numbers)
         /\ x \o <<>> = x /\ <<>> \o x = x
BY Concats

LEMMA LinesAre ==
  ASSUME NEW l \in Lines
  PROVE  /\ l.lines \in Seq(Seq(Spans)) /\ FlattenSeq(l.lines) \in Seq(Spans)
         /\ LinesText(l.lines) \in Seq(Numbers)
         /\ l.spans \in Seq(Spans) /\ TextsOf(l.spans) \in Seq(Numbers) /\ LineText(l) \in Seq(Numbers)
<1>1. l.lines \in Seq(Seq(Spans)) /\ l.spans \in Seq(Spans) BY DEF Lines
<1>2. FlattenSeq(l.lines) \in Seq(Spans) BY <1>1, FlattenIs
<1>3. LinesText(l.lines) \in Seq(Numbers) BY <1>2, TextsAre DEF LinesText
<1>4. TextsOf(l.spans) \in Seq(Numbers) BY <1>1, TextsAre
<1>5. LinesText(l.lines) \o TextsOf(l.spans) \in Seq(Numbers) BY <1>3, <1>4, ConcatProperties
<1> QED BY <1>1, <1>2, <1>3, <1>4, <1>5 DEF LineText

\* A line more says what is in it.
LEMMA LineMore ==
  ASSUME NEW lines \in Seq(Seq(Spans)), NEW spans \in Seq(Spans)
  PROVE  /\ Append(lines, spans) \in Seq(Seq(Spans))
         /\ LinesText(Append(lines, spans)) = LinesText(lines) \o TextsOf(spans)
<1>1. Append(lines, spans) \in Seq(Seq(Spans)) BY AppendProperties
<1>2. FlattenSeq(Append(lines, spans)) = FlattenSeq(lines) \o spans BY FlattenAppend
<1>3. PICK f \in Seq(Spans) : f = FlattenSeq(lines) BY FlattenIs
<1>4. TextsOf(f \o spans) = TextsOf(f) \o TextsOf(spans) BY TextsConcat
<1> QED BY <1>1, <1>2, <1>3, <1>4 DEF LinesText

LEMMA SpanMore ==
  ASSUME NEW l \in Lines, NEW x \in Spans
  PROVE  /\ x.text = 0 => SaysAs(push_span(l, x), l) /\ TextsOf(push_span(l, x).spans) = TextsOf(l.spans)
         /\ x.text # 0 => /\ push_span(l, x) \in Lines
                          /\ LineText(push_span(l, x)) = Append(LineText(l), x.text)
<1> DEFINE m == push_span(l, x)
<1>1. l.lines \in Seq(Seq(Spans)) /\ l.spans \in Seq(Spans) BY LinesAre
<1>2. Append(l.spans, x) \in Seq(Spans) BY <1>1, AppendProperties
<1>3. m.lines = l.lines /\ m.spans = Append(l.spans, x) BY DEF push_span, Lines
<1>4. m \in Lines BY <1>2 DEF push_span, Lines
<1>5. PICK s \in Seq(Spans) : s = l.spans BY <1>1
<1>6. TextsOf(Append(s, x)) = IF x.text = 0 THEN TextsOf(s) ELSE Append(TextsOf(s), x.text)
  BY TextsAppend
<1>7. PICK p \in Seq(Numbers), t \in Seq(Numbers) : p = LinesText(l.lines) /\ t = TextsOf(s)
  BY <1>5, LinesAre
<1>8. x.text \in Numbers BY DEF Spans, Numbers
<1>9. p \o Append(t, x.text) = Append(p \o t, x.text)
  <2>1. <<x.text>> \in Seq(Numbers) BY <1>8
  <2>2. PICK y \in Seq(Numbers) : y = <<x.text>> BY <2>1
  <2>3. Append(t, x.text) = t \o y BY <1>8, <2>2, AppendIsConcat
  <2>4. p \o t \in Seq(Numbers) BY ConcatProperties
  <2>7. PICK z \in Seq(Numbers), w \in Numbers : z = p \o t /\ w = x.text BY <1>8, <2>4
  <2>8. Append(z, w) = z \o <<w>> BY AppendIsConcat
  <2>5. Append(p \o t, x.text) = (p \o t) \o y BY <2>2, <2>7, <2>8
  <2>6. (p \o t) \o y = p \o (t \o y) BY NumbersJoined
  <2> QED BY <2>3, <2>5, <2>6
<1>10. LineText(l) = p \o t BY <1>5, <1>7 DEF LineText
<1> HIDE DEF m
<1>11. LineText(m) = p \o TextsOf(Append(s, x)) BY <1>3, <1>5, <1>7 DEF LineText
<1>12. x.text = 0 => LineText(m) = LineText(l) /\ TextsOf(m.spans) = TextsOf(l.spans)
  BY <1>3, <1>5, <1>6, <1>7, <1>10, <1>11
<1>13. x.text # 0 => LineText(m) = Append(LineText(l), x.text)
  BY <1>6, <1>7, <1>9, <1>10, <1>11
<1> QED BY <1>4, <1>12, <1>13 DEF SaysAs, m

\* The line that is begun becomes a line.
LEMMA LineEnds ==
  ASSUME NEW l \in Lines
  PROVE  /\ SaysAs(flush_code_line(l), l) /\ flush_code_line(l).spans = <<>>
         /\ SaysAs(flush_line(l), l) /\ flush_line(l).spans = <<>>
<1> DEFINE m == flush_code_line(l)
<1>1. l.lines \in Seq(Seq(Spans)) /\ l.spans \in Seq(Spans) BY LinesAre
<1>2. PICK b \in Seq(Seq(Spans)), s \in Seq(Spans) : b = l.lines /\ s = l.spans BY <1>1
<1>3. Append(b, s) \in Seq(Seq(Spans)) /\ LinesText(Append(b, s)) = LinesText(b) \o TextsOf(s)
  BY LineMore
<1>4. <<>> \in Seq(Spans) OBVIOUS
<1>5. m.lines = Append(b, s) /\ m.spans = <<>> BY <1>2 DEF flush_code_line, Lines
<1>6. m \in Lines BY <1>2, <1>3, <1>4 DEF flush_code_line, Lines
<1> HIDE DEF m
<1>7. LineText(m) = LinesText(Append(b, s)) \o <<>> BY <1>5, TextsEmpty DEF LineText
<1>8. PICK p \in Seq(Numbers) : p = LinesText(Append(b, s))
  <2>1. LinesText(m.lines) \in Seq(Numbers) BY <1>6, LinesAre
  <2> QED BY <1>5, <2>1
<1>9. p \o <<>> = p BY Concats
<1>10. LineText(m) = LineText(l) BY <1>2, <1>3, <1>7, <1>8, <1>9 DEF LineText
<1>11. SaysAs(m, l) /\ m.spans = <<>> BY <1>5, <1>6, <1>10 DEF SaysAs
<1>12. CASE l.spans = <<>>
  <2>1. flush_line(l) = l BY <1>12 DEF flush_line
  <2> QED BY <1>11, <1>12, <2>1 DEF SaysAs, m
<1>13. CASE l.spans # <<>>
  <2>1. flush_line(l) = flush_code_line(l) BY <1>13 DEF flush_line, flush_code_line
  <2> QED BY <1>11, <2>1 DEF m
<1> QED BY <1>12, <1>13

LEMMA BlankLine ==
  ASSUME NEW l \in Lines
  PROVE  SaysAs(push_blank_line(l), l) /\ push_blank_line(l).spans = l.spans
<1> DEFINE m == push_blank_line(l)
<1>1. l.lines \in Seq(Seq(Spans)) /\ l.spans \in Seq(Spans) BY LinesAre
<1>2. PICK b \in Seq(Seq(Spans)) : b = l.lines BY <1>1
<1>3. <<>> \in Seq(Spans) OBVIOUS
<1>4. /\ Append(b, <<>>) \in Seq(Seq(Spans))
      /\ LinesText(Append(b, <<>>)) = LinesText(b) \o TextsOf(<<>>)
  BY <1>3, LineMore
<1>5. m.lines = Append(b, <<>>) /\ m.spans = l.spans BY <1>2 DEF push_blank_line, Lines
<1>6. m \in Lines BY <1>2, <1>4 DEF push_blank_line, Lines
<1> HIDE DEF m
<1>7. PICK p \in Seq(Numbers) : p = LinesText(b) BY <1>2, LinesAre
<1>8. p \o <<>> = p BY Concats
<1>9. LineText(m) = LineText(l) BY <1>2, <1>4, <1>5, <1>7, <1>8, TextsEmpty DEF LineText
<1> QED BY <1>5, <1>6, <1>9 DEF SaysAs, m

\* What a line says does not hang on its flags.
LEMMA FlagsSayNothing ==
  ASSUME NEW l \in Lines, NEW f \in BOOLEAN
  PROVE  /\ SaysAs([l EXCEPT !.needs = f], l) /\ [l EXCEPT !.needs = f].spans = l.spans
         /\ SaysAs([l EXCEPT !.pending = f], l) /\ [l EXCEPT !.pending = f].spans = l.spans
<1>1. [l EXCEPT !.needs = f] \in Lines /\ [l EXCEPT !.pending = f] \in Lines BY DEF Lines
<1>2. /\ [l EXCEPT !.needs = f].lines = l.lines /\ [l EXCEPT !.needs = f].spans = l.spans
      /\ [l EXCEPT !.pending = f].lines = l.lines /\ [l EXCEPT !.pending = f].spans = l.spans
  BY DEF Lines
<1> QED BY <1>1, <1>2 DEF SaysAs, LineText

LEMMA BlankBefore ==
  ASSUME NEW l \in Lines
  PROVE  /\ SaysAs(ensure_blank_line_before_block(l), l)
         /\ ensure_blank_line_before_block(l).spans \in {<<>>, l.spans}
<1>1. CASE ~(l.needs /\ l.has)
  BY <1>1 DEF ensure_blank_line_before_block, SaysAs
<1>2. CASE l.needs /\ l.has
  <2>1. PICK m \in Lines : m = flush_line(l) /\ LineText(m) = LineText(l) /\ m.spans = <<>>
    BY LineEnds DEF SaysAs
  <2>2. PICK n \in Lines : n = push_blank_line(m) /\ LineText(n) = LineText(m) /\ n.spans = <<>>
    BY <2>1, BlankLine DEF SaysAs
  <2>3. PICK o \in Lines : o = [n EXCEPT !.needs = FALSE] /\ LineText(o) = LineText(n)
                           /\ o.spans = <<>>
    BY <2>2, FlagsSayNothing DEF SaysAs
  <2>4. ensure_blank_line_before_block(l) = o
    BY <1>2, <2>1, <2>2, <2>3 DEF ensure_blank_line_before_block
  <2> QED BY <2>1, <2>2, <2>3, <2>4 DEF SaysAs
<1> QED BY <1>1, <1>2

\* What the writer marks a line with says nothing.
Marks(n) == [i \in 1..n |-> Mark]

LEMMA MarksSayNothing ==
  ASSUME NEW n \in Nat
  PROVE  Marks(n) \in Seq(Spans) /\ TextsOf(Marks(n)) = <<>> /\ Mark \in Spans
<1>1. Mark \in Spans /\ Mark.text = 0 BY DEF Mark, Spans
<1>2. Marks(n) \in [1..n -> Spans] BY <1>1 DEF Marks
<1>3. PICK s \in Seq(Spans) : s = Marks(n) BY <1>2, SeqDef
<1>4. DOMAIN s = 1..Len(s) /\ DOMAIN s = 1..n BY <1>2, <1>3
<1>5. \A i \in 1..Len(s) : s[i].text = 0 BY <1>1, <1>3, <1>4 DEF Marks
<1> QED BY <1>1, <1>3, <1>5, TextsNothing

LEMMA Prefixed ==
  ASSUME NEW l \in Lines, mQuote \in Nat
  PROVE  SaysAs(emit_prefix_if_needed(l), l)
<1>1. CASE l.spans # <<>> BY <1>1 DEF emit_prefix_if_needed, SaysAs
<1>2. CASE l.spans = <<>>
  <2>1. PICK n \in Nat : n = mQuote + (IF mList # <<>> THEN 1 ELSE 0) OBVIOUS
  <2>2. emit_prefix_if_needed(l) = [l EXCEPT !.spans = Marks(n), !.pending = @ /\ mList = <<>>]
    BY <1>2, <2>1 DEF emit_prefix_if_needed, Marks
  <2>3. PICK s \in Seq(Spans) : s = Marks(n) /\ TextsOf(s) = <<>> BY MarksSayNothing
  <2> DEFINE m == emit_prefix_if_needed(l)
  <2>4. m.lines = l.lines /\ m.spans = s BY <2>2, <2>3 DEF Lines
  <2>5. m \in Lines BY <2>2, <2>3 DEF Lines
  <2> HIDE DEF m
  <2>6. LineText(m) = LineText(l) BY <1>2, <2>3, <2>4, TextsEmpty DEF LineText
  <2> QED BY <2>5, <2>6 DEF SaysAs, m
<1> QED BY <1>1, <1>2

LEMMA CodeFlushed ==
  ASSUME NEW l \in Lines, mQuote \in Nat, mBuffer \in Seq(Spans)
  PROVE  /\ flush_code_block(l) \in Lines
         /\ LineText(flush_code_block(l)) = LineText(l) \o TextsOf(mBuffer)
         /\ flush_code_block(l).spans = <<>>
<1>1. PICK p \in Lines : p = emit_prefix_if_needed(l) /\ LineText(p) = LineText(l)
  BY Prefixed DEF SaysAs
<1>2. PICK s \in Seq(Spans), b \in Seq(Spans) : s = p.spans /\ b = mBuffer BY LinesAre
<1>3. s \o b \in Seq(Spans) /\ TextsOf(s \o b) = TextsOf(s) \o TextsOf(b)
  BY ConcatProperties, TextsConcat
<1> DEFINE m == [p EXCEPT !.spans = @ \o mBuffer]
<1>4. m.lines = p.lines /\ m.spans = s \o b BY <1>2 DEF Lines
<1>5. m \in Lines BY <1>2, <1>3 DEF Lines
<1>6. flush_code_block(l) = flush_code_line(m) BY <1>1 DEF flush_code_block
<1> HIDE DEF m
<1>7. /\ flush_code_line(m) \in Lines /\ LineText(flush_code_line(m)) = LineText(m)
      /\ flush_code_line(m).spans = <<>>
  BY <1>5, LineEnds DEF SaysAs
<1>8. PICK x \in Seq(Numbers), y \in Seq(Numbers), z \in Seq(Numbers) :
        x = LinesText(p.lines) /\ y = TextsOf(s) /\ z = TextsOf(b)
  BY LinesAre, TextsAre
<1>9. (x \o y) \o z = x \o (y \o z) BY NumbersJoined
<1>10. LineText(m) = x \o (y \o z) BY <1>3, <1>4, <1>8 DEF LineText
<1>11. LineText(p) = x \o y BY <1>2, <1>8 DEF LineText
<1> QED BY <1>1, <1>2, <1>6, <1>7, <1>8, <1>9, <1>10, <1>11

-----------------------------------------------------------------------------
(* Tables.                                                                 *)

CellsText(row) == TextsOf(FlattenSeq(row))
RowsText(rows) == CellsText(FlattenSeq(rows))

LEMMA RowsAre ==
  ASSUME NEW rows \in Seq(Seq(Seq(Spans)))
  PROVE  /\ FlattenSeq(rows) \in Seq(Seq(Spans)) /\ FlattenSeq(FlattenSeq(rows)) \in Seq(Spans)
         /\ RowsText(rows) \in Seq(Numbers)
<1>1. PICK r \in Seq(Seq(Spans)) : r = FlattenSeq(rows) BY FlattenIs
<1>2. PICK s \in Seq(Spans) : s = FlattenSeq(r) BY FlattenIs
<1>3. TextsOf(s) \in Seq(Numbers) BY TextsAre
<1> QED BY <1>1, <1>2, <1>3 DEF RowsText, CellsText

LEMMA CellsAre ==
  ASSUME NEW row \in Seq(Seq(Spans)), NEW more \in Seq(Seq(Spans))
  PROVE  /\ FlattenSeq(row) \in Seq(Spans) /\ CellsText(row) \in Seq(Numbers)
         /\ CellsText(row \o more) = CellsText(row) \o CellsText(more)
         /\ \A cell \in Seq(Spans) : CellsText(Append(row, cell)) = CellsText(row) \o TextsOf(cell)
<1>1. PICK s \in Seq(Spans), t \in Seq(Spans) :
        s = FlattenSeq(row) /\ t = FlattenSeq(more)
  BY FlattenIs
<1>2. FlattenSeq(row \o more) = s \o t BY <1>1, FlattenConcat
<1>3. TextsOf(s \o t) = TextsOf(s) \o TextsOf(t) /\ TextsOf(s) \in Seq(Numbers)
  BY TextsConcat, TextsAre
<1>4. \A cell \in Seq(Spans) : LinesText(Append(row, cell)) = LinesText(row) \o TextsOf(cell)
  BY LineMore
<1> QED BY <1>1, <1>2, <1>3, <1>4 DEF CellsText, LinesText

LEMMA RowMore ==
  ASSUME NEW rows \in Seq(Seq(Seq(Spans))), NEW row \in Seq(Seq(Spans))
  PROVE  /\ Append(rows, row) \in Seq(Seq(Seq(Spans)))
         /\ RowsText(Append(rows, row)) = RowsText(rows) \o CellsText(row)
<1>1. Append(rows, row) \in Seq(Seq(Seq(Spans))) BY AppendProperties
<1>2. PICK f \in Seq(Seq(Spans)) : f = FlattenSeq(rows) BY FlattenIs
<1>3. FlattenSeq(Append(rows, row)) = f \o row BY <1>2, FlattenAppend
<1>4. CellsText(f \o row) = CellsText(f) \o CellsText(row) BY CellsAre
<1> QED BY <1>1, <1>2, <1>3, <1>4 DEF RowsText

TableLine(i) == Marks(mQuote + 1) \o FlattenSeq(mRows[i])
TableLines == [i \in 1..Len(mRows) |-> TableLine(i)]

LEMMA TableTold ==
  ASSUME mQuote \in Nat, mRows \in Seq(Seq(Seq(Spans)))
  PROVE  TableLines \in Seq(Seq(Spans)) /\ LinesText(TableLines) = RowsText(mRows)
<1> DEFINE N == Len(mRows)
<1>1. N \in Nat /\ \A i \in 1..N : mRows[i] \in Seq(Seq(Spans)) OBVIOUS
<1>2. PICK marks \in Seq(Spans) : marks = Marks(mQuote + 1) /\ TextsOf(marks) = <<>>
  <2>1. mQuote + 1 \in Nat OBVIOUS
  <2> QED BY <2>1, MarksSayNothing
<1>3. ASSUME NEW i \in 1..N
      PROVE  /\ TableLine(i) \in Seq(Spans)
             /\ TextsOf(TableLine(i)) = CellsText(mRows[i])
  <2>1. PICK r \in Seq(Seq(Spans)) : r = mRows[i] BY <1>1
  <2>2. PICK f \in Seq(Spans) : f = FlattenSeq(r) BY FlattenIs
  <2>3. TableLine(i) = marks \o f BY <1>2, <2>1, <2>2 DEF TableLine
  <2>4. marks \o f \in Seq(Spans) /\ TextsOf(marks \o f) = TextsOf(marks) \o TextsOf(f)
    BY ConcatProperties, TextsConcat
  <2>5. PICK t \in Seq(Numbers) : t = TextsOf(f) BY TextsAre
  <2>6. <<>> \o t = t BY Concats
  <2> QED BY <1>2, <2>1, <2>2, <2>3, <2>4, <2>5, <2>6 DEF CellsText
<1>4. PICK R \in Seq(Seq(Spans)) :
        R = TableLines /\ Len(R) = N /\ \A i \in 1..N : R[i] = TableLine(i)
  <2> DEFINE e == [i \in 1..N |-> TableLine(i)]
  <2>5. e = TableLines BY DEF TableLines
  <2> HIDE DEF N
  <2>6. \A i \in 1..N : TableLine(i) \in Seq(Spans) BY <1>3
  <2>1. e \in [1..N -> Seq(Spans)] BY <2>6
  <2> HIDE DEF e
  <2>2. TableLines \in Seq(Seq(Spans)) BY <1>1, <2>1, <2>5, SeqDef
  <2> USE DEF N
  <2>3. DOMAIN TableLines = 1..N /\ \A i \in 1..N : TableLines[i] = TableLine(i) BY DEF TableLines
  <2>4. Len(TableLines) = N BY <1>1, <2>2, <2>3
  <2> QED BY <2>2, <2>3, <2>4
<1>5. PICK f \in [0..N -> Seq(Spans)] : PutTogether(f, R) /\ FlattenSeq(R) = f[N]
  BY <1>4, FlattenRuns
<1>6. PICK g \in [0..N -> Seq(Seq(Spans))] : PutTogether(g, mRows) /\ FlattenSeq(mRows) = g[N]
  BY FlattenRuns
<1>7. /\ f[0] = <<>> /\ \A n \in 1..N : f[n] = f[n - 1] \o R[n]
      /\ g[0] = <<>> /\ \A n \in 1..N : g[n] = g[n - 1] \o mRows[n]
  BY <1>4, <1>5, <1>6 DEF PutTogether
<1> HIDE DEF N
<1> DEFINE S == {n \in 0..N : TextsOf(f[n]) = CellsText(g[n])}
<1>8. 0 \in S
  <2>1. TextsOf(<<>>) = CellsText(<<>>) BY FlattenEmpty DEF CellsText
  <2> QED BY <1>1, <1>7, <2>1
<1>9. ASSUME NEW n \in 0..N - 1, n \in S PROVE n + 1 \in S
  <2>1. PICK k \in 1..N : k = n + 1 /\ k - 1 = n /\ k \in 0..N /\ n \in 0..N BY <1>1
  <2>2. f[k] = f[k - 1] \o R[k] /\ g[k] = g[k - 1] \o mRows[k] BY <1>7
  <2>3. PICK x \in Seq(Spans), y \in Seq(Spans) : x = f[n] /\ y = R[k] BY <1>3, <1>4, <2>1
  <2>4. PICK u \in Seq(Seq(Spans)), v \in Seq(Seq(Spans)) : u = g[n] /\ v = mRows[k]
    BY <1>1, <2>1
  <2>5. TextsOf(x \o y) = TextsOf(x) \o TextsOf(y) BY TextsConcat
  <2>6. CellsText(u \o v) = CellsText(u) \o CellsText(v) BY CellsAre
  <2>7. TextsOf(y) = CellsText(v) BY <1>3, <1>4, <2>3, <2>4
  <2>8. TextsOf(x) = CellsText(u) BY <1>9, <2>3, <2>4
  <2>9. f[k] = x \o y /\ g[k] = u \o v BY <2>1, <2>2, <2>3, <2>4
  <2> QED BY <2>1, <2>5, <2>6, <2>7, <2>8, <2>9
<1> HIDE DEF S
<1>10. 0..N \subseteq S BY <1>1, <1>8, <1>9, InductionUpTo
<1>11. N \in S BY <1>1, <1>10
<1> QED BY <1>4, <1>5, <1>6, <1>11 DEF S, LinesText, RowsText

\* A table is told by its lines, ahead of the line that it interrupts.
LEMMA TableRendered ==
  ASSUME NEW l \in Lines, mQuote \in Nat, mRows \in Seq(Seq(Seq(Spans)))
  PROVE  /\ render_table(l) \in Lines /\ render_table(l).spans = l.spans
         /\ LineText(render_table(l)) =
              (LinesText(l.lines) \o RowsText(mRows)) \o TextsOf(l.spans)
<1>1. PICK x \in Seq(Numbers), y \in Seq(Numbers) : x = LinesText(l.lines) /\ y = RowsText(mRows)
  BY LinesAre, RowsAre
<1>2. x \o <<>> = x BY Concats
<1>3. LineText(l) = x \o TextsOf(l.spans) BY <1>1 DEF LineText
<1>4. DOMAIN mRows = 1..Len(mRows) OBVIOUS
<1>5. CASE \A i \in DOMAIN mRows : mRows[i] = <<>>
  <2>1. render_table(l) = l BY <1>5 DEF render_table
  <2>2. FlattenSeq(mRows) = <<>> BY <1>4, <1>5, FlattenNothing
  <2>3. RowsText(mRows) = <<>> BY <2>2, FlattenEmpty, TextsEmpty DEF RowsText, CellsText
  <2> QED BY <1>1, <1>2, <1>3, <2>1, <2>3
<1>6. CASE ~ \A i \in DOMAIN mRows : mRows[i] = <<>>
  <2>1. PICK b \in Seq(Seq(Spans)), t \in Seq(Seq(Spans)) :
          b = l.lines /\ t = TableLines /\ LinesText(t) = y
    BY <1>1, LinesAre, TableTold
  <2>2. TableLines = [i \in DOMAIN mRows |-> [j \in 1..mQuote + 1 |-> Mark] \o FlattenSeq(mRows[i])]
    BY <1>4 DEF TableLines, TableLine, Marks
  <2>3. render_table(l) = [l EXCEPT !.lines = b \o t, !.has = TRUE]
    BY <1>6, <2>1, <2>2 DEF render_table, Lines
  <2>4. b \o t \in Seq(Seq(Spans)) BY Concats
  <2>5. CellsText(b \o t) = CellsText(b) \o CellsText(t) BY CellsAre
  <2> DEFINE m == render_table(l)
  <2>6. m.lines = b \o t /\ m.spans = l.spans BY <2>3 DEF Lines
  <2>7. m \in Lines BY <2>3, <2>4 DEF Lines
  <2> HIDE DEF m
  <2>8. LinesText(m.lines) = x \o y BY <1>1, <2>1, <2>5, <2>6 DEF LinesText, CellsText
  <2>9. LineText(m) = (x \o y) \o TextsOf(l.spans) BY <2>6, <2>8 DEF LineText
  <2> QED BY <1>1, <2>6, <2>7, <2>9 DEF m
<1> QED BY <1>5, <1>6

\* What a tag may stand in.
LEMMA Holders ==
  ASSUME NEW a \in AllTags \cup {"document"}, NEW b \in MayHold(a)
  PROVE  /\ b \in AllTags
         /\ b \in {"head", "row"} => a = "table"
         /\ b = "cell" => a \in {"head", "row"}
         /\ b \in InlineTags => a \notin {"document", "table", "head", "row"}
         /\ b \in BlockTags => a \in {"document", "quote", "item"}
BY DEF AllTags, BlockTags, InlineTags, MayHold

LEMMA InnerIs ==
  ASSUME NEW o, Nested(o)
  PROVE  /\ Inner(o) \in AllTags \cup {"document"}
         /\ Inner(o) = "document" <=> o = <<>>
         /\ \A tag \in AllTags : Inner(o) = tag => Has(o, tag)
         /\ \A tag : Has(o, tag) => tag = Inner(o) \/ Under(tag, Inner(o))
<1>1. CASE o = <<>> BY <1>1 DEF Inner, Has, AllTags, BlockTags, InlineTags
<1>2. CASE o # <<>>
  <2>1. /\ Inner(o) \in AllTags /\ \A tag : Has(o, tag) <=> Has(Front(o), tag) \/ tag = Inner(o)
        /\ \A tag : Has(Front(o), tag) => Under(tag, Inner(o))
    BY <1>2, NestedShrinks
  <2>2. "document" \notin AllTags BY DEF AllTags, BlockTags, InlineTags
  <2> QED BY <1>2, <2>1, <2>2
<1> QED BY <1>1, <1>2

\* What was said: each text once, and in order but for what went ahead.
Orderly(texts, n, ahead) ==
  /\ texts \in Seq(Numbers) /\ ahead \subseteq (1..n) \X (1..n)
  /\ InOrderBut(ahead, texts, n)
Once(w, n) ==
  /\ w \in Seq(Numbers) /\ Len(w) = n /\ \A i \in 1..n : w[i] \in 1..n
  /\ \A i, j \in 1..n : w[i] = w[j] => i = j
  /\ \A x \in 1..n : \E i \in 1..n : w[i] = x
Ordered(w, n, ahead) ==
  \A i, j \in 1..n : i < j => (w[j] < w[i] <=> <<w[j], w[i]>> \in ahead)

LEMMA OrderlyIs ==
  ASSUME NEW w, NEW n \in Nat, NEW ahead
  PROVE  Orderly(w, n, ahead) <=>
           Once(w, n) /\ ahead \subseteq (1..n) \X (1..n) /\ Ordered(w, n, ahead)
<1>1. InOrderBut(ahead, w, n) <=> w \in Bijection(1..n, 1..n) /\ Ordered(w, n, ahead)
  BY DEF InOrderBut, Ordered
<1>2. ASSUME w \in Seq(Numbers)
      PROVE  w \in Bijection(1..n, 1..n) <=> Once(w, n)
  <2>1. /\ DOMAIN w = 1..Len(w) /\ Len(w) \in Nat
        /\ w = [i \in 1..Len(w) |-> w[i]]
    BY <1>2
  <2>2. ASSUME w \in Bijection(1..n, 1..n) PROVE Once(w, n)
    <3>1. w \in [1..n -> 1..n] BY <2>2 DEF Bijection, Injection
    <3>2. Len(w) = n
      <4>1. DOMAIN w = 1..n BY <3>1
      <4> QED BY <2>1, <4>1
    <3>3. \A i, j \in 1..n : w[i] = w[j] => i = j
      BY <2>2 DEF Bijection, Injection, IsInjective
    <3>4. \A x \in 1..n : \E i \in 1..n : w[i] = x BY <2>2 DEF Bijection, Surjection
    <3> QED BY <1>2, <3>1, <3>2, <3>3, <3>4 DEF Once
  <2>3. ASSUME Once(w, n) PROVE w \in Bijection(1..n, 1..n)
    <3>1. Len(w) = n /\ \A i \in 1..n : w[i] \in 1..n BY <2>3 DEF Once
    <3>2. w \in [1..n -> 1..n] BY <2>1, <3>1
    <3>3. \A i, j \in 1..n : w[i] = w[j] => i = j BY <2>3 DEF Once
    <3>4. \A x \in 1..n : \E i \in 1..n : w[i] = x BY <2>3 DEF Once
    <3> QED BY <3>2, <3>3, <3>4 DEF Bijection, Injection, Surjection, IsInjective
  <2> QED BY <2>2, <2>3
<1>3. Once(w, n) => w \in Seq(Numbers) BY DEF Once
<1> QED BY <1>1, <1>2, <1>3 DEF Orderly

LEMMA OneMore ==
  ASSUME NEW w, NEW n \in Nat, NEW ahead, Orderly(w, n, ahead)
  PROVE  Orderly(Append(w, n + 1), n + 1, ahead)
<1>1. Once(w, n) /\ ahead \subseteq (1..n) \X (1..n) /\ Ordered(w, n, ahead) BY OrderlyIs
<1>2. PICK x \in Numbers : x = n + 1 BY DEF Numbers
<1>3. PICK p \in Seq(Numbers) : p = Append(w, x) BY <1>1, AppendProperties DEF Once
<1>4. Len(p) = n + 1 /\ p[n + 1] = n + 1 /\ \A i \in 1..n : p[i] = w[i]
  BY <1>1, <1>2, <1>3, AppendProperties DEF Once
<1>5. \A i \in 1..n : w[i] \in 1..n BY <1>1 DEF Once
<1>6. \A i \in 1..n + 1 : i \in 1..n \/ i = n + 1 OBVIOUS
<1>7. Once(p, n + 1)
  <2>1. \A i \in 1..n + 1 : p[i] \in 1..n + 1 BY <1>4, <1>5, <1>6
  <2>2. ASSUME NEW i \in 1..n + 1, NEW j \in 1..n + 1, p[i] = p[j] PROVE i = j
    <3>1. CASE i \in 1..n /\ j \in 1..n BY <1>1, <1>4, <2>2, <3>1 DEF Once
    <3>2. CASE i \in 1..n /\ j = n + 1
      <4>1. p[i] \in 1..n /\ p[j] = n + 1 BY <1>4, <1>5, <3>2
      <4> QED BY <2>2, <4>1
    <3>3. CASE i = n + 1 /\ j \in 1..n
      <4>1. p[j] \in 1..n /\ p[i] = n + 1 BY <1>4, <1>5, <3>3
      <4> QED BY <2>2, <4>1
    <3> QED BY <1>6, <3>1, <3>2, <3>3
  <2>3. ASSUME NEW y \in 1..n + 1 PROVE \E i \in 1..n + 1 : p[i] = y
    <3>1. CASE y = n + 1 BY <1>4, <3>1
    <3>2. CASE y \in 1..n
      <4>1. PICK i \in 1..n : w[i] = y BY <1>1, <3>2 DEF Once
      <4>2. i \in 1..n + 1 /\ p[i] = y BY <1>4, <4>1
      <4> QED BY <4>2
    <3> QED BY <1>6, <3>1, <3>2
  <2> QED BY <1>4, <2>1, <2>2, <2>3 DEF Once
<1>8. ASSUME NEW i \in 1..n + 1, NEW j \in 1..n + 1, i < j
      PROVE  p[j] < p[i] <=> <<p[j], p[i]>> \in ahead
  <2>1. i \in 1..n BY <1>8
  <2>2. CASE j \in 1..n BY <1>1, <1>4, <1>8, <2>1, <2>2 DEF Ordered
  <2>3. CASE j = n + 1
    <3>1. p[i] \in 1..n /\ p[j] = n + 1 BY <1>4, <1>5, <2>1, <2>3
    <3>2. <<p[j], p[i]>> \notin ahead
      <4>1. p[j] \notin 1..n BY <3>1
      <4> QED BY <1>1, <4>1
    <3> QED BY <3>1, <3>2
  <2> QED BY <1>6, <2>2, <2>3
<1>9. ahead \subseteq (1..n + 1) \X (1..n + 1)
  <2>1. 1..n \subseteq 1..n + 1 OBVIOUS
  <2> QED BY <1>1, <2>1
<1>10. Ordered(p, n + 1, ahead) BY <1>8 DEF Ordered
<1>11. n + 1 \in Nat OBVIOUS
<1> QED BY <1>2, <1>3, <1>7, <1>9, <1>10, <1>11, OrderlyIs

\* What is last goes ahead of what is before it.
Before(x, y) == \A i \in 1..Len(x), j \in 1..Len(y) : x[i] < y[j]
Pairs(x, y) == ToSet(x) \X ToSet(y)

LEMMA PartsAre ==
  ASSUME NEW a \in Seq(Numbers), NEW b \in Seq(Numbers), NEW c \in Seq(Numbers)
  PROVE  LET w == (a \o b) \o c
         IN /\ w \in Seq(Numbers) /\ Len(w) = Len(a) + Len(b) + Len(c)
            /\ \A i \in 1..Len(a) : w[i] = a[i]
            /\ \A i \in 1..Len(b) : w[Len(a) + i] = b[i]
            /\ \A i \in 1..Len(c) : w[Len(a) + Len(b) + i] = c[i]
<1>1. PICK u \in Seq(Numbers) : u = a \o b BY ConcatProperties
<1>2. /\ Len(u) = Len(a) + Len(b) /\ \A i \in 1..Len(a) : u[i] = a[i]
      /\ \A i \in 1..Len(b) : u[Len(a) + i] = b[i]
  <2>1. Len(u) = Len(a) + Len(b) BY <1>1
  <2>2. \A i \in 1..Len(a) : u[i] = a[i] BY <1>1
  <2>3. \A i \in 1..Len(b) : u[Len(a) + i] = b[i] BY <1>1
  <2> QED BY <2>1, <2>2, <2>3
<1>3. PICK w \in Seq(Numbers) : w = u \o c BY ConcatProperties
<1>4. Len(w) = Len(u) + Len(c) BY <1>3
<1>5. \A i \in 1..Len(u) : w[i] = u[i] BY <1>3
<1>6. \A i \in 1..Len(c) : w[Len(u) + i] = c[i] BY <1>3
<1>7. \A i \in 1..Len(a) : i \in 1..Len(u) BY <1>2
<1>8. \A i \in 1..Len(b) : Len(a) + i \in 1..Len(u) BY <1>2
<1> QED BY <1>1, <1>2, <1>3, <1>4, <1>5, <1>6, <1>7, <1>8

LEMMA Rotated ==
  ASSUME NEW x \in Seq(Numbers), NEW s \in Seq(Numbers), NEW t \in Seq(Numbers),
         NEW n \in Nat, NEW ahead, Orderly((x \o s) \o t, n, ahead), Before(x \o s, t)
  PROVE  Orderly((x \o t) \o s, n, ahead \cup Pairs(s, t))
<1> DEFINE w == (x \o s) \o t
           v == (x \o t) \o s
           more == ahead \cup Pairs(s, t)
<1>1. PICK a \in Nat, b \in Nat, c \in Nat : a = Len(x) /\ b = Len(s) /\ c = Len(t) OBVIOUS
<1>2. /\ Once(w, n) /\ ahead \subseteq (1..n) \X (1..n) /\ Ordered(w, n, ahead) BY OrderlyIs
<1>3. /\ w \in Seq(Numbers) /\ Len(w) = a + b + c
      /\ \A i \in 1..a : w[i] = x[i]
      /\ \A i \in 1..b : w[a + i] = s[i]
      /\ \A i \in 1..c : w[a + b + i] = t[i]
  BY <1>1, PartsAre
<1>4. /\ v \in Seq(Numbers) /\ Len(v) = a + c + b
      /\ \A i \in 1..a : v[i] = x[i]
      /\ \A i \in 1..c : v[a + i] = t[i]
      /\ \A i \in 1..b : v[a + c + i] = s[i]
  BY <1>1, PartsAre
<1>5. n = a + b + c BY <1>2, <1>3 DEF Once
<1>6. \A i \in 1..b, j \in 1..c : s[i] < t[j]
  <2>1. \A i \in 1..b : a + i \in 1..Len(x \o s) /\ (x \o s)[a + i] = s[i] BY <1>1
  <2> QED BY <1>1, <2>1 DEF Before
<1> HIDE DEF w, v, more
\* Where in w stands what stands in v
<1> DEFINE At(i) == IF i <= a THEN i ELSE IF i <= a + c THEN i + b ELSE i - c
<1>7. ASSUME NEW i \in 1..n
      PROVE  /\ At(i) \in 1..n /\ v[i] = w[At(i)]
             /\ a < i /\ i <= a + c => i - a \in 1..c /\ v[i] = t[i - a]
             /\ i > a + c => i - (a + c) \in 1..b /\ v[i] = s[i - (a + c)]
  <2>1. CASE i <= a
    <3>1. i \in 1..a /\ At(i) = i BY <2>1
    <3>2. v[i] = x[i] /\ w[At(i)] = x[i] BY <1>3, <1>4, <3>1
    <3> QED BY <2>1, <3>1, <3>2
  <2>2. CASE a < i /\ i <= a + c
    <3>1. PICK k \in 1..c : k = i - a BY <2>2
    <3>2. i = a + k /\ At(i) = a + b + k /\ a + b + k \in 1..n BY <1>5, <2>2, <3>1
    <3>3. v[i] = t[k] /\ w[At(i)] = t[k] BY <1>3, <1>4, <3>2
    <3>4. i - a \in 1..c /\ t[i - a] = t[k] /\ ~(i > a + c) BY <2>2, <3>1
    <3>5. At(i) \in 1..n /\ v[i] = w[At(i)] BY <3>2, <3>3
    <3> HIDE DEF At
    <3> QED BY <3>3, <3>4, <3>5
  <2>3. CASE i > a + c
    <3>1. PICK k \in 1..b : k = i - (a + c) BY <1>5, <2>3
    <3>2. i = a + c + k /\ At(i) = a + k BY <2>3, <3>1
    <3> QED BY <1>3, <1>4, <1>5, <2>3, <3>1, <3>2
  <2> QED BY <2>1, <2>2, <2>3
<1>8. \A i, j \in 1..n : At(i) = At(j) => i = j BY <1>5
<1>9. \A k \in 1..n : \E i \in 1..n : At(i) = k
  <2>1. SUFFICES ASSUME NEW k \in 1..n PROVE \E i \in 1..n : At(i) = k OBVIOUS
  <2>2. CASE k <= a BY <2>2
  <2>3. CASE a < k /\ k <= a + b
    <3>1. k + c \in 1..n /\ At(k + c) = k BY <1>5, <2>3
    <3> QED BY <3>1
  <2>4. CASE k > a + b
    <3>1. k - b \in 1..n /\ At(k - b) = k BY <1>5, <2>4
    <3> QED BY <3>1
  <2> QED BY <2>2, <2>3, <2>4
<1>10. \A i, j \in 1..n : i < j =>
         At(i) < At(j) \/ (a < i /\ i <= a + c /\ j > a + c)
  BY <1>5
<1>11. \A i, j \in 1..n : a < i /\ i <= a + c /\ j > a + c => At(j) < At(i)
  BY <1>5
<1> HIDE DEF At
<1>12. Once(v, n)
  <2>1. \A k \in 1..n : w[k] \in 1..n BY <1>2 DEF Once
  <2>2. \A i \in 1..n : v[i] \in 1..n BY <1>7, <2>1
  <2>3. ASSUME NEW i \in 1..n, NEW j \in 1..n, v[i] = v[j] PROVE i = j
    <3>1. w[At(i)] = w[At(j)] BY <1>7, <2>3
    <3>2. At(i) = At(j) BY <1>2, <1>7, <3>1 DEF Once
    <3> QED BY <1>8, <3>2
  <2>4. ASSUME NEW y \in 1..n PROVE \E i \in 1..n : v[i] = y
    <3>1. PICK k \in 1..n : w[k] = y BY <1>2 DEF Once
    <3>2. PICK i \in 1..n : At(i) = k BY <1>9
    <3> QED BY <1>7, <3>1, <3>2
  <2> QED BY <1>4, <1>5, <2>2, <2>3, <2>4 DEF Once
\* What is paired stands in the two parts.
<1>13. /\ ToSet(s) = {s[k] : k \in 1..b} /\ ToSet(t) = {t[k] : k \in 1..c} BY <1>1 DEF ToSet
<1>14. Pairs(s, t) \subseteq (1..n) \X (1..n)
  <2>1. \A k \in 1..b : s[k] \in 1..n
    <3>1. \A k \in 1..b : a + k \in 1..n BY <1>5
    <3> QED BY <1>2, <1>3, <3>1 DEF Once
  <2>2. \A k \in 1..c : t[k] \in 1..n
    <3>1. \A k \in 1..c : a + b + k \in 1..n BY <1>5
    <3> QED BY <1>2, <1>3, <3>1 DEF Once
  <2> QED BY <1>13, <2>1, <2>2 DEF Pairs
<1>15. ASSUME NEW i \in 1..n, NEW j \in 1..n, <<v[j], v[i]>> \in Pairs(s, t)
       PROVE  At(j) < At(i)
  <2>1. v[j] \in ToSet(s) /\ v[i] \in ToSet(t) BY <1>15 DEF Pairs
  <2>2. PICK k \in 1..b : v[j] = s[k] BY <1>13, <2>1
  <2>3. PICK m \in 1..c : v[i] = t[m] BY <1>13, <2>1
  <2>4. a + k \in 1..n /\ a + b + m \in 1..n /\ a + k < a + b + m BY <1>5
  <2>5. At(j) = a + k
    <3>1. w[At(j)] = w[a + k] BY <1>3, <1>7, <2>2
    <3> QED BY <1>2, <1>7, <2>4, <3>1 DEF Once
  <2>6. At(i) = a + b + m
    <3>1. w[At(i)] = w[a + b + m] BY <1>3, <1>7, <2>3
    <3> QED BY <1>2, <1>7, <2>4, <3>1 DEF Once
  <2> QED BY <2>4, <2>5, <2>6
<1>16. ASSUME NEW i \in 1..n, NEW j \in 1..n, i < j
       PROVE  v[j] < v[i] <=> <<v[j], v[i]>> \in more
  <2>1. CASE At(i) < At(j)
    <3>1. w[At(j)] < w[At(i)] <=> <<w[At(j)], w[At(i)]>> \in ahead
      BY <1>2, <1>7, <2>1 DEF Ordered
    <3>2. v[j] < v[i] <=> <<v[j], v[i]>> \in ahead BY <1>7, <3>1
    <3>3. ~(At(j) < At(i))
      <4>1. At(i) \in 1..n /\ At(j) \in 1..n BY <1>7
      <4> QED BY <2>1, <4>1
    <3>4. <<v[j], v[i]>> \notin Pairs(s, t) BY <1>15, <3>3
    <3> QED BY <3>2, <3>4 DEF more
  <2>2. CASE a < i /\ i <= a + c /\ j > a + c
    <3>1. PICK m \in 1..c : v[i] = t[m] BY <1>7, <2>2
    <3>2. PICK k \in 1..b : v[j] = s[k] BY <1>7, <2>2
    <3>3. v[j] < v[i] BY <1>6, <3>1, <3>2
    <3>4. v[j] \in ToSet(s) /\ v[i] \in ToSet(t) BY <1>13, <3>1, <3>2
    <3>5. <<v[j], v[i]>> \in Pairs(s, t) BY <3>4 DEF Pairs
    <3> QED BY <3>3, <3>5 DEF more
  <2> QED BY <1>10, <1>16, <2>1, <2>2
<1>17. Ordered(v, n, more) BY <1>16 DEF Ordered
<1>18. more \subseteq (1..n) \X (1..n) BY <1>2, <1>14 DEF more
<1> QED BY <1>12, <1>17, <1>18, OrderlyIs DEF v, more

\* What was said, as the page will say it, and where a table is open: it is the last of it.
Tells(lines, table, code, n, ahead) ==
  Orderly((lines \o table) \o code, n, ahead) /\ Before(lines, table)

Joined(a, b) == a \o b
Numberings == Seq(Numbers)

LEMMA JoinedIs ==
  /\ <<>> \in Numberings
  /\ \A a \in Numberings : Joined(a, <<>>) = a /\ Joined(<<>>, a) = a
  /\ \A a, b \in Numberings : Joined(a, b) \in Numberings
  /\ \A a, b, c \in Numberings : Joined(Joined(a, b), c) = Joined(a, Joined(b, c))
<1>1. <<>> \in Seq(Numbers) OBVIOUS
<1> QED BY <1>1, NumbersJoined DEF Joined, Numberings

LEMMA AppendJoined ==
  ASSUME NEW n \in Nat
  PROVE  \E t \in Numberings : \A a \in Numberings : Append(a, n + 1) = Joined(a, t)
<1>1. PICK m \in Numbers : m = n + 1 BY DEF Numbers
<1>2. <<m>> \in Seq(Numbers) OBVIOUS
<1>3. \A a \in Seq(Numbers) : Append(a, m) = a \o <<m>> BY AppendIsConcat
<1> QED BY <1>1, <1>2, <1>3 DEF Joined, Numberings

LEMMA Telling ==
  ASSUME NEW x \in Numberings, NEW y \in Numberings, NEW z \in Numberings, NEW n \in Nat,
         NEW ahead, Tells(x, y, z, n, ahead)
  PROVE  /\ Tells(x, y, Append(z, n + 1), n + 1, ahead)
         /\ z = <<>> => Tells(x, Append(y, n + 1), z, n + 1, ahead)
         /\ y = <<>> /\ z = <<>> => Tells(Append(x, n + 1), y, z, n + 1, ahead)
         /\ y = <<>> => Tells(x \o z, y, <<>>, n, ahead)
<1>1. \A a, b, c, k : Tells(a, b, c, k, ahead) <=>
                       Orderly(Joined(Joined(a, b), c), k, ahead) /\ Before(a, b)
  BY DEF Tells, Joined
<1>2. PICK t \in Numberings : \A a \in Numberings : Append(a, n + 1) = Joined(a, t)
  BY AppendJoined
<1>3. \A a \in Numberings : Orderly(a, n, ahead) => Orderly(Joined(a, t), n + 1, ahead)
  BY <1>2, OneMore
<1>4. PICK w \in Numberings : w = Joined(x, y) BY JoinedIs
<1>5. PICK s \in Numberings : s = Joined(w, z) BY JoinedIs
<1>6. Orderly(s, n, ahead) /\ Orderly(Joined(s, t), n + 1, ahead) /\ Before(x, y)
  BY <1>1, <1>3, <1>4, <1>5
<1>7. Tells(x, y, Append(z, n + 1), n + 1, ahead)
  <2>1. Joined(w, Joined(z, t)) = Joined(s, t) BY <1>5, JoinedIs
  <2> QED BY <1>1, <1>2, <1>4, <1>6, <2>1
<1>8. ASSUME z = <<>> PROVE Tells(x, Append(y, n + 1), z, n + 1, ahead)
  <2>1. s = w BY <1>5, <1>8, JoinedIs
  <2>2. Joined(x, Joined(y, t)) = Joined(w, t) BY <1>4, JoinedIs
  <2>3. Joined(Joined(w, t), <<>>) = Joined(w, t) BY JoinedIs
  <2>4. Before(x, Append(y, n + 1))
    <3>1. x \in Seq(Numbers) /\ y \in Seq(Numbers) /\ z \in Seq(Numbers) BY DEF Numberings
    <3>2. /\ s = (x \o y) \o z /\ Len(s) = Len(x) + Len(y) + Len(z)
          /\ \A i \in 1..Len(x) : s[i] = x[i]
      BY <1>4, <1>5, <3>1, PartsAre DEF Joined
    <3>3. Len(s) = n /\ \A i \in 1..n : s[i] \in 1..n BY <1>6, OrderlyIs DEF Once
    <3>4. \A i \in 1..Len(x) : i \in 1..n BY <3>1, <3>2, <3>3
    <3>5. \A i \in 1..Len(x) : x[i] \in 1..n BY <3>2, <3>3, <3>4
    <3>6. n + 1 \in Numbers BY DEF Numbers
    <3>7. PICK v \in Numbers : v = n + 1 BY <3>6
    <3>8. PICK u \in Seq(Numbers) : u = Append(y, v) BY <3>1, AppendProperties
    <3>9. Len(u) = Len(y) + 1 /\ u[Len(y) + 1] = v /\ \A j \in 1..Len(y) : u[j] = y[j]
      BY <3>1, <3>8, AppendProperties
    <3>10. ASSUME NEW i \in 1..Len(x), NEW j \in 1..Len(u) PROVE x[i] < u[j]
      <4>1. CASE j = Len(y) + 1 BY <3>5, <3>7, <3>9, <4>1
      <4>2. CASE j # Len(y) + 1
        <5>1. j \in 1..Len(y) BY <3>1, <3>9, <4>2
        <5> QED BY <1>6, <3>9, <5>1 DEF Before
      <4> QED BY <4>1, <4>2
    <3> QED BY <3>7, <3>8, <3>10 DEF Before
  <2> QED BY <1>1, <1>2, <1>6, <1>8, <2>1, <2>2, <2>3, <2>4
<1>9. \A a : Before(a, <<>>) BY DEF Before
<1>10. ASSUME y = <<>>, z = <<>> PROVE Tells(Append(x, n + 1), y, z, n + 1, ahead)
  <2>1. w = x /\ s = x BY <1>4, <1>5, <1>10, JoinedIs
  <2>2. PICK u \in Numberings : u = Joined(x, t) BY JoinedIs
  <2>3. Joined(Joined(u, <<>>), <<>>) = u BY JoinedIs
  <2> QED BY <1>1, <1>2, <1>6, <1>9, <1>10, <2>1, <2>2, <2>3
<1>11. ASSUME y = <<>> PROVE Tells(Joined(x, z), y, <<>>, n, ahead)
  <2>1. w = x BY <1>4, <1>11, JoinedIs
  <2>2. Joined(Joined(s, <<>>), <<>>) = s BY JoinedIs
  <2> QED BY <1>1, <1>5, <1>6, <1>9, <1>11, <2>1, <2>2
<1> QED BY <1>7, <1>8, <1>10, <1>11 DEF Joined

\* The table goes ahead of the line that it interrupts.
LEMMA TableTells ==
  ASSUME NEW x \in Numberings, NEW s \in Numberings, NEW t \in Numberings, NEW n \in Nat,
         NEW ahead, Tells(x \o s, t, <<>>, n, ahead)
  PROVE  Tells((x \o t) \o s, <<>>, <<>>, n, ahead \cup Pairs(s, t))
<1>1. x \in Seq(Numbers) /\ s \in Seq(Numbers) /\ t \in Seq(Numbers) BY DEF Numberings
<1>2. \A a \in Numberings : Joined(a, <<>>) = a BY JoinedIs
<1>3. Joined(Joined(x, s), t) \in Numberings /\ Joined(Joined(x, t), s) \in Numberings
  BY JoinedIs
<1>4. Orderly((x \o s) \o t, n, ahead) /\ Before(x \o s, t)
  BY <1>2, <1>3 DEF Tells, Joined
<1>5. Orderly((x \o t) \o s, n, ahead \cup Pairs(s, t)) BY <1>1, <1>4, Rotated
<1>6. (((x \o t) \o s) \o <<>>) \o <<>> = (x \o t) \o s BY <1>2, <1>3 DEF Joined
<1>7. Before((x \o t) \o s, <<>>) BY DEF Before
<1> QED BY <1>5, <1>6, <1>7 DEF Tells

TableText(o, rows, row, cell) ==
  IF Has(o, "table") THEN RowsText(rows) \o (CellsText(row) \o TextsOf(cell)) ELSE <<>>

\* What is held back is where its part is open, and the page tells of n texts.
Held(o, l, rows, row, cell, buffer) ==
  /\ l \in Lines /\ rows \in Seq(Seq(Seq(Spans))) /\ row \in Seq(Seq(Spans))
  /\ cell \in Seq(Spans) /\ buffer \in Seq(Spans)
  /\ buffer # <<>> => Has(o, "code")
  /\ cell # <<>> => Has(o, "table") /\ Inner(o) \notin {"table", "head", "row"}
  /\ row # <<>> => Has(o, "table") /\ Inner(o) # "table"
  /\ rows # <<>> => ~Has(o, "head")
  /\ TextsOf(l.spans) # <<>> => Writes(o)
TextState(o, l, rows, row, cell, buffer, n, ahead) ==
  /\ Held(o, l, rows, row, cell, buffer) /\ n \in Nat
  /\ Tells(LineText(l), TableText(o, rows, row, cell), TextsOf(buffer), n, ahead)

LEMMA TextsKnown ==
  ASSUME NEW o, NEW l, NEW rows, NEW row, NEW cell, NEW buffer, Held(o, l, rows, row, cell, buffer)
  PROVE  /\ LineText(l) \in Seq(Numbers) /\ TextsOf(buffer) \in Seq(Numbers)
         /\ RowsText(rows) \in Seq(Numbers) /\ CellsText(row) \in Seq(Numbers)
         /\ TextsOf(cell) \in Seq(Numbers) /\ TableText(o, rows, row, cell) \in Seq(Numbers)
<1>1. LineText(l) \in Seq(Numbers) /\ RowsText(rows) \in Seq(Numbers) BY LinesAre, RowsAre DEF Held
<1>2. CellsText(row) \in Seq(Numbers) BY CellsAre DEF Held
<1>3. TextsOf(cell) \in Seq(Numbers) /\ TextsOf(buffer) \in Seq(Numbers) BY TextsAre DEF Held
<1>4. PICK a \in Seq(Numbers), b \in Seq(Numbers), c \in Seq(Numbers) :
        a = RowsText(rows) /\ b = CellsText(row) /\ c = TextsOf(cell)
  BY <1>1, <1>2, <1>3
<1>5. b \o c \in Seq(Numbers) BY NumbersJoined
<1>6. a \o (b \o c) \in Seq(Numbers) BY <1>5, NumbersJoined
<1>7. <<>> \in Seq(Numbers) OBVIOUS
<1> QED BY <1>1, <1>2, <1>3, <1>4, <1>6, <1>7 DEF TableText

\* Nothing is in a table that has just begun.
LEMMA NothingTold ==
  /\ TextsOf(<<>>) = <<>> /\ CellsText(<<>>) = <<>> /\ RowsText(<<>>) = <<>>
  /\ \A o : TableText(o, <<>>, <<>>, <<>>) = <<>>
<1>1. TextsOf(<<>>) = <<>> /\ CellsText(<<>>) = <<>> /\ RowsText(<<>>) = <<>>
  BY FlattenEmpty, TextsEmpty DEF CellsText, RowsText
<1>2. <<>> \o (<<>> \o <<>>) = <<>> OBVIOUS
<1> QED BY <1>1, <1>2 DEF TableText

LEMMA LinesTold ==
  ASSUME NEW o, NEW l, NEW rows, NEW row, NEW cell, NEW buffer, NEW n, NEW ahead, NEW m,
         TextState(o, l, rows, row, cell, buffer, n, ahead), SaysAs(m, l), Waits(m, l)
  PROVE  TextState(o, m, rows, row, cell, buffer, n, ahead)
BY DEF TextState, Held, SaysAs, Waits

LEMMA TagStarts ==
  ASSUME NEW o, NEW l, NEW rows, NEW row, NEW cell, NEW buffer, NEW n, NEW ahead, NEW m,
         TextState(o, l, rows, row, cell, buffer, n, ahead), Nested(o), NEW b \in MayHold(Inner(o)),
         SaysAs(m, l), Waits(m, l), b = "head" => rows = <<>>
  PROVE  TextState(Append(o, b), m, IF b = "table" THEN <<>> ELSE rows,
                   IF b \in {"head", "row"} THEN <<>> ELSE row,
                   IF b = "cell" THEN <<>> ELSE cell,
                   IF b = "code" THEN <<>> ELSE buffer, n, ahead)
<1>1. PICK p : p = Append(o, b) OBVIOUS
<1>2. /\ Inner(p) = b /\ \A tag : Has(p, tag) <=> Has(o, tag) \/ tag = b
      /\ \A tag : Has(o, tag) => Under(tag, b)
  BY <1>1, NestedGrows
<1>3. Inner(o) \in AllTags \cup {"document"} BY InnerIs
<1>4. /\ b \in AllTags
      /\ b \in {"head", "row"} => Inner(o) = "table"
      /\ b = "cell" => Inner(o) \in {"head", "row"}
  BY <1>3, Holders
<1>5. Has(o, "table") => b \in {"head", "row", "cell"} \cup InlineTags BY <1>2 DEF Under, Cells
<1>6. ~Has(o, "code") BY <1>2 DEF Under
<1>7. PICK rows2, row2 : /\ rows2 = IF b = "table" THEN <<>> ELSE rows
                         /\ row2 = IF b \in {"head", "row"} THEN <<>> ELSE row
  OBVIOUS
<1>8. PICK cell2, buffer2 : /\ cell2 = IF b = "cell" THEN <<>> ELSE cell
                            /\ buffer2 = IF b = "code" THEN <<>> ELSE buffer
  OBVIOUS
<1>9. Held(o, l, rows, row, cell, buffer) BY DEF TextState
<1>10. buffer = <<>> /\ buffer2 = <<>> BY <1>6, <1>8, <1>9 DEF Held
<1>11. ~Has(o, "table") => row = <<>> /\ cell = <<>> BY <1>9 DEF Held
<1>12. /\ b \in {"head", "row"} => row = <<>>
       /\ b = "cell" => cell = <<>>
  <2>1. row # <<>> => Inner(o) # "table" BY <1>9 DEF Held
  <2>2. cell # <<>> => Inner(o) \notin {"head", "row"} BY <1>9 DEF Held
  <2> QED BY <1>4, <2>1, <2>2
<1>13. row2 = row /\ cell2 = cell BY <1>7, <1>8, <1>12
<1>14. b \in {"head", "row", "cell"} \cup InlineTags => b # "table" /\ b # "code" BY DEF InlineTags
<1>15. Held(p, m, rows2, row2, cell2, buffer2)
  <2>1. rows2 \in Seq(Seq(Seq(Spans)))
    <3>1. <<>> \in Seq(Seq(Seq(Spans))) OBVIOUS
    <3> QED BY <1>7, <1>9, <3>1 DEF Held
  <2>2. /\ m \in Lines /\ row2 \in Seq(Seq(Spans)) /\ cell2 \in Seq(Spans)
        /\ buffer2 \in Seq(Spans)
    BY <1>9, <1>10, <1>13 DEF Held, SaysAs
  <2>3. cell2 # <<>> => Has(p, "table") /\ Inner(p) \notin {"table", "head", "row"}
    <3>1. SUFFICES ASSUME cell # <<>> PROVE Has(p, "table") /\ b \notin {"table", "head", "row"}
      BY <1>2, <1>13
    <3>2. Has(o, "table") /\ Inner(o) # "table" BY <1>9, <3>1 DEF Held
    <3>3. b # "table" BY <1>5, <1>14, <3>2
    <3>4. b # "head" /\ b # "row" BY <1>4, <3>2
    <3> QED BY <1>2, <3>2, <3>3, <3>4
  <2>4. row2 # <<>> => Has(p, "table") /\ Inner(p) # "table"
    <3>1. SUFFICES ASSUME row # <<>> PROVE Has(p, "table") /\ b # "table" BY <1>2, <1>13
    <3>2. Has(o, "table") BY <1>9, <3>1 DEF Held
    <3> QED BY <1>2, <1>5, <1>14, <3>2
  <2>5. rows2 # <<>> => ~Has(p, "head") BY <1>2, <1>7, <1>9 DEF Held
  <2>6. TextsOf(m.spans) # <<>> => Writes(p) BY <1>2, <1>9 DEF Held, Waits, Writes
  <2> QED BY <1>10, <2>1, <2>2, <2>3, <2>4, <2>5, <2>6 DEF Held
<1>16. TableText(p, rows2, row2, cell2) = TableText(o, rows, row, cell)
  <2>1. CASE Has(o, "table")
    <3>1. b # "table" /\ Has(p, "table") BY <1>2, <1>5, <1>14, <2>1
    <3> QED BY <1>7, <1>13, <2>1, <3>1 DEF TableText
  <2>2. CASE ~Has(o, "table") /\ b = "table"
    <3>1. rows2 = <<>> /\ row2 = <<>> /\ cell2 = <<>> BY <1>7, <1>11, <1>13, <2>2
    <3>2. TableText(o, rows, row, cell) = <<>> BY <2>2 DEF TableText
    <3> QED BY <3>1, <3>2, NothingTold
  <2>3. CASE ~Has(o, "table") /\ b # "table"
    <3>1. ~Has(p, "table") BY <1>2, <2>3
    <3> QED BY <2>3, <3>1 DEF TableText
  <2> QED BY <2>1, <2>2, <2>3
<1>17. TextState(p, m, rows2, row2, cell2, buffer2, n, ahead)
  BY <1>10, <1>15, <1>16 DEF TextState, SaysAs
<1> QED BY <1>1, <1>7, <1>8, <1>17

\* When a tag ends that holds nothing back.
LEMMA PlainEnds ==
  ASSUME NEW o, NEW l, NEW rows, NEW row, NEW cell, NEW buffer, NEW n, NEW ahead, NEW m,
         TextState(o, l, rows, row, cell, buffer, n, ahead), Nested(o), o # <<>>,
         Inner(o) \notin {"table", "head", "row", "cell", "code"}, SaysAs(m, l),
         TextsOf(m.spans) = <<>> \/ (Inner(o) \in InlineTags /\ Waits(m, l))
  PROVE  TextState(Front(o), m, rows, row, cell, buffer, n, ahead)
<1>1. PICK f : f = Front(o) OBVIOUS
<1>2. /\ Nested(f) /\ Inner(o) \in MayHold(Inner(f))
      /\ \A tag : Has(o, tag) <=> Has(f, tag) \/ tag = Inner(o)
      /\ \A tag : Has(f, tag) => Under(tag, Inner(o))
  BY <1>1, NestedShrinks
<1>3. Inner(f) \in AllTags \cup {"document"} BY <1>2, InnerIs
<1>4. Inner(o) \in InlineTags => Inner(f) \notin {"document", "table", "head", "row"}
  BY <1>2, <1>3, Holders
<1>5. Has(f, "table") => Inner(o) \in InlineTags BY <1>2 DEF Under, Cells
<1>6. \A tag \in {"table", "head", "row", "cell", "code"} : Has(f, tag) <=> Has(o, tag) BY <1>2
<1>7. Held(o, l, rows, row, cell, buffer) BY DEF TextState
<1>8. Has(o, "table") => Inner(f) \notin {"table", "head", "row"} BY <1>4, <1>5, <1>6
<1>9. Held(f, m, rows, row, cell, buffer)
  <2>1. cell # <<>> => Has(f, "table") /\ Inner(f) \notin {"table", "head", "row"}
    BY <1>6, <1>7, <1>8 DEF Held
  <2>2. row # <<>> => Has(f, "table") /\ Inner(f) # "table" BY <1>6, <1>7, <1>8 DEF Held
  <2>3. buffer # <<>> => Has(f, "code") BY <1>6, <1>7 DEF Held
  <2>4. rows # <<>> => ~Has(f, "head") BY <1>6, <1>7 DEF Held
  <2>5. TextsOf(m.spans) # <<>> => Writes(f)
    <3>1. SUFFICES ASSUME TextsOf(m.spans) # <<>> PROVE Writes(f) OBVIOUS
    <3>2. Inner(o) \in InlineTags /\ TextsOf(l.spans) # <<>> BY <3>1 DEF Waits
    <3>3. Writes(o) BY <1>7, <3>2 DEF Held
    <3>4. Inner(o) \notin {"item", "paragraph", "heading"} BY <3>2 DEF InlineTags
    <3> QED BY <1>2, <3>3, <3>4 DEF Writes
  <2>6. m \in Lines BY DEF SaysAs
  <2> QED BY <1>7, <2>1, <2>2, <2>3, <2>4, <2>5, <2>6 DEF Held
<1>10. TableText(f, rows, row, cell) = TableText(o, rows, row, cell) BY <1>6 DEF TableText
<1>11. TextState(f, m, rows, row, cell, buffer, n, ahead) BY <1>9, <1>10 DEF TextState, SaysAs
<1> QED BY <1>1, <1>11

\* The text that follows a link outside a table.
LEMMA LinkEnds ==
  ASSUME NEW o, NEW l, NEW rows, NEW row, NEW cell, NEW buffer, NEW n, NEW ahead, NEW m \in Lines,
         TextState(o, l, rows, row, cell, buffer, n, ahead), Nested(o), o # <<>>,
         Inner(o) = "link", ~Has(o, "table"), LineText(m) = Append(LineText(l), n + 1)
  PROVE  TextState(Front(o), m, rows, row, cell, buffer, n + 1, ahead)
<1>1. Held(o, l, rows, row, cell, buffer) BY DEF TextState
<1>2. /\ \A tag : Has(o, tag) <=> Has(Front(o), tag) \/ tag = Inner(o)
      /\ \A tag : Has(Front(o), tag) => Under(tag, Inner(o))
  BY NestedShrinks
<1>3. ~Has(o, "code") BY <1>2 DEF Under
<1>4. buffer = <<>> /\ TextsOf(buffer) = <<>> BY <1>1, <1>3, TextsEmpty DEF Held
<1>5. TableText(o, rows, row, cell) = <<>> BY DEF TableText
<1>6. LineText(l) \in Numberings /\ <<>> \in Numberings BY <1>1, TextsKnown, JoinedIs DEF Numberings
<1>7. Tells(LineText(l), <<>>, <<>>, n, ahead) /\ n \in Nat BY <1>4, <1>5 DEF TextState
<1>8. Tells(Append(LineText(l), n + 1), <<>>, <<>>, n + 1, ahead) BY <1>6, <1>7, Telling
<1>9. Held(o, m, rows, row, cell, buffer)
  <2>1. Writes(o) BY InLine DEF InlineTags
  <2> QED BY <1>1, <2>1 DEF Held
<1>10. TextState(o, m, rows, row, cell, buffer, n + 1, ahead)
  BY <1>4, <1>5, <1>7, <1>8, <1>9 DEF TextState
<1>11. SaysAs(m, m) /\ Waits(m, m) /\ Inner(o) \in InlineTags BY DEF SaysAs, Waits, InlineTags
<1> QED BY <1>10, <1>11, PlainEnds

LEMMA CodeEnds ==
  ASSUME NEW o, NEW l, NEW rows, NEW row, NEW cell, NEW buffer, NEW n, NEW ahead, NEW m \in Lines,
         TextState(o, l, rows, row, cell, buffer, n, ahead), Nested(o), o # <<>>,
         Inner(o) = "code", LineText(m) = LineText(l) \o TextsOf(buffer), m.spans = <<>>
  PROVE  TextState(Front(o), m, rows, row, cell, <<>>, n, ahead)
<1>1. PICK f : f = Front(o) OBVIOUS
<1>2. /\ Nested(f)
      /\ \A tag : Has(o, tag) <=> Has(f, tag) \/ tag = Inner(o)
      /\ \A tag : Has(f, tag) => Under(tag, Inner(o))
  BY <1>1, NestedShrinks
<1>3. ~Has(o, "table") /\ ~Has(f, "table") /\ ~Has(f, "head") /\ ~Has(o, "head")
  BY <1>2 DEF Under, Cells, InlineTags
<1>4. Held(o, l, rows, row, cell, buffer) BY DEF TextState
<1>5. Held(f, m, rows, row, cell, <<>>)
  <2>1. row = <<>> /\ cell = <<>> BY <1>3, <1>4 DEF Held
  <2>2. <<>> \in Seq(Spans) OBVIOUS
  <2> QED BY <1>3, <1>4, <2>1, <2>2, TextsEmpty DEF Held
<1>6. TableText(o, rows, row, cell) = <<>> /\ TableText(f, rows, row, cell) = <<>>
  BY <1>3 DEF TableText
<1>7. LineText(l) \in Numberings /\ TextsOf(buffer) \in Numberings /\ <<>> \in Numberings
  BY <1>4, TextsKnown, JoinedIs DEF Numberings
<1>8. Tells(LineText(l), <<>>, TextsOf(buffer), n, ahead) /\ n \in Nat BY <1>6 DEF TextState
<1>9. Tells(LineText(m), <<>>, <<>>, n, ahead) BY <1>7, <1>8, Telling
<1>10. TextState(f, m, rows, row, cell, <<>>, n, ahead)
  BY <1>5, <1>6, <1>8, <1>9, TextsEmpty DEF TextState
<1> QED BY <1>1, <1>10

LEMMA TableEnds ==
  ASSUME NEW o, NEW l, NEW rows, NEW row, NEW cell, NEW buffer, NEW n, NEW ahead, NEW m \in Lines,
         TextState(o, l, rows, row, cell, buffer, n, ahead), Nested(o), o # <<>>,
         Inner(o) = "table", m.spans = l.spans,
         LineText(m) = (LinesText(l.lines) \o RowsText(rows)) \o TextsOf(l.spans)
  PROVE  TextState(Front(o), m, rows, row, cell, buffer, n,
                   ahead \cup Pairs(TextsOf(l.spans), RowsText(rows)))
<1>1. PICK f : f = Front(o) OBVIOUS
<1>2. /\ Nested(f)
      /\ \A tag : Has(o, tag) <=> Has(f, tag) \/ tag = Inner(o)
      /\ \A tag : Has(f, tag) => Under(tag, Inner(o))
  BY <1>1, NestedShrinks
<1>3. /\ Has(o, "table") /\ ~Has(f, "table") /\ ~Has(f, "head")
      /\ ~Has(o, "code") /\ ~Has(f, "code")
  BY <1>2 DEF Under, Cells, InlineTags
<1>4. Held(o, l, rows, row, cell, buffer) BY DEF TextState
<1>5. row = <<>> /\ cell = <<>> /\ buffer = <<>> BY <1>3, <1>4 DEF Held
<1>6. Held(f, m, rows, row, cell, buffer)
  <2>1. TextsOf(m.spans) # <<>> => Writes(f) BY <1>2, <1>4 DEF Held, Writes
  <2> QED BY <1>3, <1>4, <1>5, <2>1 DEF Held
<1>7. TableText(f, rows, row, cell) = <<>> BY <1>3 DEF TableText
<1>8. TableText(o, rows, row, cell) = RowsText(rows)
  <2>1. PICK r \in Seq(Numbers) : r = RowsText(rows) BY <1>4, TextsKnown
  <2>2. r \o (<<>> \o <<>>) = r BY NumbersJoined
  <2> QED BY <1>3, <1>5, <2>1, <2>2, NothingTold DEF TableText
<1>9. PICK x \in Numberings, s \in Numberings, t \in Numberings :
        x = LinesText(l.lines) /\ s = TextsOf(l.spans) /\ t = RowsText(rows)
  BY <1>4, LinesAre, TextsKnown DEF Held, Numberings
<1>10. Tells(x \o s, t, <<>>, n, ahead) /\ n \in Nat
  BY <1>5, <1>8, <1>9, TextsEmpty DEF TextState, LineText
<1>11. Tells((x \o t) \o s, <<>>, <<>>, n, ahead \cup Pairs(s, t)) BY <1>10, TableTells
<1>12. TextState(f, m, rows, row, cell, buffer, n,
                 ahead \cup Pairs(TextsOf(l.spans), RowsText(rows)))
  BY <1>5, <1>6, <1>7, <1>9, <1>10, <1>11, TextsEmpty DEF TextState
<1> QED BY <1>1, <1>12

LEMMA RowEnds ==
  ASSUME NEW o, NEW l, NEW rows, NEW row, NEW cell, NEW buffer, NEW n, NEW ahead,
         TextState(o, l, rows, row, cell, buffer, n, ahead), Nested(o), o # <<>>,
         Inner(o) \in {"head", "row"}
  PROVE  /\ TextState(Front(o), l, Append(rows, row), <<>>, cell, buffer, n, ahead)
         /\ Inner(o) = "head" => <<row>> \o rows = Append(rows, row)
<1>1. PICK f : f = Front(o) OBVIOUS
<1>2. /\ Nested(f)
      /\ \A tag : Has(o, tag) <=> Has(f, tag) \/ tag = Inner(o)
      /\ \A tag : Has(f, tag) => Under(tag, Inner(o))
  BY <1>1, NestedShrinks
<1>3. /\ Has(o, "table") <=> Has(f, "table")
      /\ ~Has(f, "head") /\ ~Has(o, "code") /\ ~Has(f, "code")
  BY <1>2 DEF Under, Cells, InlineTags
<1>4. Has(o, "table") BY <1>2, InTable
<1>5. Held(o, l, rows, row, cell, buffer) BY DEF TextState
<1>6. cell = <<>> /\ buffer = <<>> BY <1>3, <1>5 DEF Held
<1>7. /\ Append(rows, row) \in Seq(Seq(Seq(Spans)))
      /\ RowsText(Append(rows, row)) = RowsText(rows) \o CellsText(row)
  BY <1>5, RowMore DEF Held
<1>8. Held(f, l, Append(rows, row), <<>>, cell, buffer)
  <2>1. <<>> \in Seq(Seq(Spans)) OBVIOUS
  <2>2. TextsOf(l.spans) # <<>> => Writes(f) BY <1>2, <1>5 DEF Held, Writes
  <2> QED BY <1>3, <1>4, <1>5, <1>6, <1>7, <2>1, <2>2 DEF Held
<1>9. TableText(f, Append(rows, row), <<>>, cell) = TableText(o, rows, row, cell)
  <2>1. PICK r \in Seq(Numbers), c \in Seq(Numbers) : r = RowsText(rows) /\ c = CellsText(row)
    BY <1>5, TextsKnown
  <2>2. PICK b \in Seq(Numbers) : b = r \o c BY NumbersJoined
  <2>3. b \o (<<>> \o <<>>) = b /\ c \o <<>> = c BY NumbersJoined
  <2>4. TableText(o, rows, row, cell) = b
    BY <1>4, <1>6, <2>1, <2>2, <2>3, NothingTold DEF TableText
  <2>5. TableText(f, Append(rows, row), <<>>, cell) = b
    BY <1>3, <1>4, <1>6, <1>7, <2>1, <2>2, <2>3, NothingTold DEF TableText
  <2> QED BY <2>4, <2>5
<1>10. TextState(f, l, Append(rows, row), <<>>, cell, buffer, n, ahead) BY <1>8, <1>9 DEF TextState
<1>11. Inner(o) = "head" => <<row>> \o rows = Append(rows, row)
  <2>1. SUFFICES ASSUME Inner(o) = "head" PROVE <<row>> \o rows = Append(rows, row) OBVIOUS
  <2>2. rows = <<>> BY <1>2, <1>5, <2>1 DEF Held
  <2>3. row \in Seq(Seq(Spans)) BY <1>5 DEF Held
  <2>4. <<row>> \o <<>> = <<row>> /\ Append(<<>>, row) = <<row>> OBVIOUS
  <2> QED BY <2>2, <2>4
<1> QED BY <1>1, <1>10, <1>11

LEMMA CellEnds ==
  ASSUME NEW o, NEW l, NEW rows, NEW row, NEW cell, NEW buffer, NEW n, NEW ahead,
         TextState(o, l, rows, row, cell, buffer, n, ahead), Nested(o), o # <<>>, Inner(o) = "cell"
  PROVE  TextState(Front(o), l, rows, Append(row, cell), <<>>, buffer, n, ahead)
<1>1. PICK f : f = Front(o) OBVIOUS
<1>2. /\ Nested(f) /\ Inner(o) \in MayHold(Inner(f))
      /\ \A tag : Has(o, tag) <=> Has(f, tag) \/ tag = Inner(o)
      /\ \A tag : Has(f, tag) => Under(tag, Inner(o))
  BY <1>1, NestedShrinks
<1>3. Inner(f) \in {"head", "row"} /\ Inner(f) # "table" BY <1>2, InnerIs, Holders
<1>4. Has(o, "table") BY <1>2, InTable
<1>5. \A tag \in {"table", "head", "code"} : Has(f, tag) <=> Has(o, tag) BY <1>2
<1>6. Held(o, l, rows, row, cell, buffer) BY DEF TextState
<1>7. PICK r \in Seq(Seq(Spans)), c \in Seq(Spans) : r = row /\ c = cell BY <1>6 DEF Held
<1>8. CellsText(Append(r, c)) = CellsText(r) \o TextsOf(c) BY CellsAre
<1>9. Append(r, c) \in Seq(Seq(Spans)) BY AppendProperties
<1>10. Held(f, l, rows, Append(row, cell), <<>>, buffer)
  <2>1. <<>> \in Seq(Spans) OBVIOUS
  <2>2. TextsOf(l.spans) # <<>> => Writes(f) BY <1>2, <1>6 DEF Held, Writes
  <2> QED BY <1>3, <1>4, <1>5, <1>6, <1>7, <1>9, <2>1, <2>2 DEF Held
<1>11. TableText(f, rows, Append(row, cell), <<>>) = TableText(o, rows, row, cell)
  <2>1. PICK a \in Seq(Numbers), b \in Seq(Numbers) : a = CellsText(r) /\ b = TextsOf(c)
    BY <1>6, <1>7, TextsKnown
  <2>2. PICK u \in Seq(Numbers) : u = a \o b BY NumbersJoined
  <2>3. u \o <<>> = u BY NumbersJoined
  <2> QED BY <1>4, <1>5, <1>7, <1>8, <2>1, <2>2, <2>3, TextsEmpty DEF TableText
<1>12. TextState(f, l, rows, Append(row, cell), <<>>, buffer, n, ahead)
  BY <1>6, <1>10, <1>11 DEF TextState
<1> QED BY <1>1, <1>12

-----------------------------------------------------------------------------
(* A text more.                                                            *)

LEMMA LineTold ==
  ASSUME NEW o, NEW l, NEW rows, NEW row, NEW cell, NEW buffer, NEW n, NEW ahead, NEW m \in Lines,
         TextState(o, l, rows, row, cell, buffer, n, ahead),
         ~Has(o, "table"), ~Has(o, "code"), LineText(m) = Append(LineText(l), n + 1),
         TextsOf(m.spans) # <<>> => Writes(o)
  PROVE  TextState(o, m, rows, row, cell, buffer, n + 1, ahead)
<1>1. Held(o, l, rows, row, cell, buffer) BY DEF TextState
<1>2. buffer = <<>> /\ TextsOf(buffer) = <<>> BY <1>1, TextsEmpty DEF Held
<1>3. TableText(o, rows, row, cell) = <<>> BY DEF TableText
<1>4. LineText(l) \in Numberings /\ <<>> \in Numberings BY <1>1, TextsKnown, JoinedIs DEF Numberings
<1>5. Tells(LineText(l), <<>>, <<>>, n, ahead) /\ n \in Nat BY <1>2, <1>3 DEF TextState
<1>6. Tells(Append(LineText(l), n + 1), <<>>, <<>>, n + 1, ahead) BY <1>4, <1>5, Telling
<1>7. Held(o, m, rows, row, cell, buffer) BY <1>1 DEF Held
<1> QED BY <1>2, <1>3, <1>5, <1>6, <1>7 DEF TextState

LEMMA CodeTold ==
  ASSUME NEW o, NEW l, NEW rows, NEW row, NEW cell, NEW buffer, NEW n, NEW ahead, NEW x \in Spans,
         TextState(o, l, rows, row, cell, buffer, n, ahead), Has(o, "code"), x.text = n + 1
  PROVE  TextState(o, l, rows, row, cell, Append(buffer, x), n + 1, ahead)
<1>1. Held(o, l, rows, row, cell, buffer) /\ n \in Nat BY DEF TextState
<1>2. PICK b \in Seq(Spans) : b = buffer BY <1>1 DEF Held
<1>3. TextsOf(Append(b, x)) = IF x.text = 0 THEN TextsOf(b) ELSE Append(TextsOf(b), x.text)
  BY TextsAppend
<1>4. x.text # 0 BY <1>1
<1>5. TextsOf(Append(buffer, x)) = Append(TextsOf(buffer), n + 1) BY <1>2, <1>3, <1>4
<1>6. /\ LineText(l) \in Numberings /\ TableText(o, rows, row, cell) \in Numberings
      /\ TextsOf(buffer) \in Numberings
  BY <1>1, TextsKnown DEF Numberings
<1>7. Tells(LineText(l), TableText(o, rows, row, cell), TextsOf(buffer), n, ahead) BY DEF TextState
<1>8. Tells(LineText(l), TableText(o, rows, row, cell), Append(TextsOf(buffer), n + 1), n + 1,
            ahead)
  BY <1>1, <1>6, <1>7, Telling
<1>9. Held(o, l, rows, row, cell, Append(buffer, x))
  <2>1. Append(b, x) \in Seq(Spans) BY AppendProperties
  <2> QED BY <1>1, <1>2, <2>1 DEF Held
<1> QED BY <1>1, <1>5, <1>8, <1>9 DEF TextState

LEMMA CellTold ==
  ASSUME NEW o, NEW l, NEW rows, NEW row, NEW cell, NEW buffer, NEW n, NEW ahead,
         NEW x \in Spans, NEW k \in Nat,
         TextState(o, l, rows, row, cell, buffer, n, ahead), Nested(o), Has(o, "table"),
         Inner(o) \notin {"table", "head", "row"},
         (x.text = 0 /\ k = n) \/ (x.text = n + 1 /\ k = n + 1)
  PROVE  TextState(o, l, rows, row, Append(cell, x), buffer, k, ahead)
<1>1. Held(o, l, rows, row, cell, buffer) /\ n \in Nat BY DEF TextState
<1>2. ~Has(o, "code")
  <2>1. Has(o, "code") => Inner(o) = "code" \/ Under("code", Inner(o)) BY InnerIs
  <2>2. Inner(o) = "table" \/ Under("table", Inner(o)) BY InnerIs
  <2> QED BY <2>1, <2>2 DEF Under, Cells, InlineTags
<1>3. buffer = <<>> /\ TextsOf(buffer) = <<>> BY <1>1, <1>2, TextsEmpty DEF Held
<1>4. PICK c \in Seq(Spans) : c = cell BY <1>1 DEF Held
<1>5. TextsOf(Append(c, x)) = IF x.text = 0 THEN TextsOf(c) ELSE Append(TextsOf(c), x.text)
  BY TextsAppend
<1>6. Held(o, l, rows, row, Append(cell, x), buffer)
  <2>1. Append(c, x) \in Seq(Spans) BY AppendProperties
  <2> QED BY <1>1, <1>4, <2>1 DEF Held
<1>7. CASE x.text = 0 /\ k = n
  <2>1. TableText(o, rows, row, Append(cell, x)) = TableText(o, rows, row, cell)
    BY <1>4, <1>5, <1>7 DEF TableText
  <2> QED BY <1>1, <1>6, <1>7, <2>1 DEF TextState
<1>8. CASE x.text = n + 1 /\ k = n + 1
  <2>1. x.text # 0 BY <1>1, <1>8
  <2>2. TextsOf(Append(cell, x)) = Append(TextsOf(cell), n + 1) BY <1>4, <1>5, <1>8, <2>1
  <2>3. PICK a \in Numberings, b \in Numberings, t \in Numberings :
          a = RowsText(rows) /\ b = CellsText(row) /\ t = TextsOf(cell)
    BY <1>1, TextsKnown DEF Numberings
  <2>4. PICK m \in Numberings : \A s \in Numberings : Append(s, n + 1) = Joined(s, m)
    BY <1>1, AppendJoined
  <2>5. PICK u \in Numberings : u = Joined(b, t) BY JoinedIs
  <2>6. PICK v \in Numberings : v = Joined(a, u) BY JoinedIs
  <2>7. TableText(o, rows, row, cell) = v BY <2>3, <2>5, <2>6 DEF TableText, Joined
  <2>8. TableText(o, rows, row, Append(cell, x)) = Joined(a, Joined(b, Joined(t, m)))
    BY <2>2, <2>3, <2>4 DEF TableText, Joined
  <2>9. Joined(b, Joined(t, m)) = Joined(u, m) BY <2>5, JoinedIs
  <2>10. Joined(a, Joined(u, m)) = Joined(v, m) BY <2>6, JoinedIs
  <2>11. TableText(o, rows, row, Append(cell, x)) = Append(TableText(o, rows, row, cell), n + 1)
    BY <2>4, <2>7, <2>8, <2>9, <2>10
  <2>12. LineText(l) \in Numberings /\ <<>> \in Numberings
    BY <1>1, TextsKnown, JoinedIs DEF Numberings
  <2>13. Tells(LineText(l), v, <<>>, n, ahead) BY <1>3, <2>7 DEF TextState
  <2>14. Tells(LineText(l), Append(v, n + 1), <<>>, n + 1, ahead) BY <1>1, <2>12, <2>13, Telling
  <2> QED BY <1>3, <1>6, <1>8, <2>7, <2>11, <2>14 DEF TextState
<1> QED BY <1>7, <1>8

Styled == {"heading", "emphasis"}
OpenInv ==
  /\ Nested(mOpen) /\ mStyles = Only(mOpen, Styled)
  /\ mTable = Has(mOpen, "table") /\ mCode = Has(mOpen, "code") /\ mHeading = Has(mOpen, "heading")
  /\ mList \in Seq(Nat) /\ Len(mList) = Len(Only(mOpen, {"list"}))
  /\ mQuote = Len(Only(mOpen, {"quote"}))
TextInv == TextState(mOpen, L, mRows, mRow, mCell, mBuffer, mTexts, mAhead)
DocumentInv == OpenInv /\ TextInv

LEMMA WritesTo ==
  ASSUME NEW m \in Lines, WriteTo(m)
  PROVE  L' = m
<1>1. m = [lines |-> m.lines, spans |-> m.spans, pending |-> m.pending, needs |-> m.needs,
           has |-> m.has]
  BY DEF Lines
<1> QED BY <1>1 DEF WriteTo, L

LEMMA LineParts ==
  /\ L.lines = mLines /\ L.spans = mSpans
  /\ UNCHANGED lineVars => L' = L
BY DEF L, lineVars

LEMMA DocumentKnown ==
  ASSUME DocumentInv
  PROVE  /\ Nested(mOpen) /\ mOpen \in Seq(AllTags) /\ Innermost = Inner(mOpen) /\ L \in Lines
         /\ mStyles \in Seq(AllTags) /\ mQuote \in Nat /\ mTexts \in Nat
         /\ mRows \in Seq(Seq(Seq(Spans))) /\ mRow \in Seq(Seq(Spans))
         /\ mCell \in Seq(Spans) /\ mBuffer \in Seq(Spans)
         /\ Held(mOpen, L, mRows, mRow, mCell, mBuffer)
<1>1. Nested(mOpen) /\ mOpen \in Seq(AllTags) BY DEF DocumentInv, OpenInv, Nested
<1>2. Only(mOpen, Styled) \in Seq(AllTags) /\ Only(mOpen, {"quote"}) \in Seq(AllTags)
  BY <1>1, OnlyIs
<1>3. Len(Only(mOpen, {"quote"})) \in Nat BY <1>2
<1> QED BY <1>1, <1>2, <1>3 DEF DocumentInv, OpenInv, TextInv, TextState, Held, Innermost, Inner

LEMMA SpanIs ==
  ASSUME DocumentInv
  PROVE  Span(mTexts + 1) \in Spans /\ Span(mTexts + 1).text = mTexts + 1
<1>1. mTexts + 1 \in Nat /\ mStyles \in Seq(AllTags) BY DocumentKnown
<1> QED BY <1>1 DEF Span, Spans

LEMMA MarkIs ==
  Mark \in Spans /\ Mark.text = 0
BY DEF Mark, Spans

\* What opens with a tag.
LEMMA OpensMore ==
  ASSUME DocumentInv, NEW tag \in MayHold(Inner(mOpen)), mOpen' = Append(mOpen, tag),
         mStyles' = IF tag \in Styled THEN Append(mStyles, tag) ELSE mStyles,
         mTable' = (mTable \/ tag = "table"), mCode' = (mCode \/ tag = "code"),
         mHeading' = (mHeading \/ tag = "heading"),
         mList' = IF tag = "list" THEN Append(mList, 1) ELSE mList,
         mQuote' = IF tag = "quote" THEN mQuote + 1 ELSE mQuote
  PROVE  OpenInv'
<1>1. Nested(mOpen) /\ mOpen \in Seq(AllTags) BY DocumentKnown
<1>2. PICK p : p = Append(mOpen, tag) OBVIOUS
<1>3. Nested(p) /\ tag \in AllTags /\ \A t : Has(p, t) <=> Has(mOpen, t) \/ t = tag
  BY <1>1, <1>2, NestedGrows
<1>4. \A S : Only(p, S) = IF tag \in S THEN Append(Only(mOpen, S), tag) ELSE Only(mOpen, S)
  BY <1>1, <1>2, <1>3, OnlyAppend
<1>5. mStyles' = Only(p, Styled) BY <1>4 DEF DocumentInv, OpenInv
<1>6. Only(mOpen, {"list"}) \in Seq(AllTags) /\ Only(mOpen, {"quote"}) \in Seq(AllTags)
  BY <1>1, OnlyIs
<1>7. mList' \in Seq(Nat) /\ Len(mList') = Len(Only(p, {"list"}))
  <2>1. mList \in Seq(Nat) /\ Len(mList) = Len(Only(mOpen, {"list"})) BY DEF DocumentInv, OpenInv
  <2>2. CASE tag = "list"
    <3>1. Append(mList, 1) \in Seq(Nat) /\ Len(Append(mList, 1)) = Len(mList) + 1
      BY <2>1, AppendProperties
    <3>2. Len(Append(Only(mOpen, {"list"}), tag)) = Len(Only(mOpen, {"list"})) + 1
      BY <1>3, <1>6, AppendProperties
    <3> QED BY <1>4, <2>1, <2>2, <3>1, <3>2
  <2>3. CASE tag # "list" BY <1>4, <2>1, <2>3
  <2> QED BY <2>2, <2>3
<1>8. mQuote' = Len(Only(p, {"quote"}))
  <2>1. mQuote = Len(Only(mOpen, {"quote"})) BY DEF DocumentInv, OpenInv
  <2>2. CASE tag = "quote"
    <3>1. Len(Append(Only(mOpen, {"quote"}), tag)) = Len(Only(mOpen, {"quote"})) + 1
      BY <1>3, <1>6, AppendProperties
    <3> QED BY <1>4, <2>1, <2>2, <3>1
  <2>3. CASE tag # "quote" BY <1>4, <2>1, <2>3
  <2> QED BY <2>2, <2>3
<1>9. /\ mTable' = Has(p, "table") /\ mCode' = Has(p, "code") /\ mHeading' = Has(p, "heading")
  BY <1>3 DEF DocumentInv, OpenInv, Has
<1>10. mOpen' = p BY <1>2
<1> QED BY <1>3, <1>5, <1>7, <1>8, <1>9, <1>10 DEF OpenInv

\* What is open no more with one.
LEMMA OpensLess ==
  ASSUME DocumentInv, mOpen # <<>>, NEW tag, tag = Inner(mOpen), mOpen' = Front(mOpen),
         mStyles' = IF tag \in Styled THEN Popped ELSE mStyles,
         mTable' = (mTable /\ tag # "table"), mCode' = (mCode /\ tag # "code"),
         mHeading' = (mHeading /\ tag # "heading"),
         tag = "list" => mList' = Front(mList),
         tag # "list" => mList' \in Seq(Nat) /\ Len(mList') = Len(mList),
         mQuote' = IF tag = "quote" THEN mQuote - 1 ELSE mQuote
  PROVE  OpenInv'
<1>1. Nested(mOpen) /\ mOpen \in Seq(AllTags) BY DocumentKnown
<1>2. PICK f : f = Front(mOpen) OBVIOUS
<1>3. /\ Nested(f) /\ tag \in AllTags /\ \A t : Has(mOpen, t) <=> Has(f, t) \/ t = tag
      /\ \A t : Has(f, t) => Under(t, tag)
  BY <1>1, <1>2, NestedShrinks
<1>4. f \in Seq(AllTags) BY <1>3 DEF Nested
<1>5. \A S : Only(mOpen, S) = IF tag \in S THEN Append(Only(f, S), tag) ELSE Only(f, S)
  <2>1. Last(mOpen) = tag BY DEF Inner
  <2> QED BY <1>1, <1>2, <2>1, OnlyFront
<1>6. \A S : Only(f, S) \in Seq(AllTags) BY <1>4, OnlyIs
<1>7. mStyles' = Only(f, Styled)
  <2>1. mStyles = Only(mOpen, Styled) BY DEF DocumentInv, OpenInv
  <2>2. CASE tag \in Styled
    <3>1. PICK s \in Seq(AllTags) : s = Only(f, Styled) BY <1>6
    <3>2. mStyles = Append(s, tag) BY <1>5, <2>1, <2>2, <3>1
    <3>3. Append(s, tag) # <<>> /\ Front(Append(s, tag)) = s
      BY <1>3, AppendProperties, FrontOfAppend
    <3> QED BY <2>2, <3>1, <3>2, <3>3 DEF Popped
  <2>3. CASE tag \notin Styled BY <1>5, <2>1, <2>3
  <2> QED BY <2>2, <2>3
<1>8. mList' \in Seq(Nat) /\ Len(mList') = Len(Only(f, {"list"}))
  <2>1. mList \in Seq(Nat) /\ Len(mList) = Len(Only(mOpen, {"list"})) BY DEF DocumentInv, OpenInv
  <2>2. CASE tag = "list"
    <3>1. PICK s \in Seq(AllTags) : s = Only(f, {"list"}) BY <1>6
    <3>2. Len(mList) = Len(s) + 1
      <4>1. Len(Append(s, tag)) = Len(s) + 1 BY <1>3, AppendProperties
      <4> QED BY <1>5, <2>1, <2>2, <3>1, <4>1
    <3>3. Len(s) \in Nat OBVIOUS
    <3>4. mList # <<>> BY <2>1, <3>2, <3>3
    <3>5. Front(mList) \in Seq(Nat) /\ Len(Front(mList)) = Len(mList) - 1 BY <2>1, <3>4, Shrinks
    <3> QED BY <2>2, <3>1, <3>2, <3>3, <3>5
  <2>3. CASE tag # "list" BY <1>5, <2>1, <2>3
  <2> QED BY <2>2, <2>3
<1>9. mQuote' = Len(Only(f, {"quote"}))
  <2>1. mQuote = Len(Only(mOpen, {"quote"})) BY DEF DocumentInv, OpenInv
  <2>2. CASE tag = "quote"
    <3>1. PICK s \in Seq(AllTags) : s = Only(f, {"quote"}) BY <1>6
    <3>2. Len(Append(s, tag)) = Len(s) + 1 /\ Len(s) \in Nat BY <1>3, AppendProperties
    <3> QED BY <1>5, <2>1, <2>2, <3>1, <3>2
  <2>3. CASE tag # "quote" BY <1>5, <2>1, <2>3
  <2> QED BY <2>2, <2>3
<1>10. /\ mTable' = Has(f, "table") /\ mCode' = Has(f, "code") /\ mHeading' = Has(f, "heading")
  <2>1. tag \in {"table", "code", "heading"} => ~Has(f, tag)
    BY <1>3 DEF Under, Cells, InlineTags
  <2> QED BY <1>3, <2>1 DEF DocumentInv, OpenInv, Has
<1>11. mOpen' = f BY <1>2
<1> QED BY <1>3, <1>7, <1>8, <1>9, <1>10, <1>11 DEF OpenInv

LEMMA SaysSame ==
  ASSUME NEW l, NEW m, NEW n, SaysAs(m, l), SaysAs(n, m)
  PROVE  SaysAs(n, l)
BY DEF SaysAs

LEMMA StartKeeps ==
  ASSUME DocumentInv, NEW tag, start_tag(tag)
  PROVE  DocumentInv'
<1>1. /\ tag \in MayHold(Inner(mOpen)) /\ mOpen' = Append(mOpen, tag) /\ mTexts' = mTexts
      /\ mAhead' = mAhead /\ (tag = "head" => mRows = <<>>)
  BY DocumentKnown DEF start_tag
<1>2. L \in Lines /\ Nested(mOpen) /\ Held(mOpen, L, mRows, mRow, mCell, mBuffer) BY DocumentKnown
<1>3. tag \in AllTags /\ \A t : Has(mOpen, t) => Under(t, tag) BY <1>1, <1>2, NestedGrows
<1>4. TextState(mOpen, L, mRows, mRow, mCell, mBuffer, mTexts, mAhead) BY DEF DocumentInv, TextInv
<1>6. CASE tag \in BlockTags
  <2>1. StartBlock(tag) /\ tag \notin {"item", "head", "row", "cell", "emphasis", "link"}
    BY <1>6 DEF start_tag, BlockTags
  <2>2. PICK l \in Lines : /\ l = ensure_blank_line_before_block(L) /\ SaysAs(l, L)
                           /\ Waits(l, L)
    BY <1>2, BlankBefore, TextsEmpty DEF SaysAs, Waits
  <2>3. PICK h \in Lines : h = push_span(l, Mark) /\ SaysAs(h, L) /\ Waits(h, L)
    <3>1. SaysAs(push_span(l, Mark), l) /\ TextsOf(push_span(l, Mark).spans) = TextsOf(l.spans)
      BY MarkIs, SpanMore
    <3>2. SaysAs(push_span(l, Mark), L) BY <2>2, <3>1, SaysSame
    <3> QED BY <2>2, <3>1, <3>2 DEF SaysAs, Waits
  <2>4. PICK m \in Lines : SaysAs(m, L) /\ Waits(m, L) /\ L' = m
    <3>1. CASE tag = "heading"
      <4>1. WriteTo(h) BY <2>1, <2>2, <2>3, <3>1 DEF StartBlock
      <4> QED BY <2>3, <3>1, <4>1, WritesTo
    <3>2. CASE tag = "list"
      <4>1. CASE mList = <<>>
        <5>1. WriteTo(l) BY <2>1, <2>2, <3>2, <4>1 DEF StartBlock
        <5> QED BY <2>2, <3>2, <5>1, WritesTo
      <4>2. CASE mList # <<>>
        <5>1. WriteTo(flush_line(L)) BY <2>1, <3>2, <4>2 DEF StartBlock
        <5>2. PICK f \in Lines : f = flush_line(L) /\ SaysAs(f, L) /\ Waits(f, L)
          BY <1>2, LineEnds, TextsEmpty DEF SaysAs, Waits
        <5> QED BY <3>2, <5>1, <5>2, WritesTo
      <4> QED BY <4>1, <4>2
    <3>3. CASE tag # "heading" /\ tag # "list"
      <4>1. WriteTo(l) BY <2>1, <2>2, <3>3 DEF StartBlock
      <4> QED BY <2>2, <4>1, WritesTo
    <3> QED BY <3>1, <3>2, <3>3
  <2>6. TextState(Append(mOpen, tag), m, IF tag = "table" THEN <<>> ELSE mRows,
                  IF tag \in {"head", "row"} THEN <<>> ELSE mRow,
                  IF tag = "cell" THEN <<>> ELSE mCell,
                  IF tag = "code" THEN <<>> ELSE mBuffer, mTexts, mAhead)
    BY <1>1, <1>2, <1>4, <2>4, TagStarts
  <2>7. /\ mRows' = (IF tag = "table" THEN <<>> ELSE mRows)
        /\ mRow' = (IF tag \in {"head", "row"} THEN <<>> ELSE mRow)
        /\ mCell' = (IF tag = "cell" THEN <<>> ELSE mCell)
        /\ mBuffer' = (IF tag = "code" THEN <<>> ELSE mBuffer)
    BY <2>1 DEF StartBlock
  <2>8. TextInv' BY <1>1, <2>4, <2>6, <2>7 DEF TextInv
  <2>9. /\ mStyles' = IF tag \in Styled THEN Append(mStyles, tag) ELSE mStyles
        /\ mTable' = (mTable \/ tag = "table") /\ mCode' = (mCode \/ tag = "code")
        /\ mHeading' = (mHeading \/ tag = "heading")
        /\ mList' = IF tag = "list" THEN Append(mList, 1) ELSE mList
        /\ mQuote' = IF tag = "quote" THEN mQuote + 1 ELSE mQuote
    BY <2>1 DEF StartBlock, Styled
  <2>10. OpenInv' BY <1>1, <2>9, OpensMore
  <2> QED BY <2>8, <2>10 DEF DocumentInv
<1>7. CASE tag \notin BlockTags
  <2>1. StartPart(tag) /\ tag \in {"item", "head", "row", "cell", "emphasis", "link"}
    BY <1>3, <1>7 DEF start_tag, AllTags, InlineTags
  <2>2. PICK m \in Lines : SaysAs(m, L) /\ L' = m /\ Waits(m, L)
    <3>1. CASE tag = "item"
      <4>1. PICK f \in Lines : f = flush_line(L) /\ SaysAs(f, L) /\ f.spans = <<>>
        BY <1>2, LineEnds DEF SaysAs
      <4>2. PICK g : g = [f EXCEPT !.pending = TRUE] OBVIOUS
      <4>3. SaysAs(g, f) /\ g.spans = f.spans BY <4>2, FlagsSayNothing
      <4>4. g \in Lines /\ SaysAs(g, L) BY <4>1, <4>3, SaysSame DEF SaysAs
      <4>5. WriteTo(g) BY <2>1, <3>1, <4>1, <4>2 DEF StartPart
      <4> QED BY <4>1, <4>3, <4>4, <4>5, WritesTo, TextsEmpty DEF Waits
    <3>2. CASE tag # "item"
      <4>1. L' = L BY <2>1, <3>2, LineParts DEF StartPart
      <4> QED BY <1>2, <4>1 DEF SaysAs, Waits
    <3> QED BY <3>1, <3>2
  <2>5. tag # "table" /\ tag # "code" BY <2>1
  <2>6. TextState(Append(mOpen, tag), m, IF tag = "table" THEN <<>> ELSE mRows,
                  IF tag \in {"head", "row"} THEN <<>> ELSE mRow,
                  IF tag = "cell" THEN <<>> ELSE mCell,
                  IF tag = "code" THEN <<>> ELSE mBuffer, mTexts, mAhead)
    BY <1>1, <1>2, <1>4, <2>2, TagStarts
  <2>7. /\ mRows' = (IF tag = "table" THEN <<>> ELSE mRows)
        /\ mRow' = (IF tag \in {"head", "row"} THEN <<>> ELSE mRow)
        /\ mCell' = (IF tag = "cell" THEN <<>> ELSE mCell)
        /\ mBuffer' = (IF tag = "code" THEN <<>> ELSE mBuffer)
    BY <2>1, <2>5 DEF StartPart
  <2>8. TextInv' BY <1>1, <2>2, <2>6, <2>7 DEF TextInv
  <2>9. /\ mStyles' = IF tag \in Styled THEN Append(mStyles, tag) ELSE mStyles
        /\ mTable' = (mTable \/ tag = "table") /\ mCode' = (mCode \/ tag = "code")
        /\ mHeading' = (mHeading \/ tag = "heading")
        /\ mList' = IF tag = "list" THEN Append(mList, 1) ELSE mList
        /\ mQuote' = IF tag = "quote" THEN mQuote + 1 ELSE mQuote
    BY <2>1 DEF StartPart, Styled, DocumentInv, OpenInv, Has
  <2>10. OpenInv' BY <1>1, <2>9, OpensMore
  <2> QED BY <2>8, <2>10 DEF DocumentInv
<1> QED BY <1>6, <1>7

LEMMA BlockEnds ==
  ASSUME DocumentInv, mOpen # <<>>, NEW tag \in BlockTags, tag = Inner(mOpen), EndBlock(tag),
         mOpen' = Front(mOpen), mTexts' = mTexts,
         mAhead' = mAhead \cup (IF tag = "table" THEN Interrupted ELSE {})
  PROVE  DocumentInv'
<1>1. /\ L \in Lines /\ Nested(mOpen) /\ Held(mOpen, L, mRows, mRow, mCell, mBuffer)
      /\ mRows \in Seq(Seq(Seq(Spans))) /\ mBuffer \in Seq(Spans) /\ mQuote \in Nat
  BY DocumentKnown
<1>2. TextState(mOpen, L, mRows, mRow, mCell, mBuffer, mTexts, mAhead) BY DEF DocumentInv, TextInv
<1>3. PICK f \in Lines : f = flush_line(L) /\ SaysAs(f, L) /\ f.spans = <<>>
  BY <1>1, LineEnds DEF SaysAs
<1>4. ASSUME NEW m \in Lines
      PROVE  Needing(m) \in Lines /\ LineText(Needing(m)) = LineText(m) /\ Needing(m).spans = m.spans
  <2>1. SaysAs([m EXCEPT !.needs = TRUE], m) /\ [m EXCEPT !.needs = TRUE].spans = m.spans
    BY FlagsSayNothing
  <2> QED BY <2>1 DEF Needing, SaysAs
<1>5. CASE tag \in {"paragraph", "heading", "quote", "list"}
  <2>1. \E m \in {f, Needing(f)} : WriteTo(m) BY <1>3, <1>5 DEF EndBlock
  <2>2. PICK m \in Lines : WriteTo(m) /\ SaysAs(m, L) /\ m.spans = <<>>
    BY <1>3, <1>4, <2>1 DEF SaysAs
  <2>3. L' = m BY <2>2, WritesTo
  <2>4. tag \notin {"table", "head", "row", "cell", "code"} BY <1>5
  <2>5. TextState(Front(mOpen), m, mRows, mRow, mCell, mBuffer, mTexts, mAhead)
    BY <1>1, <1>2, <2>2, <2>4, PlainEnds, TextsEmpty
  <2>6. mRows' = mRows /\ mRow' = mRow /\ mCell' = mCell /\ mBuffer' = mBuffer
        /\ mAhead' = mAhead
    BY <1>5 DEF EndBlock, tableVars
  <2>7. TextInv' BY <2>3, <2>5, <2>6 DEF TextInv
  <2>8. /\ mStyles' = IF tag \in Styled THEN Popped ELSE mStyles
        /\ mTable' = (mTable /\ tag # "table") /\ mCode' = (mCode /\ tag # "code")
        /\ mHeading' = (mHeading /\ tag # "heading")
        /\ tag = "list" => mList' = Front(mList)
        /\ tag # "list" => mList' = mList
        /\ mQuote' = IF tag = "quote" THEN mQuote - 1 ELSE mQuote
    BY <1>5 DEF EndBlock, flagVars, Styled, DocumentInv, OpenInv, Has
  <2>9. tag # "list" => mList' \in Seq(Nat) /\ Len(mList') = Len(mList)
    BY <2>8 DEF DocumentInv, OpenInv
  <2>10. OpenInv' BY <2>8, <2>9, OpensLess
  <2> QED BY <2>7, <2>10 DEF DocumentInv
<1>6. CASE tag = "code"
  <2>1. PICK c \in Lines : c = flush_code_block(L) /\ LineText(c) = LineText(L) \o TextsOf(mBuffer)
                            /\ c.spans = <<>>
    BY <1>1, CodeFlushed
  <2>2. PICK m \in Lines : m = Needing(c) /\ LineText(m) = LineText(L) \o TextsOf(mBuffer)
                            /\ m.spans = <<>>
    BY <1>4, <2>1
  <2>3. WriteTo(m) /\ mBuffer' = <<>> BY <1>6, <2>1, <2>2 DEF EndBlock
  <2>4. L' = m BY <2>3, WritesTo
  <2>5. TextState(Front(mOpen), m, mRows, mRow, mCell, <<>>, mTexts, mAhead)
    BY <1>1, <1>2, <1>6, <2>2, CodeEnds
  <2>6. mRows' = mRows /\ mRow' = mRow /\ mCell' = mCell /\ mAhead' = mAhead
    BY <1>6 DEF EndBlock, tableVars
  <2>7. TextInv' BY <2>3, <2>4, <2>5, <2>6 DEF TextInv
  <2>8. /\ mStyles' = IF tag \in Styled THEN Popped ELSE mStyles
        /\ mTable' = (mTable /\ tag # "table") /\ mCode' = (mCode /\ tag # "code")
        /\ mHeading' = (mHeading /\ tag # "heading") /\ mList' = mList
        /\ mQuote' = IF tag = "quote" THEN mQuote - 1 ELSE mQuote
    BY <1>6 DEF EndBlock, flagVars, Styled, DocumentInv, OpenInv, Has
  <2>9. mList' \in Seq(Nat) /\ Len(mList') = Len(mList) /\ tag # "list"
    BY <1>6, <2>8 DEF DocumentInv, OpenInv
  <2>10. OpenInv' BY <2>8, <2>9, OpensLess
  <2> QED BY <2>7, <2>10 DEF DocumentInv
<1>7. CASE tag = "table"
  <2>1. PICK a \in Seq(Numbers) :
          a = (LinesText(L.lines) \o RowsText(mRows)) \o TextsOf(L.spans)
    BY <1>1, TableRendered, LinesAre
  <2>2. PICK c \in Lines : c = render_table(L) /\ LineText(c) = a /\ c.spans = L.spans
    BY <1>1, <2>1, TableRendered
  <2>3. PICK m \in Lines : m = Needing(c) /\ LineText(m) = a /\ m.spans = L.spans
    BY <1>4, <2>2
  <2>4. WriteTo(m) BY <1>7, <2>2, <2>3 DEF EndBlock
  <2>5. L' = m BY <2>4, WritesTo
  <2>6. TextState(Front(mOpen), m, mRows, mRow, mCell, mBuffer, mTexts, mAhead')
    <3>1. mAhead' = mAhead \cup Pairs(TextsOf(L.spans), RowsText(mRows))
      BY <1>7, LineParts DEF Interrupted, Pairs, RowsText, CellsText
    <3>2. LineText(m) = (LinesText(L.lines) \o RowsText(mRows)) \o TextsOf(L.spans)
      BY <2>1, <2>3
    <3>3. Inner(mOpen) = "table" BY <1>7
    <3>4. TextState(Front(mOpen), m, mRows, mRow, mCell, mBuffer, mTexts,
                    mAhead \cup Pairs(TextsOf(L.spans), RowsText(mRows)))
      BY <1>1, <1>2, <2>3, <3>2, <3>3, TableEnds
    <3> QED BY <3>1, <3>4
  <2>7. mRows' = mRows /\ mRow' = mRow /\ mCell' = mCell /\ mBuffer' = mBuffer
    BY <1>7 DEF EndBlock, tableVars
  <2>8. TextInv' BY <2>5, <2>6, <2>7 DEF TextInv
  <2>9. /\ mStyles' = IF tag \in Styled THEN Popped ELSE mStyles
        /\ mTable' = (mTable /\ tag # "table") /\ mCode' = (mCode /\ tag # "code")
        /\ mHeading' = (mHeading /\ tag # "heading") /\ mList' = mList
        /\ mQuote' = IF tag = "quote" THEN mQuote - 1 ELSE mQuote
    BY <1>7 DEF EndBlock, flagVars, Styled, DocumentInv, OpenInv, Has
  <2>10. mList' \in Seq(Nat) /\ Len(mList') = Len(mList) /\ tag # "list"
    BY <1>7, <2>9 DEF DocumentInv, OpenInv
  <2>11. OpenInv' BY <2>9, <2>10, OpensLess
  <2> QED BY <2>8, <2>11 DEF DocumentInv
<1> QED BY <1>5, <1>6, <1>7 DEF BlockTags

LEMMA CountsOn ==
  ASSUME NEW s \in Seq(Nat)
  PROVE  /\ [s EXCEPT ![Len(s)] = @ + 1] \in Seq(Nat)
         /\ Len([s EXCEPT ![Len(s)] = @ + 1]) = Len(s)
<1>1. PICK k \in Nat : k = Len(s) OBVIOUS
<1>2. s \in [1..k -> Nat] /\ DOMAIN s = 1..k BY <1>1, LenProperties
<1>3. PICK e : e = [s EXCEPT ![k] = @ + 1] OBVIOUS
<1>4. e \in [1..k -> Nat]
  <2>1. e = [i \in 1..k |-> IF i = k THEN s[i] + 1 ELSE s[i]] BY <1>2, <1>3
  <2>2. \A i \in 1..k : (IF i = k THEN s[i] + 1 ELSE s[i]) \in Nat BY <1>2
  <2> QED BY <2>1, <2>2
<1>5. e \in Seq(Nat) BY <1>4, SeqDef
<1>6. DOMAIN e = 1..k BY <1>4
<1>7. DOMAIN e = 1..Len(e) /\ Len(e) \in Nat BY <1>5, LenProperties
<1>8. Len(e) = k BY <1>6, <1>7
<1> QED BY <1>1, <1>3, <1>5, <1>8

LEMMA PartEnds ==
  ASSUME DocumentInv, mOpen # <<>>, NEW tag \in AllTags \ BlockTags, tag = Inner(mOpen),
         EndPart(tag), mOpen' = Front(mOpen), mAhead' = mAhead
  PROVE  DocumentInv'
<1>1. /\ L \in Lines /\ Nested(mOpen) /\ Held(mOpen, L, mRows, mRow, mCell, mBuffer)
      /\ mTexts \in Nat
  BY DocumentKnown
<1>2. TextState(mOpen, L, mRows, mRow, mCell, mBuffer, mTexts, mAhead) BY DEF DocumentInv, TextInv
<1>3. mTable = Has(mOpen, "table") BY DEF DocumentInv, OpenInv
<1>4. mBuffer' = mBuffer BY DEF EndPart
<1>5. tag \in {"item", "link", "emphasis", "head", "row", "cell"} BY DEF AllTags, InlineTags
<1>6. OpenInv'
  <2>1. /\ mStyles' = IF tag \in Styled THEN Popped ELSE mStyles
        /\ mTable' = (mTable /\ tag # "table") /\ mCode' = (mCode /\ tag # "code")
        /\ mHeading' = (mHeading /\ tag # "heading")
        /\ mQuote' = IF tag = "quote" THEN mQuote - 1 ELSE mQuote
    BY <1>5 DEF EndPart, Styled, DocumentInv, OpenInv, Has
  <2>2. mList' \in Seq(Nat) /\ Len(mList') = Len(mList)
    <3>1. mList \in Seq(Nat) BY DEF DocumentInv, OpenInv
    <3>2. mList' = mList \/ mList' = [mList EXCEPT ![Len(mList)] = @ + 1] BY DEF EndPart
    <3> QED BY <3>1, <3>2, CountsOn
  <2>3. tag # "list" BY <1>5
  <2> QED BY <2>1, <2>2, <2>3, OpensLess
<1>7. TextInv'
  <2>1. CASE tag = "item"
    <3>1. PICK f \in Lines : f = flush_line(L) /\ SaysAs(f, L) /\ f.spans = <<>>
      BY <1>1, LineEnds DEF SaysAs
    <3>2. WriteTo(f) /\ mTexts' = mTexts /\ mRows' = mRows /\ mRow' = mRow /\ mCell' = mCell
      BY <2>1, <3>1 DEF EndPart
    <3>3. L' = f BY <3>2, WritesTo
    <3>4. Inner(mOpen) \notin {"table", "head", "row", "cell", "code"} BY <2>1
    <3>5. TextState(Front(mOpen), f, mRows, mRow, mCell, mBuffer, mTexts, mAhead)
      BY <1>1, <1>2, <3>1, <3>4, PlainEnds, TextsEmpty
    <3> QED BY <1>4, <3>2, <3>3, <3>5 DEF TextInv
  <2>2. CASE tag = "emphasis"
    <3>1. L' = L /\ mTexts' = mTexts /\ mRows' = mRows /\ mRow' = mRow /\ mCell' = mCell
      BY <2>2, LineParts DEF EndPart
    <3>2. SaysAs(L, L) /\ Waits(L, L) /\ Inner(mOpen) \in InlineTags
      BY <1>1, <2>2 DEF SaysAs, Waits, InlineTags
    <3>3. Inner(mOpen) \notin {"table", "head", "row", "cell", "code"} BY <2>2
    <3>4. TextState(Front(mOpen), L, mRows, mRow, mCell, mBuffer, mTexts, mAhead)
      BY <1>1, <1>2, <3>2, <3>3, PlainEnds
    <3> QED BY <1>4, <3>1, <3>4 DEF TextInv
  <2>3. CASE tag = "link" /\ mTable
    <3>1. PICK m \in Lines : m = push_span(L, Mark) /\ SaysAs(m, L)
                             /\ TextsOf(m.spans) = TextsOf(L.spans)
      BY <1>1, MarkIs, SpanMore DEF SaysAs
    <3>2. WriteTo(m) /\ mTexts' = mTexts /\ mRows' = mRows /\ mRow' = mRow /\ mCell' = mCell
      BY <2>3, <3>1 DEF EndPart
    <3>3. L' = m BY <3>2, WritesTo
    <3>4. Inner(mOpen) \notin {"table", "head", "row", "cell", "code"} BY <2>3
    <3>5. Waits(m, L) /\ Inner(mOpen) \in InlineTags BY <2>3, <3>1 DEF Waits, InlineTags
    <3>6. TextState(Front(mOpen), m, mRows, mRow, mCell, mBuffer, mTexts, mAhead)
      BY <1>1, <1>2, <3>1, <3>4, <3>5, PlainEnds
    <3> QED BY <1>4, <3>2, <3>3, <3>6 DEF TextInv
  <2>4. CASE tag = "link" /\ ~mTable
    <3>1. PICK x \in Spans : x = Span(mTexts + 1) /\ x.text = mTexts + 1 BY SpanIs
    <3>2. x.text # 0 BY <1>1, <3>1
    <3>3. PICK m \in Lines : m = push_span(L, x) /\ LineText(m) = Append(LineText(L), mTexts + 1)
      BY <1>1, <3>1, <3>2, SpanMore
    <3>4. /\ WriteTo(m) /\ mTexts' = mTexts + 1
          /\ mRows' = mRows /\ mRow' = mRow /\ mCell' = mCell
      BY <2>4, <3>1, <3>3 DEF EndPart
    <3>5. L' = m BY <3>4, WritesTo
    <3>6. TextState(Front(mOpen), m, mRows, mRow, mCell, mBuffer, mTexts + 1, mAhead)
      BY <1>1, <1>2, <1>3, <2>4, <3>3, LinkEnds
    <3> QED BY <1>4, <3>4, <3>5, <3>6 DEF TextInv
  <2>5. CASE tag \in {"head", "row"}
    <3>1. L' = L /\ mTexts' = mTexts /\ mCell' = mCell /\ mRow' = <<>>
      BY <2>5, LineParts DEF EndPart
    <3>2. /\ TextState(Front(mOpen), L, Append(mRows, mRow), <<>>, mCell, mBuffer, mTexts, mAhead)
          /\ tag = "head" => <<mRow>> \o mRows = Append(mRows, mRow)
      BY <1>1, <1>2, <2>5, RowEnds
    <3>3. mRows' = Append(mRows, mRow) BY <2>5, <3>2 DEF EndPart
    <3> QED BY <1>4, <3>1, <3>2, <3>3 DEF TextInv
  <2>6. CASE tag = "cell"
    <3>1. /\ L' = L /\ mTexts' = mTexts /\ mRows' = mRows
          /\ mRow' = Append(mRow, mCell) /\ mCell' = <<>>
      BY <2>6, LineParts DEF EndPart
    <3>2. TextState(Front(mOpen), L, mRows, Append(mRow, mCell), <<>>, mBuffer, mTexts, mAhead)
      BY <1>1, <1>2, <2>6, CellEnds
    <3> QED BY <1>4, <3>1, <3>2 DEF TextInv
  <2> QED BY <1>5, <2>1, <2>2, <2>3, <2>4, <2>5, <2>6
<1> QED BY <1>6, <1>7 DEF DocumentInv

LEMMA EndKeeps ==
  ASSUME DocumentInv, end_tag
  PROVE  DocumentInv'
<1>1. mOpen # <<>> /\ mOpen' = Front(mOpen) /\ Innermost = Inner(mOpen)
  BY DocumentKnown DEF end_tag
<1>2. PICK tag : tag = Inner(mOpen) OBVIOUS
<1>6. mAhead' = mAhead \cup (IF tag = "table" THEN Interrupted ELSE {})
  BY <1>1, <1>2 DEF end_tag
<1>3. tag \in AllTags BY <1>1, <1>2, DocumentKnown, NestedShrinks
<1>4. CASE tag \in BlockTags
  <2>1. EndBlock(tag) /\ mTexts' = mTexts BY <1>1, <1>2, <1>4 DEF end_tag
  <2> QED BY <1>1, <1>2, <1>4, <1>6, <2>1, BlockEnds
<1>5. CASE tag \notin BlockTags
  <2>1. EndPart(tag) BY <1>1, <1>2, <1>5 DEF end_tag
  <2>2. mAhead' = mAhead BY <1>5, <1>6 DEF BlockTags
  <2> QED BY <1>1, <1>2, <1>3, <1>5, <2>1, <2>2, PartEnds
<1> QED BY <1>4, <1>5

-----------------------------------------------------------------------------
(* Texts and breaks open nothing.                                          *)

LEMMA OpenSame ==
  ASSUME DocumentInv, mOpen' = mOpen, UNCHANGED flagVars
  PROVE  OpenInv'
BY DEF DocumentInv, OpenInv, flagVars

LEMMA TextIn ==
  ASSUME DocumentInv, HoldsText
  PROVE  /\ mTable => Inner(mOpen) \notin {"table", "head", "row"}
         /\ mOpen # <<>>
<1>1. Innermost = Inner(mOpen) BY DocumentKnown
<1> QED BY <1>1 DEF HoldsText, Inner, InlineTags

\* Where a paragraph may begin, no table and no code is open.
LEMMA BlockIn ==
  ASSUME DocumentInv, "paragraph" \in MayHold(Innermost)
  PROVE  ~Has(mOpen, "table") /\ ~Has(mOpen, "code")
<1>1. Innermost = Inner(mOpen) /\ Nested(mOpen) BY DocumentKnown
<1>2. \A t : Has(mOpen, t) => Under(t, "paragraph") BY <1>1, NestedGrows
<1> QED BY <1>2 DEF Under, Cells, InlineTags

LEMMA TextKeeps ==
  ASSUME DocumentInv, on_text
  PROVE  DocumentInv'
<1>1. /\ mOpen' = mOpen /\ UNCHANGED flagVars /\ mRows' = mRows /\ mRow' = mRow
      /\ mTexts' = mTexts + 1 /\ HoldsText /\ mAhead' = mAhead
  BY DEF on_text
<1>2. OpenInv' BY <1>1, OpenSame
<1>3. /\ L \in Lines /\ Nested(mOpen) /\ mTexts \in Nat /\ mQuote \in Nat
      /\ TextState(mOpen, L, mRows, mRow, mCell, mBuffer, mTexts, mAhead)
  BY DocumentKnown DEF DocumentInv, TextInv
<1>4. PICK x \in Spans : x = Span(mTexts + 1) /\ x.text = mTexts + 1 BY SpanIs
<1>5. mTable = Has(mOpen, "table") /\ mCode = Has(mOpen, "code") BY DEF DocumentInv, OpenInv
<1>6. mTexts + 1 \in Nat BY <1>3
<1>7. CASE mTable
  <2>1. L' = L /\ mCell' = Append(mCell, x) /\ mBuffer' = mBuffer
    BY <1>4, <1>7, LineParts DEF on_text
  <2>2. Inner(mOpen) \notin {"table", "head", "row"} BY <1>1, <1>7, TextIn
  <2>3. TextState(mOpen, L, mRows, mRow, Append(mCell, x), mBuffer, mTexts + 1, mAhead)
    BY <1>3, <1>4, <1>5, <1>6, <1>7, <2>2, CellTold
  <2> QED BY <1>1, <1>2, <2>1, <2>3 DEF DocumentInv, TextInv
<1>8. CASE ~mTable /\ mCode
  <2>1. L' = L /\ mCell' = mCell /\ mBuffer' = Append(mBuffer, x)
    BY <1>4, <1>8, LineParts DEF on_text
  <2>2. TextState(mOpen, L, mRows, mRow, mCell, Append(mBuffer, x), mTexts + 1, mAhead)
    BY <1>3, <1>4, <1>5, <1>8, CodeTold
  <2> QED BY <1>1, <1>2, <2>1, <2>2 DEF DocumentInv, TextInv
<1>9. CASE ~mTable /\ ~mCode
  <2>1. PICK p \in Lines : p = emit_prefix_if_needed(L) /\ LineText(p) = LineText(L)
    BY <1>3, Prefixed DEF SaysAs
  <2>2. x.text # 0 BY <1>3, <1>4
  <2>3. PICK m \in Lines : m = push_span(p, x) /\ LineText(m) = Append(LineText(L), mTexts + 1)
    BY <1>4, <2>1, <2>2, SpanMore
  <2>4. WriteTo(m) /\ mCell' = mCell /\ mBuffer' = mBuffer
    BY <1>4, <1>9, <2>1, <2>3 DEF on_text
  <2>5. L' = m BY <2>4, WritesTo
  <2>6. TextState(mOpen, m, mRows, mRow, mCell, mBuffer, mTexts + 1, mAhead)
    <3>1. Innermost = Inner(mOpen) BY DocumentKnown
    <3>2. Inner(mOpen) # "code" BY <1>5, <1>9, <1>3, InnerIs DEF AllTags, BlockTags
    <3>3. Inner(mOpen) \in {"paragraph", "heading", "cell", "item"} \cup InlineTags
      BY <1>1, <3>1, <3>2 DEF HoldsText
    <3>4. mOpen # <<>> BY <1>1, TextIn
    <3>5. Writes(mOpen) BY <1>3, <1>5, <1>9, <3>3, <3>4, InLine
    <3> QED BY <1>3, <1>5, <1>9, <2>3, <3>5, LineTold
  <2> QED BY <1>1, <1>2, <2>4, <2>5, <2>6 DEF DocumentInv, TextInv
<1> QED BY <1>7, <1>8, <1>9

\* When what is held back stays, and what is on the lines says the same.
LEMMA LinesKeep ==
  ASSUME DocumentInv, NEW m, SaysAs(m, L), L' = m,
         Waits(m, L), mAhead' = mAhead,
         mOpen' = mOpen, UNCHANGED <<flagVars, mBuffer, tableVars, mTexts>>
  PROVE  DocumentInv'
<1>1. OpenInv' BY OpenSame
<1>2. TextState(mOpen, L, mRows, mRow, mCell, mBuffer, mTexts, mAhead) BY DEF DocumentInv, TextInv
<1>3. TextState(mOpen, m, mRows, mRow, mCell, mBuffer, mTexts, mAhead) BY <1>2, LinesTold
<1>4. /\ mRows' = mRows /\ mRow' = mRow /\ mCell' = mCell /\ mBuffer' = mBuffer
      /\ mTexts' = mTexts
  BY DEF tableVars
<1> QED BY <1>1, <1>3, <1>4 DEF DocumentInv, TextInv

LEMMA BreaksKeep ==
  ASSUME DocumentInv, on_soft_break \/ on_hard_break
  PROVE  DocumentInv'
<1>1. L \in Lines /\ Nested(mOpen) /\ mTexts \in Nat BY DocumentKnown
<1>2. mOpen' = mOpen /\ UNCHANGED flagVars /\ HoldsText /\ mTexts' = mTexts
      /\ mRows' = mRows /\ mRow' = mRow /\ mBuffer' = mBuffer /\ mAhead' = mAhead
  BY DEF on_soft_break, on_hard_break, tableVars
<1>3. CASE on_soft_break /\ mTable
  <2>1. L' = L /\ mCell' = Append(mCell, Mark) BY <1>3, LineParts DEF on_soft_break
  <2>2. Inner(mOpen) \notin {"table", "head", "row"} BY <1>2, <1>3, TextIn
  <2>3. TextState(mOpen, L, mRows, mRow, mCell, mBuffer, mTexts, mAhead) /\ Has(mOpen, "table")
    BY <1>3 DEF DocumentInv, TextInv, OpenInv
  <2>4. TextState(mOpen, L, mRows, mRow, Append(mCell, Mark), mBuffer, mTexts, mAhead)
    BY <1>1, <2>2, <2>3, MarkIs, CellTold
  <2>5. OpenInv' BY <1>2, OpenSame
  <2> QED BY <1>2, <2>1, <2>4, <2>5 DEF DocumentInv, TextInv
<1>4. CASE on_soft_break /\ ~mTable
  <2>1. PICK m \in Lines : m = push_span(L, Mark) /\ SaysAs(m, L) /\ Waits(m, L)
    BY <1>1, MarkIs, SpanMore DEF SaysAs, Waits
  <2>2. WriteTo(m) /\ mCell' = mCell BY <1>4, <2>1 DEF on_soft_break
  <2>3. L' = m BY <2>2, WritesTo
  <2>4. UNCHANGED <<flagVars, mBuffer, tableVars, mTexts>> BY <1>2, <2>2 DEF tableVars
  <2> QED BY <1>2, <2>1, <2>3, <2>4, LinesKeep
<1>5. CASE on_hard_break
  <2>1. PICK m \in Lines : m = flush_line(L) /\ SaysAs(m, L) /\ Waits(m, L)
    BY <1>1, LineEnds, TextsEmpty DEF SaysAs, Waits
  <2>2. WriteTo(m) /\ UNCHANGED <<flagVars, mBuffer, tableVars, mTexts>>
    BY <1>5, <2>1 DEF on_hard_break
  <2>3. L' = m BY <2>2, WritesTo
  <2> QED BY <1>2, <2>1, <2>2, <2>3, LinesKeep
<1> QED BY <1>3, <1>4, <1>5

LEMMA RuleKeeps ==
  ASSUME DocumentInv, on_rule
  PROVE  DocumentInv'
<1>1. L \in Lines BY DocumentKnown
<1>2. PICK f \in Lines : f = flush_line(L) /\ SaysAs(f, L) /\ f.spans = <<>>
  BY <1>1, LineEnds DEF SaysAs
<1>3. PICK g \in Lines : g = (IF f.has THEN push_blank_line(f) ELSE f) /\ SaysAs(g, L)
                         /\ g.spans = <<>>
  <2>1. SaysAs(push_blank_line(f), f) /\ push_blank_line(f).spans = f.spans BY BlankLine
  <2>2. SaysAs(push_blank_line(f), L) BY <1>2, <2>1, SaysSame
  <2> QED BY <1>2, <2>1, <2>2 DEF SaysAs
<1>4. PICK m : m = [g EXCEPT !.lines = Append(@, <<Mark>>), !.has = TRUE, !.needs = TRUE] OBVIOUS
<1>5. PICK s \in Seq(Spans) : s = <<Mark>> /\ TextsOf(s) = <<>>
  <2>1. <<Mark>> \in Seq(Spans) BY MarkIs
  <2> QED BY <2>1, MarkIs, TextsOne
<1>6. PICK b \in Seq(Seq(Spans)) : b = g.lines BY LinesAre
<1>7. Append(b, s) \in Seq(Seq(Spans)) /\ LinesText(Append(b, s)) = LinesText(b) \o TextsOf(s)
  BY LineMore
<1>8. m.lines = Append(b, s) /\ m.spans = g.spans BY <1>4, <1>5, <1>6 DEF Lines
<1>9. m \in Lines BY <1>4, <1>5, <1>6, <1>7 DEF Lines
<1>10. LineText(m) = LineText(g)
  <2>1. PICK p \in Seq(Numbers) : p = LinesText(b) BY <1>6, LinesAre
  <2>2. p \o <<>> = p BY NumbersJoined
  <2> QED BY <1>5, <1>6, <1>7, <1>8, <2>1, <2>2 DEF LineText
<1>11. SaysAs(m, L) /\ Waits(m, L) BY <1>3, <1>8, <1>9, <1>10, TextsEmpty DEF SaysAs, Waits
<1>12. /\ WriteTo(m) /\ mOpen' = mOpen /\ mAhead' = mAhead
       /\ UNCHANGED <<flagVars, mBuffer, tableVars, mTexts>>
  BY <1>2, <1>3, <1>4 DEF on_rule
<1>13. L' = m BY <1>9, <1>12, WritesTo
<1> QED BY <1>11, <1>12, <1>13, LinesKeep

LEMMA HtmlKeeps ==
  ASSUME DocumentInv, on_html
  PROVE  DocumentInv'
<1>1. /\ L \in Lines /\ mTexts \in Nat /\ mQuote \in Nat
      /\ TextState(mOpen, L, mRows, mRow, mCell, mBuffer, mTexts, mAhead)
  BY DocumentKnown DEF DocumentInv, TextInv
<1>2. ~Has(mOpen, "table") /\ ~Has(mOpen, "code") BY BlockIn DEF on_html
<1>3. PICK x \in Spans : x = Span(mTexts + 1) /\ x.text = mTexts + 1 BY SpanIs
<1>4. PICK p \in Lines : p = emit_prefix_if_needed(L) /\ LineText(p) = LineText(L)
  BY <1>1, Prefixed DEF SaysAs
<1>5. x.text # 0 BY <1>1, <1>3
<1>6. PICK q \in Lines : q = push_span(p, x) /\ LineText(q) = Append(LineText(L), mTexts + 1)
  BY <1>3, <1>4, <1>5, SpanMore
<1>7. PICK m \in Lines : m = flush_line(q) /\ LineText(m) = Append(LineText(L), mTexts + 1)
                         /\ TextsOf(m.spans) = <<>>
  BY <1>6, LineEnds, TextsEmpty DEF SaysAs
<1>8. /\ WriteTo(m) /\ mTexts' = mTexts + 1 /\ mOpen' = mOpen /\ mAhead' = mAhead
      /\ UNCHANGED <<flagVars, mBuffer, tableVars>>
  BY <1>3, <1>4, <1>6, <1>7 DEF on_html
<1>9. L' = m BY <1>8, WritesTo
<1>10. TextState(mOpen, m, mRows, mRow, mCell, mBuffer, mTexts + 1, mAhead)
  BY <1>1, <1>2, <1>7, LineTold
<1>11. mRows' = mRows /\ mRow' = mRow /\ mCell' = mCell /\ mBuffer' = mBuffer
  BY <1>8 DEF tableVars
<1>12. OpenInv' BY <1>8, OpenSame
<1> QED BY <1>8, <1>9, <1>10, <1>11, <1>12 DEF DocumentInv, TextInv

LEMMA DocumentBegins ==
  ASSUME PagesEmpty
  PROVE  DocumentInv
<1>1. Nested(<<>>) BY DEF Nested
<1>2. \A t : Has(<<>>, t) = FALSE BY DEF Has
<1>3. /\ Only(<<>>, Styled) = <<>> /\ Only(<<>>, {"list"}) = <<>>
      /\ Only(<<>>, {"quote"}) = <<>>
  BY OnlyEmpty
<1>10. Len(<<>>) = 0 /\ <<>> \in Seq(Nat) OBVIOUS
<1>4. OpenInv BY <1>1, <1>2, <1>3, <1>10 DEF PagesEmpty, OpenInv
<1>11. <<>> \in Seq(Seq(Spans)) /\ <<>> \in Seq(Spans) OBVIOUS
<1>5. L \in Lines /\ L.lines = <<>> /\ L.spans = <<>>
  BY <1>11 DEF PagesEmpty, L, Lines
<1>6. LineText(L) = <<>>
  <2>1. <<>> \o <<>> = <<>> OBVIOUS
  <2> QED BY <1>5, <2>1, FlattenEmpty, TextsEmpty DEF LineText, LinesText
<1>7. Tells(<<>>, <<>>, <<>>, 0, {})
  <2>1. (<<>> \o <<>>) \o <<>> = <<>> OBVIOUS
  <2>2. Once(<<>>, 0) /\ Ordered(<<>>, 0, {})
    <3>1. 1..0 = {} OBVIOUS
    <3> QED BY <1>10, <3>1 DEF Once, Ordered, Numbers
  <2>3. Orderly(<<>>, 0, {}) BY <2>2, OrderlyIs
  <2> QED BY <2>1, <2>3 DEF Tells, Before
<1>8. Held(<<>>, L, <<>>, <<>>, <<>>, <<>>) BY <1>2, <1>5, TextsEmpty DEF Held
<1>9. TextState(<<>>, L, <<>>, <<>>, <<>>, <<>>, 0, {})
  BY <1>2, <1>6, <1>7, <1>8, TextsEmpty DEF TextState, TableText
<1> QED BY <1>4, <1>9 DEF PagesEmpty, DocumentInv, TextInv

LEMMA DocumentStep ==
  ASSUME DocumentInv, [PagesNext]_pagesVars
  PROVE  DocumentInv'
<1>1. CASE UNCHANGED pagesVars
  <2>1. OpenInv' BY <1>1, OpenSame DEF pagesVars
  <2>2. L' = L /\ mRows' = mRows /\ mRow' = mRow /\ mCell' = mCell /\ mBuffer' = mBuffer
        /\ mTexts' = mTexts /\ mOpen' = mOpen /\ mAhead' = mAhead
    BY <1>1, LineParts DEF pagesVars, tableVars
  <2> QED BY <2>1, <2>2 DEF DocumentInv, TextInv
<1>2. CASE PagesNext
  BY <1>2, StartKeeps, EndKeeps, TextKeeps, BreaksKeep, RuleKeeps, HtmlKeeps DEF PagesNext
<1> QED BY <1>1, <1>2

LEMMA KeptIs ==
  ASSUME DocumentInv
  PROVE  DocumentKept
<1>1. /\ L \in Lines /\ Nested(mOpen) /\ mOpen \in Seq(AllTags)
      /\ Held(mOpen, L, mRows, mRow, mCell, mBuffer)
      /\ mRows \in Seq(Seq(Seq(Spans))) /\ mRow \in Seq(Seq(Spans))
      /\ mCell \in Seq(Spans) /\ mBuffer \in Seq(Spans)
  BY DocumentKnown
<1>2. \A t : IsOpen(t) <=> Has(mOpen, t) BY <1>1, HasIs
<1>3. mTable = IsOpen("table") /\ mCode = IsOpen("code") /\ mHeading = IsOpen("heading")
  BY <1>2 DEF DocumentInv, OpenInv, Has, IsOpen
<1>4. /\ mStyles = Only(mOpen, {"heading", "emphasis"})
      /\ Len(mList) = Count("list") /\ mQuote = Count("quote")
  BY DEF DocumentInv, OpenInv, Styled, Count
<1>5. PICK a \in Seq(Spans), s \in Seq(Spans), b \in Seq(Spans) :
        a = FlattenSeq(mLines) /\ s = mSpans /\ b = mBuffer
  BY <1>1, LinesAre, LineParts
<1>6. PICK t \in Seq(Spans) :
        /\ t = IF mTable THEN FlattenSeq(FlattenSeq(Append(mRows, mRow))) \o mCell ELSE <<>>
        /\ TextsOf(t) = TableText(mOpen, mRows, mRow, mCell)
  <2>1. CASE mTable
    <3>1. /\ Append(mRows, mRow) \in Seq(Seq(Seq(Spans)))
          /\ RowsText(Append(mRows, mRow)) = RowsText(mRows) \o CellsText(mRow)
      BY <1>1, RowMore
    <3>2. PICK r \in Seq(Spans) : r = FlattenSeq(FlattenSeq(Append(mRows, mRow)))
      BY <3>1, RowsAre
    <3>3. PICK c \in Seq(Spans) : c = mCell BY <1>1
    <3>4. r \o c \in Seq(Spans) /\ TextsOf(r \o c) = TextsOf(r) \o TextsOf(c)
      BY ConcatProperties, TextsConcat
    <3>5. TextsOf(r) = RowsText(mRows) \o CellsText(mRow) BY <3>1, <3>2 DEF RowsText, CellsText
    <3>6. PICK x \in Numberings, y \in Numberings, z \in Numberings :
            x = RowsText(mRows) /\ y = CellsText(mRow) /\ z = TextsOf(c)
      BY <1>1, <3>3, TextsKnown DEF Numberings
    <3>10. Joined(Joined(x, y), z) = Joined(x, Joined(y, z)) BY JoinedIs
    <3>7. (x \o y) \o z = x \o (y \o z) BY <3>10 DEF Joined
    <3>8. Has(mOpen, "table") BY <1>2, <1>3, <2>1
    <3>9. TextsOf(r \o c) = TableText(mOpen, mRows, mRow, mCell)
      BY <3>3, <3>4, <3>5, <3>6, <3>7, <3>8 DEF TableText
    <3> QED BY <2>1, <3>2, <3>3, <3>4, <3>9
  <2>2. CASE ~mTable
    <3>1. TableText(mOpen, mRows, mRow, mCell) = <<>> BY <1>2, <1>3, <2>2 DEF TableText
    <3>2. <<>> \in Seq(Spans) OBVIOUS
    <3> QED BY <2>2, <3>1, <3>2, TextsEmpty
  <2> QED BY <2>1, <2>2
<1>7. PICK u \in Seq(Spans) : u = a \o s /\ TextsOf(u) = TextsOf(a) \o TextsOf(s)
  BY ConcatProperties, TextsConcat
<1>8. PICK v \in Seq(Spans) : v = u \o t /\ TextsOf(v) = TextsOf(u) \o TextsOf(t)
  BY ConcatProperties, TextsConcat
<1>9. TextsOf(v \o b) = TextsOf(v) \o TextsOf(b) BY TextsConcat
<1>10. LineText(L) = TextsOf(u) BY <1>5, <1>7, LineParts DEF LineText, LinesText
<1>11. Tells(LineText(L), TableText(mOpen, mRows, mRow, mCell), TextsOf(mBuffer), mTexts, mAhead)
  BY DEF DocumentInv, TextInv, TextState
<1>12. Written = TextsOf(v \o b) BY <1>5, <1>6, <1>7, <1>8 DEF Written
<1>13. InOrderBut(mAhead, Written, mTexts)
  BY <1>5, <1>6, <1>8, <1>9, <1>10, <1>11, <1>12 DEF Tells, Orderly
<1>14. mTable /\ ~IsOpen("item") => TextsOf(mSpans) = <<>>
  <2>1. SUFFICES ASSUME Has(mOpen, "table"), ~Has(mOpen, "item") PROVE TextsOf(mSpans) = <<>>
    BY <1>2, <1>3
  <2>2. ~Has(mOpen, "paragraph") /\ ~Has(mOpen, "heading")
    <3>1. ASSUME NEW tag \in {"paragraph", "heading"}, Has(mOpen, tag) PROVE FALSE
      <4>1. PICK i \in 1..Len(mOpen), j \in 1..Len(mOpen) : mOpen[i] = tag /\ mOpen[j] = "table"
        BY <2>1, <3>1 DEF Has
      <4>2. i # j BY <4>1
      <4>3. i < j \/ j < i BY <1>1, <4>2
      <4>4. Under(mOpen[i], mOpen[j]) \/ Under(mOpen[j], mOpen[i]) BY <1>1, <4>3 DEF Nested
      <4> QED BY <4>1, <4>4 DEF Under, Cells, InlineTags
    <3> QED BY <3>1
  <2> QED BY <1>1, <2>1, <2>2, LineParts DEF Held, Writes
<1> QED BY <1>3, <1>4, <1>13, <1>14 DEF DocumentKept

-----------------------------------------------------------------------------
(* Columns.  A total is reached column by column.                          *)

Sums(u, w, N) ==
  /\ u \in [0..N -> Nat] /\ u[0] = 0 /\ \A n \in 1..N : u[n] = u[n - 1] + w[n]

LEMMA SumsExist ==
  ASSUME NEW N \in Nat, NEW w \in [1..N -> Nat]
  PROVE  \E u : Sums(u, w, N)
<1> DEFINE step == [x \in (1..N) \X Nat |-> x[2] + w[x[1]]]
<1>1. \A i \in 1..N : \A x \in Nat : step[<<i, x>>] = x + w[i] OBVIOUS
<1>2. step \in [(1..N) \X Nat -> Nat]
  <2>1. ASSUME NEW i \in 1..N, NEW x \in Nat PROVE x + w[i] \in Nat OBVIOUS
  <2> QED BY <2>1
<1> HIDE DEF step
<1>3. PICK f : Climbs(f, N, Nat, 0, step) BY <1>2, Upwards
<1>4. f \in [0..N -> Nat] /\ f[0] = 0 /\ \A n \in 1..N : f[n] = step[<<n, f[n - 1]>>]
  BY <1>3 DEF Climbs
<1>5. ASSUME NEW n \in 1..N PROVE f[n] = f[n - 1] + w[n]
  <2>1. n - 1 \in 0..N OBVIOUS
  <2>2. f[n - 1] \in Nat BY <1>4, <2>1
  <2> QED BY <1>1, <1>4, <2>2
<1> QED BY <1>4, <1>5 DEF Sums

LEMMA SumsOne ==
  ASSUME NEW N \in Nat, NEW w, NEW u, NEW v, Sums(u, w, N),
         v[0] = 0, \A n \in 1..N : v[n] = v[n - 1] + w[n]
  PROVE  v[N] = u[N]
<1> DEFINE S == {n \in 0..N : v[n] = u[n]}
<1>1. 0 \in S BY DEF Sums
<1>2. ASSUME NEW n \in 0..N - 1, n \in S PROVE n + 1 \in S
  <2>1. PICK k \in 1..N : k = n + 1 /\ k - 1 = n /\ k \in 0..N OBVIOUS
  <2>2. v[k] = v[n] + w[k] /\ u[k] = u[n] + w[k] BY <2>1 DEF Sums
  <2> QED BY <1>2, <2>1, <2>2
<1> HIDE DEF S
<1>3. 0..N \subseteq S BY <1>1, <1>2, InductionUpTo
<1>4. N \in S BY <1>3
<1> QED BY <1>4 DEF S

LEMMA TotalIs ==
  ASSUME NEW N \in Nat, NEW w \in [1..N -> Nat]
  PROVE  \E u : Sums(u, w, N) /\ Total(w) = u[N]
<1>1. PICK u : Sums(u, w, N) BY SumsExist
<1>2. Len(w) = N /\ DOMAIN w = 1..N
  <2>1. w \in Seq(Nat) BY SeqDef
  <2>2. DOMAIN w = 1..N OBVIOUS
  <2>3. DOMAIN w = 1..Len(w) /\ Len(w) \in Nat BY <2>1, LenProperties
  <2> QED BY <2>2, <2>3
<1> DEFINE Is(h) == h = [n \in 0..N |-> IF n = 0 THEN 0 ELSE h[n - 1] + w[n]]
           h == CHOOSE h : Is(h)
<1>3. Total(w) = h[N] BY <1>2 DEF Total
<1>4. Is(u)
  <2>1. u = [n \in 0..N |-> u[n]] BY <1>1 DEF Sums
  <2>2. ASSUME NEW n \in 0..N PROVE u[n] = IF n = 0 THEN 0 ELSE u[n - 1] + w[n]
    <3>1. n # 0 => n \in 1..N OBVIOUS
    <3> QED BY <1>1, <3>1 DEF Sums
  <2> QED BY <2>1, <2>2
<1>5. Is(h)
  <2> HIDE DEF Is
  <2> QED BY <1>4
<1> HIDE DEF h
<1>6. h[0] = 0 /\ \A n \in 1..N : h[n] = h[n - 1] + w[n]
  <2>1. \A n \in 0..N : h[n] = IF n = 0 THEN 0 ELSE h[n - 1] + w[n] BY <1>5
  <2>2. 0 \in 0..N /\ \A n \in 1..N : n \in 0..N /\ n # 0 OBVIOUS
  <2> QED BY <2>1, <2>2
<1>7. h[N] = u[N] BY <1>1, <1>6, SumsOne
<1> QED BY <1>1, <1>3, <1>7

\* How many of the first n are in X
UpTo(X, n) == Cardinality({j \in X : j <= n})

LEMMA CountUp ==
  ASSUME NEW N \in Nat, NEW X \in SUBSET (1..N)
  PROVE  /\ UpTo(X, 0) = 0 /\ UpTo(X, N) = Cardinality(X)
         /\ Cardinality(X) \in Nat
         /\ \A n \in 0..N : UpTo(X, n) \in Nat
         /\ \A n \in 1..N : UpTo(X, n) = UpTo(X, n - 1) + (IF n \in X THEN 1 ELSE 0)
         /\ \A n \in 1..N : UpTo(X, n - 1) = Cardinality({j \in X : j < n})
<1>1. IsFiniteSet(X)
  <2>1. IsFiniteSet(1..N) BY FS_Interval
  <2> QED BY <2>1, FS_Subset
<1>2. \A n \in 0..N : IsFiniteSet({j \in X : j <= n})
  <2>1. \A n \in 0..N : {j \in X : j <= n} \subseteq X OBVIOUS
  <2> QED BY <1>1, <2>1, FS_Subset
<1>3. \A n \in 0..N : UpTo(X, n) \in Nat BY <1>2, FS_CardinalityType DEF UpTo
<1>4. UpTo(X, 0) = 0
  <2>1. \A j \in X : ~(j <= 0) OBVIOUS
  <2>2. {j \in X : j <= 0} = {} BY <2>1
  <2> QED BY <2>2, FS_EmptySet DEF UpTo
<1>5. UpTo(X, N) = Cardinality(X)
  <2>1. \A j \in X : j <= N OBVIOUS
  <2>2. {j \in X : j <= N} = X BY <2>1
  <2> QED BY <2>2 DEF UpTo
<1>6. ASSUME NEW n \in 1..N
      PROVE  /\ UpTo(X, n) = UpTo(X, n - 1) + (IF n \in X THEN 1 ELSE 0)
             /\ UpTo(X, n - 1) = Cardinality({j \in X : j < n})
  <2>1. PICK S : S = {j \in X : j <= n - 1} OBVIOUS
  <2>2. n - 1 \in 0..N OBVIOUS
  <2>3. IsFiniteSet(S) BY <1>2, <2>1, <2>2
  <2>4. n \notin S BY <2>1
  <2>9. \A j \in X : (j <= n <=> j <= n - 1 \/ j = n) /\ (j < n <=> j <= n - 1) OBVIOUS
  <2>10. n \in X => {j \in X : j <= n} = S \cup {n} BY <2>1, <2>9
  <2>11. n \notin X => {j \in X : j <= n} = S BY <2>1, <2>9
  <2>5. {j \in X : j <= n} = IF n \in X THEN S \cup {n} ELSE S BY <2>10, <2>11
  <2>6. Cardinality(S \cup {n}) = Cardinality(S) + 1 BY <2>3, <2>4, FS_AddElement
  <2>7. Cardinality(S) \in Nat BY <2>3, FS_CardinalityType
  <2>8. {j \in X : j < n} = S BY <2>1, <2>9
  <2> QED BY <2>1, <2>5, <2>6, <2>7, <2>8 DEF UpTo
<1>7. Cardinality(X) \in Nat BY <1>1, FS_CardinalityType
<1> QED BY <1>3, <1>4, <1>5, <1>6, <1>7

Tables == [natural : Seq(Nat), available : Nat]
Columns(in) == 1..Len(in.natural)
Kept(in, S) == [i \in Columns(in) |-> IF i \in S THEN in.natural[i] ELSE 0]

LEMMA TableIs ==
  ASSUME NEW in \in Tables
  PROVE  /\ in.available \in Nat /\ Len(in.natural) \in Nat
         /\ in.natural \in [Columns(in) -> Nat] /\ DOMAIN in.natural = Columns(in)
<1>1. in.available \in Nat /\ in.natural \in Seq(Nat) BY DEF Tables
<1> QED BY <1>1, LenProperties DEF Columns

LEMMA KeptSums ==
  ASSUME NEW in \in Tables, NEW S
  PROVE  \E u : Sums(u, Kept(in, S), Len(in.natural)) /\ Total(Kept(in, S)) = u[Len(in.natural)]
<1>1. Kept(in, S) \in [1..Len(in.natural) -> Nat] BY TableIs DEF Kept, Columns
<1> QED BY <1>1, TableIs, TotalIs

LEMMA LeftIs ==
  ASSUME NEW in \in Tables, NEW S
  PROVE  /\ Left(in, S) = IF in.available > Total(Kept(in, S))
                          THEN in.available - Total(Kept(in, S)) ELSE 0
         /\ Total(Kept(in, S)) \in Nat
         /\ Wide(in, S) = Cardinality(Columns(in) \ S)
<1>1. [i \in DOMAIN in.natural |-> IF i \in S THEN in.natural[i] ELSE 0] = Kept(in, S)
  BY TableIs DEF Kept
<1>2. PICK u : Sums(u, Kept(in, S), Len(in.natural)) /\ Total(Kept(in, S)) = u[Len(in.natural)]
  BY KeptSums
<1>3. Len(in.natural) \in 0..Len(in.natural) BY TableIs
<1>4. Total(Kept(in, S)) \in Nat BY <1>2, <1>3 DEF Sums
<1>5. Left(in, S) = IF in.available > Total(Kept(in, S))
                    THEN in.available - Total(Kept(in, S)) ELSE 0
  BY <1>1 DEF Left
<1>6. Wide(in, S) = Cardinality(Columns(in) \ S) BY TableIs DEF Wide
<1> QED BY <1>4, <1>5, <1>6

\* What is left has room for a column's width for each that is not locked.
Roomy(in, S) ==
  S \subseteq Columns(in) /\ Total(Kept(in, S)) + Wide(in, S) <= in.available

\* With t taken, w shares of q and r more are all of a.
Fills(t, w, q, r, a) ==
  /\ q \in Nat /\ q >= 1 /\ r \in Nat /\ r < w
  /\ t + (w * q + r) = a

LEMMA Sharing ==
  ASSUME NEW a \in Nat, NEW w \in Nat, NEW t \in Nat, t + w <= a, w # 0
  PROVE  Fills(t, w, (a - t) \div w, (a - t) % w, a)
<1>1. PICK l \in Nat : l = a - t OBVIOUS
<1>2. PICK q \in Nat, r \in Nat : q = l \div w /\ r = l % w /\ r < w /\ l = w * q + r OBVIOUS
<1>3. q >= 1
  <2>1. CASE q = 0
    <3>1. w * q = 0 BY <2>1
    <3> QED BY <1>1, <1>2, <3>1
  <2> QED BY <2>1
<1>4. PICK p \in Nat : p = w * q OBVIOUS
<1>5. t + (p + r) = a BY <1>1, <1>2, <1>4
<1>6. t + (w * q + r) = a BY <1>4, <1>5
<1>7. (a - t) \div w = q /\ (a - t) % w = r BY <1>1, <1>2
<1>8. Fills(t, w, q, r, a) BY <1>2, <1>3, <1>6 DEF Fills
<1> QED BY <1>7, <1>8

LEMMA Spreading ==
  ASSUME NEW k \in Nat, NEW w \in Nat, NEW q \in Nat, k <= w, q >= 1
  PROVE  k * q + (w - k) <= w * q /\ k * q \in Nat /\ w * q \in Nat
<1>1. PICK m \in Nat : m = w - k OBVIOUS
<1>2. w * q = k * q + m * q BY <1>1
<1>3. PICK p \in Nat : q = p + 1
  <2>1. q - 1 \in Nat OBVIOUS
  <2> QED BY <2>1
<1>4. m * q = m * p + m BY <1>3
<1>5. k * q \in Nat /\ m * p \in Nat OBVIOUS
<1> QED BY <1>1, <1>2, <1>4, <1>5

LEMMA SharedRoom ==
  ASSUME NEW in \in Tables, NEW S, Roomy(in, S)
  PROVE  /\ Share(in, S) \in Nat
         /\ Wide(in, S) \in Nat
         /\ Wide(in, S) # 0 =>
              Fills(Total(Kept(in, S)), Wide(in, S), Share(in, S),
                    Left(in, S) % Wide(in, S), in.available)
<1>1. PICK t \in Nat : t = Total(Kept(in, S)) BY LeftIs
<1>2. PICK a \in Nat : a = in.available BY TableIs
<1>3. Wide(in, S) \in Nat
  <2>1. Columns(in) \ S \in SUBSET (1..Len(in.natural)) BY DEF Columns
  <2>2. Cardinality(Columns(in) \ S) \in Nat BY <2>1, TableIs, CountUp
  <2> QED BY <2>2, LeftIs
<1>4. PICK w \in Nat : w = Wide(in, S) BY <1>3
<1>5. t + w <= a BY <1>1, <1>2, <1>4 DEF Roomy
<1>6. Left(in, S) = a - t
  <2>1. Left(in, S) = IF a > t THEN a - t ELSE 0 BY <1>1, <1>2, LeftIs
  <2>2. a > t \/ a - t = 0 BY <1>5
  <2> QED BY <2>1, <2>2
<1>7. CASE w = 0 BY <1>4, <1>7 DEF Share
<1>8. CASE w # 0
  <2>1. Share(in, S) = (a - t) \div w BY <1>4, <1>6, <1>8 DEF Share
  <2>2. Fills(t, w, (a - t) \div w, (a - t) % w, a) BY <1>5, <1>8, Sharing
  <2>3. Share(in, S) \in Nat BY <2>1, <2>2 DEF Fills
  <2> QED BY <1>1, <1>2, <1>4, <1>6, <2>1, <2>2, <2>3
<1> QED BY <1>7, <1>8

LockMore(in, S) == S \cup {i \in Columns(in) : in.natural[i] <= Share(in, S)}

LEMMA LockKeepsRoom ==
  ASSUME NEW in \in Tables, NEW S, Roomy(in, S)
  PROVE  Roomy(in, LockMore(in, S))
<1>1. PICK N \in Nat : N = Len(in.natural) /\ Columns(in) = 1..N BY TableIs DEF Columns
<1>2. PICK q \in Nat : q = Share(in, S) BY SharedRoom
<1>3. PICK R \in SUBSET (1..N) : R = LockMore(in, S) BY <1>1 DEF LockMore, Roomy
<1>4. PICK u : Sums(u, Kept(in, S), N) /\ Total(Kept(in, S)) = u[N] BY <1>1, KeptSums
<1>5. PICK v : Sums(v, Kept(in, R), N) /\ Total(Kept(in, R)) = v[N] BY <1>1, KeptSums
<1>6. PICK X \in SUBSET (1..N) : X = R \ S OBVIOUS
<1> DEFINE c(n) == UpTo(X, n)
<1>7. /\ c(0) = 0 /\ c(N) = Cardinality(X) /\ \A n \in 0..N : c(n) \in Nat
      /\ \A n \in 1..N : c(n) = c(n - 1) + (IF n \in X THEN 1 ELSE 0)
  BY CountUp
<1> HIDE DEF c
<1>8. /\ \A n \in 1..N : Kept(in, S)[n] = IF n \in S THEN in.natural[n] ELSE 0
      /\ \A n \in 1..N : Kept(in, R)[n] = IF n \in R THEN in.natural[n] ELSE 0
  BY <1>1 DEF Kept
<1>9. /\ S \subseteq R /\ \A n \in X : in.natural[n] <= q
      /\ \A n \in 1..N : in.natural[n] \in Nat
  BY <1>1, <1>2, <1>3, <1>6, TableIs DEF LockMore
<1> DEFINE T == {n \in 0..N : v[n] <= u[n] + c(n) * q}
<1>10. 0 \in T
  <2>1. 0 * q = 0 OBVIOUS
  <2> QED BY <1>4, <1>5, <1>7, <2>1 DEF Sums
<1>11. ASSUME NEW n \in 0..N - 1, n \in T PROVE n + 1 \in T
  <2>1. PICK k \in 1..N : k = n + 1 /\ k - 1 = n /\ k \in 0..N OBVIOUS
  <2>8. n \in 0..N OBVIOUS
  <2>9. u[n] \in Nat /\ v[n] \in Nat /\ c(n) \in Nat /\ in.natural[k] \in Nat
    BY <1>4, <1>5, <1>7, <1>9, <2>8 DEF Sums
  <2>2. PICK a \in Nat, b \in Nat, d \in Nat, w \in Nat :
          a = u[n] /\ b = v[n] /\ d = c(n) /\ w = in.natural[k]
    BY <2>9
  <2>3. u[k] = a + (IF k \in S THEN w ELSE 0) /\ v[k] = b + (IF k \in R THEN w ELSE 0)
    BY <1>4, <1>5, <1>8, <2>1, <2>2 DEF Sums
  <2>4. c(k) = d + (IF k \in X THEN 1 ELSE 0) BY <1>7, <2>1, <2>2
  <2>5. b <= a + d * q /\ d * q \in Nat BY <1>11, <2>2
  <2>6. (d + 1) * q = d * q + q OBVIOUS
  <2>7. v[k] <= u[k] + c(k) * q
    <3>1. CASE k \in X
      <4>1. k \in R /\ k \notin S /\ w <= q BY <1>6, <1>9, <2>2, <3>1
      <4> QED BY <2>3, <2>4, <2>5, <2>6, <3>1, <4>1
    <3>2. CASE k \notin X
      <4>1. k \in R <=> k \in S BY <1>6, <1>9, <3>2
      <4>2. c(k) = d BY <2>4, <3>2
      <4> QED BY <2>3, <2>5, <4>1, <4>2
    <3> QED BY <3>1, <3>2
  <2> QED BY <2>1, <2>7
<1> HIDE DEF T
<1>12. 0..N \subseteq T BY <1>10, <1>11, InductionUpTo
<1>13. v[N] <= u[N] + Cardinality(X) * q
  <2>1. N \in T BY <1>12
  <2> QED BY <1>7, <2>1 DEF T
<1>14. /\ Wide(in, R) = Wide(in, S) - Cardinality(X) /\ Cardinality(X) <= Wide(in, S)
       /\ Cardinality(X) \in Nat
  <2>1. PICK Y \in SUBSET (1..N) : Y = (1..N) \ S OBVIOUS
  <2>2. IsFiniteSet(Y)
    <3>1. IsFiniteSet(1..N) BY FS_Interval
    <3> QED BY <3>1, FS_Subset
  <2>3. (1..N) \ R = Y \ X /\ Y \cap X = X BY <1>3, <1>6, <1>9, <2>1
  <2>4. Cardinality(Y \ X) = Cardinality(Y) - Cardinality(Y \cap X) BY <2>2, FS_Difference
  <2>5. Cardinality(X) <= Cardinality(Y)
    <3>1. X \subseteq Y BY <2>3
    <3> QED BY <2>2, <3>1, FS_Subset
  <2>6. Cardinality(X) \in Nat BY CountUp
  <2>7. Wide(in, S) = Cardinality(Y) /\ Wide(in, R) = Cardinality(Y \ X)
    BY <1>1, <2>1, <2>3, LeftIs
  <2> QED BY <2>3, <2>4, <2>5, <2>6, <2>7
<1>15. PICK w \in Nat, k \in Nat, a \in Nat, t \in Nat, r \in Nat :
         /\ w = Wide(in, S) /\ k = Cardinality(X) /\ a = in.available
         /\ t = u[N] /\ r = v[N]
  BY <1>4, <1>5, <1>14, SharedRoom, TableIs, LeftIs
<1>16. t + w <= a /\ r <= t + k * q /\ k <= w BY <1>4, <1>13, <1>14, <1>15 DEF Roomy
<1>17. r + (w - k) <= a
  <2>1. CASE w = 0
    <3>1. k = 0 /\ k * q = 0 BY <1>16, <2>1
    <3> QED BY <1>16, <2>1, <3>1
  <2>2. CASE w # 0
    <3>3. Fills(t, w, q, Left(in, S) % Wide(in, S), a)
      BY <1>2, <1>4, <1>15, <2>2, SharedRoom
    <3>4. PICK p : Fills(t, w, q, p, a) BY <3>3
    <3>1. p \in Nat /\ t + (w * q + p) = a /\ q >= 1 BY <3>4 DEF Fills
    <3>2. k * q + (w - k) <= w * q /\ k * q \in Nat /\ w * q \in Nat BY <1>16, <3>1, Spreading
    <3> QED BY <1>16, <3>1, <3>2
  <2> QED BY <2>1, <2>2
<1> QED BY <1>1, <1>3, <1>5, <1>14, <1>15, <1>17 DEF Roomy

LEMMA NothingLocked ==
  ASSUME NEW in \in Tables, in.available > Len(in.natural)
  PROVE  Roomy(in, {})
<1>1. PICK N \in Nat : N = Len(in.natural) /\ Columns(in) = 1..N BY TableIs DEF Columns
<1>2. PICK u : Sums(u, Kept(in, {}), N) /\ Total(Kept(in, {})) = u[N] BY <1>1, KeptSums
<1>3. \A n \in 1..N : Kept(in, {})[n] = 0 BY <1>1 DEF Kept
<1> DEFINE z == [n \in 0..N |-> 0]
<1>4. z[0] = 0 /\ z[N] = 0 /\ \A n \in 1..N : z[n] = z[n - 1] + Kept(in, {})[n]
  <2>1. \A n \in 1..N : n \in 0..N /\ n - 1 \in 0..N OBVIOUS
  <2>2. 0 \in 0..N /\ N \in 0..N OBVIOUS
  <2> QED BY <1>3, <2>1, <2>2
<1> HIDE DEF z
<1>5. u[N] = 0 BY <1>2, <1>4, SumsOne
<1>6. Wide(in, {}) = N
  <2>1. (1..N) \ {} = 1..N OBVIOUS
  <2>2. Cardinality(1..N) = N BY FS_Interval
  <2> QED BY <1>1, <2>1, <2>2, LeftIs
<1> QED BY <1>1, <1>2, <1>5, <1>6, TableIs DEF Roomy

LEMMA LockedIsRoomy ==
  ASSUME NEW in \in Tables, in.available > Len(in.natural)
  PROVE  Roomy(in, Locked(in))
<1>1. PICK N \in Nat : N = Len(in.natural) /\ Columns(in) = 1..N BY TableIs DEF Columns
<1> DEFINE Is(h) == h = [n \in 0..Len(in.natural) |->
                           IF n = 0 THEN {}
                           ELSE h[n - 1] \cup {i \in DOMAIN in.natural :
                                                 in.natural[i] <= Share(in, h[n - 1])}]
           h == CHOOSE h : Is(h)
           step == [x \in (1..N) \X SUBSET (1..N) |-> LockMore(in, x[2])]
<1>2. Locked(in) = h[N] BY <1>1 DEF Locked
<1>3. \A i \in 1..N : \A S \in SUBSET (1..N) : step[<<i, S>>] = LockMore(in, S) OBVIOUS
<1>4. step \in [(1..N) \X SUBSET (1..N) -> SUBSET (1..N)] BY <1>1 DEF LockMore
<1> HIDE DEF step
<1>5. PICK f : Climbs(f, N, SUBSET (1..N), {}, step) BY <1>4, Upwards
<1>6. /\ f \in [0..N -> SUBSET (1..N)] /\ f[0] = {}
      /\ \A n \in 1..N : f[n] = step[<<n, f[n - 1]>>]
  BY <1>5 DEF Climbs
<1>7. Is(f)
  <2>1. f = [n \in 0..N |-> f[n]] BY <1>6
  <2>2. ASSUME NEW n \in 0..N
        PROVE  f[n] = IF n = 0 THEN {}
                      ELSE f[n - 1] \cup {i \in DOMAIN in.natural :
                                            in.natural[i] <= Share(in, f[n - 1])}
    <3>1. CASE n = 0 BY <1>6, <3>1
    <3>2. CASE n # 0
      <4>1. n \in 1..N /\ n - 1 \in 0..N BY <3>2
      <4>2. f[n] = LockMore(in, f[n - 1]) BY <1>3, <1>6, <4>1
      <4> QED BY <3>2, <4>2, TableIs DEF LockMore
    <3> QED BY <3>1, <3>2
  <2> QED BY <1>1, <2>1, <2>2
<1>8. Is(h)
  <2> HIDE DEF Is
  <2> QED BY <1>7
<1> HIDE DEF h
<1>9. h[0] = {} /\ \A n \in 1..N : h[n] = LockMore(in, h[n - 1])
  <2>1. \A n \in 0..N : h[n] = IF n = 0 THEN {}
                               ELSE h[n - 1] \cup {i \in DOMAIN in.natural :
                                                     in.natural[i] <= Share(in, h[n - 1])}
    BY <1>1, <1>8
  <2>2. 0 \in 0..N /\ \A n \in 1..N : n \in 0..N /\ n # 0 OBVIOUS
  <2>3. h[0] = {} BY <2>1, <2>2
  <2>4. \A n \in 1..N : h[n] = h[n - 1] \cup {i \in Columns(in) :
                                                in.natural[i] <= Share(in, h[n - 1])}
    BY <2>1, <2>2, TableIs
  <2> QED BY <2>3, <2>4 DEF LockMore
<1> HIDE DEF Is
<1> DEFINE T == {n \in 0..N : Roomy(in, h[n])}
<1>10. 0 \in T
  <2>1. Roomy(in, h[0]) BY <1>9, NothingLocked
  <2>2. 0 \in 0..N OBVIOUS
  <2> QED BY <2>1, <2>2
<1>11. ASSUME NEW n \in 0..N - 1, n \in T PROVE n + 1 \in T
  <2>1. PICK k \in 1..N : k = n + 1 /\ k - 1 = n /\ k \in 0..N OBVIOUS
  <2>2. h[k] = LockMore(in, h[n]) BY <1>9, <2>1
  <2>3. Roomy(in, h[k]) BY <1>11, <2>2, LockKeepsRoom
  <2> QED BY <2>1, <2>3
<1> HIDE DEF T
<1>12. 0..N \subseteq T BY <1>10, <1>11, InductionUpTo
<1>13. N \in T BY <1>12
<1> QED BY <1>2, <1>13 DEF T

\* What the columns get where each has a share and the first few one more.
Shared(in, S, q, e) ==
  [i \in Columns(in) |->
     IF i \in S THEN in.natural[i]
     ELSE q + (IF UpTo(Columns(in) \ S, i - 1) < e THEN 1 ELSE 0)]

LEMMA SharedFits ==
  ASSUME NEW in \in Tables, NEW S, NEW q \in Nat, NEW e \in Nat
  PROVE  /\ Shared(in, S, q, e) \in [Columns(in) -> Nat]
         /\ Total(Shared(in, S, q, e)) \in Nat
         /\ \E m \in Nat : /\ m <= e /\ m <= Wide(in, S)
                           /\ Total(Shared(in, S, q, e))
                                <= Total(Kept(in, S)) + (Wide(in, S) * q + m)
<1>1. PICK N \in Nat : N = Len(in.natural) /\ Columns(in) = 1..N BY TableIs DEF Columns
<1>2. PICK Y \in SUBSET (1..N) : Y = (1..N) \ S OBVIOUS
<1> DEFINE c(n) == UpTo(Y, n)
<1>3. /\ c(0) = 0 /\ c(N) = Cardinality(Y) /\ \A n \in 0..N : c(n) \in Nat
      /\ \A n \in 1..N : c(n) = c(n - 1) + (IF n \in Y THEN 1 ELSE 0)
  BY CountUp
<1>4. \A n \in 1..N : /\ in.natural[n] \in Nat /\ n - 1 \in 0..N
                      /\ Shared(in, S, q, e)[n] =
                           IF n \in S THEN in.natural[n] ELSE q + (IF c(n - 1) < e THEN 1 ELSE 0)
  BY <1>1, <1>2, TableIs DEF Shared
<1>5. Shared(in, S, q, e) \in [1..N -> Nat]
  <2>1. DOMAIN Shared(in, S, q, e) = 1..N BY <1>1 DEF Shared
  <2>2. Shared(in, S, q, e) = [n \in 1..N |-> Shared(in, S, q, e)[n]] BY <1>1 DEF Shared
  <2>3. \A n \in 1..N : Shared(in, S, q, e)[n] \in Nat BY <1>4
  <2> QED BY <2>2, <2>3
<1> HIDE DEF c
<1>6. PICK v : Sums(v, Shared(in, S, q, e), N) /\ Total(Shared(in, S, q, e)) = v[N]
  BY <1>5, TotalIs
<1>7. PICK u : Sums(u, Kept(in, S), N) /\ Total(Kept(in, S)) = u[N] BY <1>1, KeptSums
<1>8. \A n \in 1..N : Kept(in, S)[n] = IF n \in S THEN in.natural[n] ELSE 0 BY <1>1 DEF Kept
<1> DEFINE m(n) == IF c(n) < e THEN c(n) ELSE e
           T == {n \in 0..N : v[n] <= u[n] + (c(n) * q + m(n))}
<1>9. 0 \in T
  <2>1. 0 * q = 0 OBVIOUS
  <2> QED BY <1>3, <1>6, <1>7, <2>1 DEF Sums
<1>10. ASSUME NEW n \in 0..N - 1, n \in T PROVE n + 1 \in T
  <2>1. PICK k \in 1..N : k = n + 1 /\ k - 1 = n /\ k \in 0..N OBVIOUS
  <2>2. u[n] \in Nat /\ v[n] \in Nat /\ c(n) \in Nat /\ in.natural[k] \in Nat
    <3>1. n \in 0..N OBVIOUS
    <3> QED BY <1>3, <1>4, <1>6, <1>7, <3>1 DEF Sums
  <2>3. PICK a \in Nat, b \in Nat, d \in Nat, w \in Nat :
          a = u[n] /\ b = v[n] /\ d = c(n) /\ w = in.natural[k]
    BY <2>2
  <2>4. /\ u[k] = a + (IF k \in S THEN w ELSE 0)
        /\ v[k] = b + (IF k \in S THEN w ELSE q + (IF d < e THEN 1 ELSE 0))
        /\ c(k) = d + (IF k \in S THEN 0 ELSE 1)
    <3>1. n + 1 = k /\ k - 1 = n /\ k \in 1..N BY <2>1
    <3>2. u[k] = u[n] + Kept(in, S)[k] /\ v[k] = v[n] + Shared(in, S, q, e)[k]
      BY <1>6, <1>7, <3>1 DEF Sums
    <3>3. Kept(in, S)[k] = IF k \in S THEN w ELSE 0 BY <1>8, <2>3
    <3>4. Shared(in, S, q, e)[k] = IF k \in S THEN w ELSE q + (IF d < e THEN 1 ELSE 0)
      BY <1>4, <2>3, <3>1
    <3>5. c(k) = d + (IF k \in S THEN 0 ELSE 1) BY <1>2, <1>3, <2>3, <3>1
    <3> QED BY <2>3, <3>2, <3>3, <3>4, <3>5
  <2>5. PICK p \in Nat : p = d * q OBVIOUS
  <2>6. b <= a + (p + (IF d < e THEN d ELSE e)) BY <1>10, <2>3, <2>5
  <2>7. (d + 1) * q = p + q BY <2>5
  <2>8. v[k] <= u[k] + (c(k) * q + m(k))
    <3>1. CASE k \in S
      <4>1. c(k) * q = p /\ m(k) = IF d < e THEN d ELSE e BY <2>4, <2>5, <3>1
      <4> HIDE DEF m
      <4> QED BY <2>4, <2>6, <3>1, <4>1
    <3>2. CASE k \notin S
      <4>1. c(k) * q = p + q /\ m(k) = IF d + 1 < e THEN d + 1 ELSE e BY <2>4, <2>7, <3>2
      <4> HIDE DEF m
      <4> QED BY <2>4, <2>6, <3>2, <4>1
    <3> QED BY <3>1, <3>2
  <2> QED BY <2>1, <2>8
<1> HIDE DEF T
<1>11. 0..N \subseteq T BY <1>9, <1>10, InductionUpTo
<1>12. N \in 0..N /\ N \in T BY <1>11
<1>13. v[N] <= u[N] + (c(N) * q + m(N)) BY <1>12 DEF T
<1>14. Wide(in, S) = c(N) /\ c(N) \in Nat
  <2>1. Wide(in, S) = Cardinality(Y) BY <1>1, <1>2, LeftIs
  <2> QED BY <1>3, <1>12, <2>1
<1>15. m(N) \in Nat /\ m(N) <= e /\ m(N) <= c(N) BY <1>14
<1>16. v[N] \in Nat BY <1>6, <1>12 DEF Sums
<1> HIDE DEF m
<1> QED BY <1>1, <1>5, <1>6, <1>7, <1>13, <1>14, <1>15, <1>16

LEMMA SomeOnes ==
  ASSUME NEW N \in Nat, NEW a \in Nat, NEW w \in [1..N -> Nat],
         \A n \in 1..N : w[n] = IF n <= a THEN 1 ELSE 0
  PROVE  Total(w) <= a
<1>1. PICK u : Sums(u, w, N) /\ Total(w) = u[N] BY TotalIs
<1> DEFINE z == [n \in 0..N |-> IF n <= a THEN n ELSE a]
<1>2. \A n \in 0..N : z[n] = IF n <= a THEN n ELSE a OBVIOUS
<1> HIDE DEF z
<1>3. \A n \in 1..N : z[n] = z[n - 1] + w[n]
  <2>1. \A n \in 1..N : n \in 0..N /\ n - 1 \in 0..N OBVIOUS
  <2> QED BY <1>2, <2>1
<1>4. z[0] = 0 /\ z[N] <= a
  <2>1. 0 \in 0..N /\ N \in 0..N OBVIOUS
  <2> QED BY <1>2, <2>1
<1>5. z[N] = u[N] BY <1>1, <1>3, <1>4, SumsOne
<1> QED BY <1>1, <1>4, <1>5

LEMMA NarrowFits ==
  ASSUME NEW in \in Tables, in.available <= Len(in.natural)
  PROVE  Total([i \in Columns(in) |-> IF i <= in.available THEN 1 ELSE 0]) <= in.available
<1>1. PICK N \in Nat, a \in Nat : N = Len(in.natural) /\ Columns(in) = 1..N /\ a = in.available
  BY TableIs DEF Columns
<1>2. PICK w \in [1..N -> Nat] :
        w = [i \in Columns(in) |-> IF i <= in.available THEN 1 ELSE 0]
  BY <1>1
<1>3. \A n \in 1..N : w[n] = IF n <= a THEN 1 ELSE 0 BY <1>1, <1>2
<1>4. Total(w) <= a BY <1>3, SomeOnes
<1> QED BY <1>1, <1>2, <1>4

TableFits(in) ==
  LET widths == distribute_column_widths(in)
  IN /\ Total(widths) <= in.available
     /\ \A i \in DOMAIN widths : in.available > Len(widths) /\ in.natural[i] > 0 => widths[i] > 0

LEMMA TablesFit ==
  ASSUME NEW in \in Tables
  PROVE  TableFits(in)
<1>1. PICK N \in Nat : /\ N = Len(in.natural) /\ Columns(in) = 1..N
                       /\ DOMAIN in.natural = Columns(in)
  BY TableIs DEF Columns
<1>2. PICK widths : widths = distribute_column_widths(in) OBVIOUS
<1>3. CASE in.available <= N
  <2>1. widths = [i \in Columns(in) |-> IF i <= in.available THEN 1 ELSE 0]
    BY <1>1, <1>2, <1>3 DEF distribute_column_widths
  <2>2. Total(widths) <= in.available BY <1>1, <1>3, <2>1, NarrowFits
  <2>3. Len(widths) = N
    <3>1. widths \in [1..N -> Nat] BY <1>1, <2>1
    <3>2. widths \in Seq(Nat) BY <3>1, SeqDef
    <3>3. DOMAIN widths = 1..N /\ DOMAIN widths = 1..Len(widths) /\ Len(widths) \in Nat
      BY <3>1, <3>2, LenProperties
    <3> QED BY <3>3
  <2>4. in.available \in Nat BY TableIs
  <2> QED BY <1>2, <1>3, <2>2, <2>3, <2>4 DEF TableFits
<1>4. CASE ~(in.available <= N)
  <2>1. PICK S : S = Locked(in) OBVIOUS
  <2>2. Roomy(in, S) BY <1>1, <1>4, <2>1, LockedIsRoomy, TableIs
  <2>3. PICK W \in Nat, q \in Nat, a \in Nat, t \in Nat :
          W = Wide(in, S) /\ q = Share(in, S) /\ a = in.available /\ t = Total(Kept(in, S))
    BY <2>2, SharedRoom, TableIs, LeftIs
  <2>4. PICK e : e = IF W = 0 THEN 0 ELSE Left(in, S) % W OBVIOUS
  <2>5. e \in Nat /\ (W # 0 => Fills(t, W, q, e, a))
    <3>1. W # 0 => Fills(t, W, q, e, a) BY <2>2, <2>3, <2>4, SharedRoom
    <3> QED BY <2>4, <3>1 DEF Fills
  <2>6. widths = Shared(in, S, q, e)
    <3>1. \A i \in 1..N :
            Cardinality({j \in (1..N) \ S : j < i}) = UpTo((1..N) \ S, i - 1)
      <4>1. PICK Y \in SUBSET (1..N) : Y = (1..N) \ S OBVIOUS
      <4>2. \A i \in 1..N : UpTo(Y, i - 1) = Cardinality({j \in Y : j < i}) BY CountUp
      <4> QED BY <4>1, <4>2
    <3>2. widths = [i \in 1..N |->
                      IF i \in S THEN in.natural[i]
                      ELSE q + (IF Cardinality({j \in (1..N) \ S : j < i}) < e THEN 1 ELSE 0)]
      BY <1>1, <1>2, <1>4, <2>1, <2>3, <2>4 DEF distribute_column_widths
    <3> QED BY <1>1, <3>1, <3>2 DEF Shared
  <2>7. widths \in [1..N -> Nat] /\ Total(widths) \in Nat BY <1>1, <2>5, <2>6, SharedFits
  <2>8. PICK m \in Nat : m <= e /\ m <= W /\ Total(widths) <= t + (W * q + m)
    BY <2>3, <2>5, <2>6, SharedFits
  <2>9. Total(widths) <= a
    <3>1. CASE W = 0
      <4>1. W * q = 0 /\ m = 0 BY <2>8, <3>1
      <4>2. t + W <= a BY <2>2, <2>3 DEF Roomy
      <4> QED BY <2>7, <2>8, <3>1, <4>1, <4>2
    <3>2. CASE W # 0
      <4>1. t + (W * q + e) = a BY <2>5, <3>2 DEF Fills
      <4>2. PICK p \in Nat : p = W * q OBVIOUS
      <4>3. Total(widths) <= t + (p + m) /\ t + (p + e) = a BY <2>8, <4>1, <4>2
      <4> QED BY <2>5, <2>7, <2>8, <4>3
    <3> QED BY <3>1, <3>2
  <2>10. ASSUME NEW i \in DOMAIN widths, in.natural[i] > 0 PROVE widths[i] > 0
    <3>1. i \in 1..N BY <2>7
    <3>2. CASE i \in S
      <4>1. widths[i] = in.natural[i] BY <1>1, <2>6, <3>1, <3>2 DEF Shared
      <4> QED BY <2>10, <4>1
    <3>3. CASE i \notin S
      <4>1. W # 0
        <5>1. PICK Y \in SUBSET (1..N) : Y = (1..N) \ S OBVIOUS
        <5>2. i \in Y BY <3>1, <3>3, <5>1
        <5>3. IsFiniteSet(Y)
          <6>1. IsFiniteSet(1..N) BY FS_Interval
          <6> QED BY <6>1, FS_Subset
        <5>4. Cardinality(Y) # 0 BY <5>2, <5>3, FS_EmptySet
        <5> QED BY <1>1, <2>3, <5>1, <5>4, LeftIs
      <4>2. q >= 1 BY <2>5, <4>1 DEF Fills
      <4>3. widths[i] = q \/ widths[i] = q + 1 BY <1>1, <2>6, <3>1, <3>3 DEF Shared
      <4> QED BY <4>2, <4>3
    <3> QED BY <3>2, <3>3
  <2> QED BY <1>2, <2>3, <2>9, <2>10 DEF TableFits
<1> QED BY <1>3, <1>4

-----------------------------------------------------------------------------
(* Wrapping.                                                               *)

Wraps == [chars : Seq(PageCharacters), width : Nat, indent : Nat]
Wrapped == [indented : BOOLEAN, chars : Seq(PageCharacters)]

LEMMA CharactersOnly ==
  ASSUME NEW s \in Seq(PageCharacters), NEW t \in Seq(PageCharacters), NEW S
  PROVE  /\ Only(s \o t, S) = Only(s, S) \o Only(t, S)
         /\ Only(s, S) \in Seq(PageCharacters) /\ Only(t, S) \in Seq(PageCharacters)
<1>1. Only(s \o t, S) = Only(s, S) \o Only(t, S) BY OnlyConcat
<1>2. Only(s, S) \in Seq(PageCharacters) BY OnlyIs
<1>3. Only(t, S) \in Seq(PageCharacters) BY OnlyIs
<1> QED BY <1>1, <1>2, <1>3

LEMMA WidthIs ==
  ASSUME NEW s \in Seq(PageCharacters), NEW t \in Seq(PageCharacters)
  PROVE  LineWidth(s \o t) = LineWidth(s) + LineWidth(t) /\ LineWidth(s) \in Nat
<1>1. PICK W : W = {"wide"} OBVIOUS
<1>2. /\ Only(s \o t, W) = Only(s, W) \o Only(t, W)
      /\ Only(s, W) \in Seq(PageCharacters) /\ Only(t, W) \in Seq(PageCharacters)
  BY CharactersOnly
<1>3. PICK a \in Seq(PageCharacters), b \in Seq(PageCharacters) : a = Only(s, W) /\ b = Only(t, W)
  BY <1>2
<1>4. Len(a \o b) = Len(a) + Len(b) /\ Len(s \o t) = Len(s) + Len(t) BY ConcatProperties
<1>5. Len(a) \in Nat /\ Len(b) \in Nat /\ Len(s) \in Nat /\ Len(t) \in Nat OBVIOUS
<1>6. /\ LineWidth(s \o t) = Len(s \o t) + Len(a \o b)
      /\ LineWidth(s) = Len(s) + Len(a) /\ LineWidth(t) = Len(t) + Len(b)
  BY <1>1, <1>2, <1>3 DEF LineWidth
<1> QED BY <1>4, <1>5, <1>6

LEMMA SolidIs ==
  ASSUME NEW s \in Seq(PageCharacters), NEW t \in Seq(PageCharacters)
  PROVE  Solid(s \o t) = Solid(s) \o Solid(t) /\ Solid(s) \in Seq(PageCharacters)
<1>1. PICK S : S = PageCharacters \ {"blank"} OBVIOUS
<1>2. Only(s \o t, S) = Only(s, S) \o Only(t, S) /\ Only(s, S) \in Seq(PageCharacters)
  BY CharactersOnly
<1> QED BY <1>1, <1>2 DEF Solid

\* The characters from a to b
LEMMA PartIs ==
  ASSUME NEW s \in Seq(PageCharacters), NEW a \in 1..Len(s) + 1, NEW b \in a - 1..Len(s)
  PROVE  SubSeq(s, a, b) \in Seq(PageCharacters) /\ Len(SubSeq(s, a, b)) = b + 1 - a
<1>1. Len(s) \in Nat /\ \A i \in 1..Len(s) : s[i] \in PageCharacters BY LenProperties
<1>2. a \in Int /\ b \in Int /\ \A i \in a..b : s[i] \in PageCharacters BY <1>1
<1>3. /\ SubSeq(s, a, b) \in Seq(PageCharacters)
      /\ Len(SubSeq(s, a, b)) = IF a <= b THEN b - a + 1 ELSE 0
  BY <1>2, SubSeqProperties
<1> QED BY <1>1, <1>3

LEMMA PartsJoin ==
  ASSUME NEW s \in Seq(PageCharacters), NEW a \in 1..Len(s) + 1, NEW k \in a - 1..Len(s),
         NEW b \in k..Len(s)
  PROVE  /\ Solid(SubSeq(s, a, b)) = Solid(SubSeq(s, a, k)) \o Solid(SubSeq(s, k + 1, b))
         /\ LineWidth(SubSeq(s, a, k)) <= LineWidth(SubSeq(s, a, b))
<1>0. Len(s) \in Nat BY LenProperties
<1>1. SubSeq(s, a, k) \o SubSeq(s, k + 1, b) = SubSeq(s, a, b) BY ConcatAdjacentSubSeq
<1>2. SubSeq(s, a, k) \in Seq(PageCharacters) BY PartIs
<1>3. SubSeq(s, k + 1, b) \in Seq(PageCharacters)
  <2>1. PICK m : m = k + 1 OBVIOUS
  <2>2. m \in 1..Len(s) + 1 /\ b \in m - 1..Len(s) BY <1>0, <2>1
  <2>3. SubSeq(s, m, b) \in Seq(PageCharacters) BY <2>2, PartIs
  <2> QED BY <2>1, <2>3
<1>4. PICK x \in Seq(PageCharacters), y \in Seq(PageCharacters) :
        x = SubSeq(s, a, k) /\ y = SubSeq(s, k + 1, b)
  BY <1>2, <1>3
<1>5. LineWidth(x \o y) = LineWidth(x) + LineWidth(y)
      /\ LineWidth(x) \in Nat /\ LineWidth(y) \in Nat
  BY WidthIs
<1>6. Solid(x \o y) = Solid(x) \o Solid(y) BY SolidIs
<1>7. LineWidth(x) <= LineWidth(x \o y) BY <1>5
<1> QED BY <1>1, <1>4, <1>6, <1>7

LEMMA BlanksGo ==
  ASSUME NEW s \in Seq(PageCharacters), NEW a \in 1..Len(s) + 1, NEW b \in a - 1..Len(s),
         \A i \in a..b : s[i] = "blank"
  PROVE  Solid(SubSeq(s, a, b)) = <<>>
<1>1. Len(s) \in Nat /\ \A i \in 1..Len(s) : s[i] \in PageCharacters BY LenProperties
<1>2. a \in Int /\ b \in Int /\ \A i \in a..b : s[i] \in PageCharacters BY <1>1
<1>3. /\ SubSeq(s, a, b) \in Seq(PageCharacters)
      /\ Len(SubSeq(s, a, b)) = b - a + 1
      /\ \A i \in 1 .. b - a + 1 : SubSeq(s, a, b)[i] = s[a + i - 1]
  BY <1>1, <1>2, PartIs, SubSeqProperties
<1>4. PICK p \in Seq(PageCharacters) : p = SubSeq(s, a, b) BY <1>3
<1>5. ASSUME NEW i \in 1..Len(p) PROVE p[i] \notin PageCharacters \ {"blank"}
  <2>1. i \in 1..b - a + 1 /\ a + i - 1 \in a..b BY <1>1, <1>3, <1>4
  <2> QED BY <1>3, <1>4, <2>1
<1>6. Only(p, PageCharacters \ {"blank"}) = <<>> BY <1>5, OnlyNothing
<1> QED BY <1>4, <1>6 DEF Solid

-----------------------------------------------------------------------------
(* What a line may be, and where it leads.                                 *)

FitsLine(l, in) ==
  LineWidth(l.chars) + (IF l.indented THEN in.indent ELSE 0) <= in.width \/ Len(l.chars) = 1
Cuts(in, pos, l, n) ==
  /\ l \in Wrapped /\ n \in pos + 1..Len(in.chars) + 1 /\ FitsLine(l, in)
  /\ \E t \in pos - 1..n - 1 :
       l.chars = SubSeq(in.chars, pos, t) /\ \A i \in t + 1..n - 1 : in.chars[i] = "blank"

Words(lines) == [i \in DOMAIN lines |-> lines[i].chars]
Said(lines) == FlattenSeq(Words(lines))
Keeps(lines, in, pos) ==
  /\ lines \in Seq(Wrapped)
  /\ Solid(Said(lines)) = Solid(SubSeq(in.chars, pos, Len(in.chars)))
  /\ \A i \in 1..Len(lines) : FitsLine(lines[i], in)

LEMMA WordsAre ==
  ASSUME NEW lines \in Seq(Wrapped)
  PROVE  /\ Words(lines) \in Seq(Seq(PageCharacters)) /\ Len(Words(lines)) = Len(lines)
         /\ \A i \in 1..Len(lines) : Words(lines)[i] = lines[i].chars
<1>1. Len(lines) \in Nat /\ DOMAIN lines = 1..Len(lines) BY LenProperties
<1>2. \A i \in 1..Len(lines) : lines[i] \in Wrapped BY <1>1, LenProperties
<1>3. \A i \in 1..Len(lines) : lines[i].chars \in Seq(PageCharacters) BY <1>2 DEF Wrapped
<1>4. Words(lines) \in [1..Len(lines) -> Seq(PageCharacters)] BY <1>1, <1>3 DEF Words
<1>5. Words(lines) \in Seq(Seq(PageCharacters)) BY <1>1, <1>4, SeqDef
<1>6. DOMAIN Words(lines) = 1..Len(Words(lines)) /\ Len(Words(lines)) \in Nat
  BY <1>5, LenProperties
<1>7. DOMAIN Words(lines) = 1..Len(lines) BY <1>4
<1>8. Len(Words(lines)) = Len(lines)
  <2>1. PICK m \in Nat, n \in Nat : m = Len(lines) /\ n = Len(Words(lines)) BY <1>1, <1>6
  <2>2. 1..m = 1..n BY <1>6, <1>7, <2>1
  <2>3. m = n BY <2>2
  <2> QED BY <2>1, <2>3
<1> QED BY <1>1, <1>5, <1>8 DEF Words

SaysFirst(lines, l, rest) ==
  /\ lines \in Seq(Wrapped) /\ Said(lines) = l.chars \o Said(rest)
  /\ Said(rest) \in Seq(PageCharacters)
  /\ Len(lines) = Len(rest) + 1
  /\ \A i \in 1..Len(lines) : lines[i] = IF i = 1 THEN l ELSE rest[i - 1]

LEMMA SaidFirst ==
  ASSUME NEW l \in Wrapped, NEW rest \in Seq(Wrapped)
  PROVE  SaysFirst(<<l>> \o rest, l, rest)
<1>0. PICK lines : lines = <<l>> \o rest OBVIOUS
<1>1. <<l>> \in Seq(Wrapped) /\ Len(<<l>>) = 1 /\ <<l>>[1] = l OBVIOUS
<1>2. PICK one \in Seq(Wrapped) : one = <<l>> BY <1>1
<1>3. /\ lines \in Seq(Wrapped) /\ Len(lines) = 1 + Len(rest)
      /\ \A i \in 1..1 + Len(rest) : lines[i] = IF i <= 1 THEN one[i] ELSE rest[i - 1]
  BY <1>0, <1>1, <1>2, ConcatProperties
<1>4. Len(rest) \in Nat BY LenProperties
<1>5. \A i \in 1..Len(lines) : lines[i] = IF i = 1 THEN l ELSE rest[i - 1]
  <2>1. \A i \in 1..1 + Len(rest) : i <= 1 <=> i = 1 BY <1>4
  <2> QED BY <1>1, <1>2, <1>3, <2>1
<1>6. PICK w \in Seq(PageCharacters) : w = l.chars BY DEF Wrapped
<1>7. PICK v \in Seq(Seq(PageCharacters)) : v = Words(rest) BY WordsAre
<1>8. PICK u \in Seq(Seq(PageCharacters)) : u = Words(lines) BY <1>3, WordsAre
<1>9. <<w>> \in Seq(Seq(PageCharacters)) /\ Len(<<w>>) = 1 /\ <<w>>[1] = w OBVIOUS
<1>10. PICK f \in Seq(Seq(PageCharacters)) : f = <<w>> /\ Len(f) = 1 /\ f[1] = w BY <1>9
<1>11. PICK h \in Seq(Seq(PageCharacters)) : h = f \o v BY Concats
<1>12. /\ Len(h) = 1 + Len(v)
       /\ \A i \in 1..1 + Len(v) : h[i] = IF i <= 1 THEN f[i] ELSE v[i - 1]
  BY <1>10, <1>11, ConcatProperties
<1>13. /\ Len(v) = Len(rest) /\ Len(u) = Len(lines)
       /\ \A i \in 1..Len(rest) : v[i] = rest[i].chars
       /\ \A i \in 1..Len(lines) : u[i] = lines[i].chars
  BY <1>3, <1>7, <1>8, WordsAre
<1>14. u = h
  <2>1. Len(u) = Len(h) BY <1>3, <1>12, <1>13
  <2>2. ASSUME NEW i \in 1..Len(u) PROVE u[i] = h[i]
    <3>1. CASE i = 1
      <4>1. lines[1] = l /\ u[1] = w /\ h[1] = w
        BY <1>3, <1>4, <1>5, <1>6, <1>10, <1>12, <1>13, <3>1
      <4> QED BY <3>1, <4>1
    <3>2. CASE i # 1
      <4>1. PICK k \in Nat : k = Len(rest) BY <1>4
      <4>4. i \in 1..1 + k BY <1>3, <1>13, <4>1
      <4>5. PICK j \in 1..k : j = i - 1
        <5>1. i - 1 \in 1..k BY <3>2, <4>4
        <5> QED BY <5>1
      <4>6. i \in 1..Len(lines) /\ i \in 1..1 + Len(v) BY <1>13, <4>1, <4>4
      <4>7. ~(i <= 1) BY <3>2, <4>4
      <4>2. u[i] = rest[j].chars
        <5>1. u[i] = lines[i].chars BY <1>13, <4>6
        <5>2. lines[i] = rest[i - 1] BY <1>5, <3>2, <4>6
        <5> QED BY <4>5, <5>1, <5>2
      <4>3. h[i] = v[j] BY <1>12, <4>5, <4>6, <4>7
      <4> QED BY <1>13, <4>1, <4>2, <4>3
    <3> QED BY <3>1, <3>2
  <2> QED BY <2>1, <2>2, SeqEqual
<1>15. FlattenSeq(h) = FlattenSeq(f) \o FlattenSeq(v) /\ FlattenSeq(v) \in Seq(PageCharacters)
  BY <1>11, FlattenConcat
<1>16. FlattenSeq(f) = w BY <1>10, FlattenSingle
<1>17. Said(lines) = w \o Said(rest) BY <1>7, <1>8, <1>14, <1>15, <1>16 DEF Said
<1>18. Said(rest) \in Seq(PageCharacters) BY <1>7, <1>15 DEF Said
<1>19. Len(lines) = Len(rest) + 1 BY <1>3, <1>4
<1>20. lines \in Seq(Wrapped) BY <1>3
<1>21. SaysFirst(lines, l, rest) BY <1>5, <1>6, <1>17, <1>18, <1>19, <1>20 DEF SaysFirst
<1> QED BY <1>0, <1>21

LEMMA CutsKeep ==
  ASSUME NEW in \in Wraps, NEW pos \in 1..Len(in.chars), NEW l, NEW n, Cuts(in, pos, l, n),
         NEW rest, Keeps(rest, in, n)
  PROVE  Keeps(<<l>> \o rest, in, pos)
<1>1. PICK s \in Seq(PageCharacters) : s = in.chars BY DEF Wraps
<1>2. PICK N \in Nat : N = Len(s) BY LenProperties
<1>3. /\ l \in Wrapped /\ n \in pos + 1..N + 1 /\ FitsLine(l, in) /\ pos \in 1..N
      /\ \E t \in pos - 1..n - 1 :
           l.chars = SubSeq(s, pos, t) /\ \A i \in t + 1..n - 1 : s[i] = "blank"
  BY <1>1, <1>2 DEF Cuts
<1>4. PICK t \in pos - 1..n - 1 :
        l.chars = SubSeq(s, pos, t) /\ \A i \in t + 1..n - 1 : s[i] = "blank"
  BY <1>3
<1>5. /\ rest \in Seq(Wrapped) /\ Solid(Said(rest)) = Solid(SubSeq(s, n, N))
      /\ \A i \in 1..Len(rest) : FitsLine(rest[i], in)
  BY <1>1, <1>2 DEF Keeps
<1>6. PICK lines : lines = <<l>> \o rest OBVIOUS
<1>7. /\ lines \in Seq(Wrapped) /\ Said(lines) = l.chars \o Said(rest)
      /\ Said(rest) \in Seq(PageCharacters)
      /\ Len(lines) = Len(rest) + 1
      /\ \A i \in 1..Len(lines) : lines[i] = IF i = 1 THEN l ELSE rest[i - 1]
  <2>1. l \in Wrapped /\ rest \in Seq(Wrapped) BY <1>3, <1>5
  <2>2. SaysFirst(<<l>> \o rest, l, rest) BY <2>1, SaidFirst
  <2>3. SaysFirst(lines, l, rest) BY <1>6, <2>2
  <2> QED BY <2>3 DEF SaysFirst
<1>8. /\ pos \in 1..Len(s) + 1 /\ t \in pos - 1..Len(s) /\ Len(s) \in t..Len(s)
      /\ t + 1 \in 1..Len(s) + 1 /\ n - 1 \in (t + 1) - 1..Len(s) /\ Len(s) \in n - 1..Len(s)
      /\ (n - 1) + 1 = n
  BY <1>2, <1>3
<1>9. Solid(SubSeq(s, pos, N)) = Solid(SubSeq(s, pos, t)) \o Solid(SubSeq(s, t + 1, N))
  BY <1>2, <1>8, PartsJoin
<1>10. Solid(SubSeq(s, t + 1, N)) = Solid(SubSeq(s, t + 1, n - 1)) \o Solid(SubSeq(s, n, N))
  <2>4. PICK a \in 1..Len(s) + 1 : a = t + 1 BY <1>8
  <2>5. PICK k \in a - 1..Len(s) : k = n - 1 BY <1>8, <2>4
  <2>1. a = t + 1 /\ k = n - 1 BY <2>4, <2>5
  <2>2. Len(s) \in k..Len(s) /\ k + 1 = n BY <1>8, <2>1
  <2>3. Solid(SubSeq(s, a, Len(s)))
          = Solid(SubSeq(s, a, k)) \o Solid(SubSeq(s, k + 1, Len(s)))
    BY <2>2, PartsJoin
  <2> QED BY <1>2, <2>1, <2>2, <2>3
<1>11. Solid(SubSeq(s, t + 1, n - 1)) = <<>>
  <2>4. PICK a \in 1..Len(s) + 1 : a = t + 1 BY <1>8
  <2>5. PICK k \in a - 1..Len(s) : k = n - 1 BY <1>8, <2>4
  <2>1. a = t + 1 /\ k = n - 1 BY <2>4, <2>5
  <2>2. \A i \in a..k : s[i] = "blank" BY <1>4, <2>1
  <2>3. Solid(SubSeq(s, a, k)) = <<>> BY <2>2, BlanksGo
  <2> QED BY <2>1, <2>3
<1>12. PICK e \in Seq(PageCharacters) : e = Solid(SubSeq(s, n, N))
  <2>1. n \in 1..Len(s) + 1 /\ Len(s) \in n - 1..Len(s) BY <1>2, <1>3
  <2>2. SubSeq(s, n, N) \in Seq(PageCharacters) BY <1>2, <2>1, PartIs
  <2> QED BY <2>2, SolidIs
<1>13. <<>> \o e = e BY Concats
<1>14. PICK w \in Seq(PageCharacters) : w = l.chars BY <1>3 DEF Wrapped
<1>15. Solid(w \o Said(rest)) = Solid(w) \o Solid(Said(rest)) BY <1>7, SolidIs
<1>16. Solid(Said(lines)) = Solid(SubSeq(s, pos, N))
  BY <1>4, <1>5, <1>7, <1>9, <1>10, <1>11, <1>12, <1>13, <1>14, <1>15
<1>17. ASSUME NEW i \in 1..Len(lines) PROVE FitsLine(lines[i], in)
  <2>1. CASE i = 1 BY <1>3, <1>7, <2>1
  <2>2. CASE i # 1
    <3>1. Len(rest) \in Nat BY <1>5, LenProperties
    <3>2. i - 1 \in 1..Len(rest) BY <1>7, <2>2, <3>1
    <3> QED BY <1>5, <1>7, <2>2, <3>2
  <2> QED BY <2>1, <2>2
<1> QED BY <1>1, <1>2, <1>6, <1>7, <1>16, <1>17 DEF Keeps

-----------------------------------------------------------------------------
(* Where a line ends.                                                      *)

LEMMA EndIs ==
  ASSUME NEW s \in Seq(PageCharacters), NEW N \in Nat, N = Len(s), NEW pos \in 1..N,
         NEW width \in Nat, NEW end, end = FitsUpTo(s, pos, width)
  PROVE  /\ end \in pos - 1..N
         /\ end # pos - 1 => LineWidth(SubSeq(s, pos, end)) <= width
<1>1. PICK S \in SUBSET (0..N) :
        S = {pos - 1} \cup {e \in pos..Len(s) : LineWidth(SubSeq(s, pos, e)) <= width}
  <2>1. pos - 1 \in 0..N /\ pos..Len(s) \subseteq 0..N OBVIOUS
  <2> QED BY <2>1
<1>2. pos - 1 \in S /\ S \subseteq pos - 1..N BY <1>1
<1>3. Max(S) \in S BY <1>2, GreatestUpTo
<1>4. end = Max(S) BY <1>1 DEF FitsUpTo
<1> QED BY <1>1, <1>2, <1>3, <1>4

LEMMA BreakIs ==
  ASSUME NEW s \in Seq(PageCharacters), NEW N \in Nat, N = Len(s), NEW pos \in 1..N,
         NEW end \in pos - 1..N
  PROVE  /\ BreakAt(s, pos, end) \in pos..N
         /\ BreakAt(s, pos, end) <= end \/ (end = pos - 1 /\ BreakAt(s, pos, end) = pos)
<1>1. PICK B \in SUBSET (0..N) : B = {e \in pos..end : s[e] \in {"blank", "wide"}}
  <2>1. {e \in pos..end : s[e] \in {"blank", "wide"}} \in SUBSET (0..N) OBVIOUS
  <2> QED BY <2>1
<1>2. BreakAt(s, pos, end) = IF B # {} THEN Max(B) ELSE Max({end, pos}) BY <1>1 DEF BreakAt
<1>3. CASE B # {}
  <2>1. Max(B) \in B BY <1>3, GreatestUpTo
  <2>2. Max(B) \in pos..end BY <1>1, <2>1
  <2> QED BY <1>2, <1>3, <2>2
<1>4. CASE B = {}
  <2>1. PICK E \in SUBSET (0..N) : E = {end, pos}
    <3>1. end \in 0..N /\ pos \in 0..N OBVIOUS
    <3> QED BY <3>1
  <2>2. E # {} /\ end \in E /\ pos \in E BY <2>1
  <2>3. Max(E) \in E /\ \A n \in E : n <= Max(E) BY <2>2, GreatestUpTo
  <2>4. (Max(E) = end \/ Max(E) = pos) /\ Max(E) >= end /\ Max(E) >= pos BY <2>1, <2>2, <2>3
  <2> QED BY <1>2, <1>4, <2>1, <2>4
<1> QED BY <1>3, <1>4

TrimmedTo(s, pos, end) ==
  \E t \in pos - 1..end : /\ Trimmed(s, pos, end) = SubSeq(s, pos, t)
                         /\ \A i \in t + 1..end : s[i] = "blank"

LEMMA TrimIs ==
  ASSUME NEW s \in Seq(PageCharacters), NEW N \in Nat, N = Len(s), NEW pos \in 1..N,
         NEW end \in pos..N
  PROVE  TrimmedTo(s, pos, end)
<1>1. PICK S \in SUBSET (0..N) : S = {pos - 1} \cup {i \in pos..end : s[i] # "blank"}
  <2>1. pos - 1 \in 0..N /\ pos..end \subseteq 0..N OBVIOUS
  <2> QED BY <2>1
<1>2. pos - 1 \in S /\ S \subseteq pos - 1..end BY <1>1
<1>3. Max(S) \in S /\ \A n \in S : n <= Max(S) BY <1>2, GreatestUpTo
<1>4. PICK t \in pos - 1..end : t = Max(S) BY <1>2, <1>3
<1>5. Trimmed(s, pos, end) = SubSeq(s, pos, t) BY <1>1, <1>4 DEF Trimmed
<1>6. ASSUME NEW i \in t + 1..end PROVE s[i] = "blank"
  <2>1. i \in pos..end /\ ~(i <= t) OBVIOUS
  <2>2. i \notin S BY <1>3, <1>4, <2>1
  <2> QED BY <1>1, <2>1, <2>2
<1> QED BY <1>5, <1>6 DEF TrimmedTo

LEMMA NextIs ==
  ASSUME NEW s \in Seq(PageCharacters), NEW N \in Nat, N = Len(s), NEW k \in 1..N
  PROVE  /\ NextWord(s, k + 1) \in k + 1..N + 1
         /\ \A i \in k + 1..NextWord(s, k + 1) - 1 : s[i] = "blank"
<1>1. PICK S \in SUBSET Nat : S = {N + 1} \cup {i \in k + 1..N : s[i] # "blank"}
  <2>1. N + 1 \in Nat /\ k + 1..N \subseteq Nat OBVIOUS
  <2> QED BY <2>1
<1>2. N + 1 \in S /\ S \subseteq k + 1..N + 1 BY <1>1
<1>3. Min(S) \in S /\ \A n \in S : Min(S) <= n BY <1>2, LeastUpTo
<1>4. PICK m \in k + 1..N + 1 : m = Min(S) BY <1>2, <1>3
<1>5. NextWord(s, k + 1) = m BY <1>1, <1>4 DEF NextWord
<1>6. ASSUME NEW i \in k + 1..m - 1 PROVE s[i] = "blank"
  <2>1. i \in k + 1..N /\ ~(m <= i) OBVIOUS
  <2>2. i \notin S BY <1>3, <1>4, <2>1
  <2> QED BY <1>1, <2>1, <2>2
<1> QED BY <1>5, <1>6

-----------------------------------------------------------------------------
(* The line from a position, and the position after it.                    *)

Room(in, pos) ==
  IF pos > 1 THEN (IF in.width > in.indent THEN in.width - in.indent ELSE 0) ELSE in.width
Ending(in, pos) == FitsUpTo(in.chars, pos, Room(in, pos))
Breaking(in, pos) == BreakAt(in.chars, pos, Ending(in, pos))
First(in, pos) ==
  IF Room(in, pos) = 0 THEN [indented |-> FALSE, chars |-> <<in.chars[pos]>>]
  ELSE IF Ending(in, pos) = Len(in.chars)
  THEN [indented |-> pos > 1, chars |-> SubSeq(in.chars, pos, Ending(in, pos))]
  ELSE [indented |-> pos > 1, chars |-> Trimmed(in.chars, pos, Breaking(in, pos))]
After(in, pos) ==
  IF Room(in, pos) = 0 THEN pos + 1
  ELSE IF Ending(in, pos) = Len(in.chars) THEN Len(in.chars) + 1
  ELSE NextWord(in.chars, Breaking(in, pos) + 1)

\* With what it is indented, a line that has room keeps within the width.
LEMMA RoomFits ==
  ASSUME NEW in \in Wraps, NEW pos \in Nat, Room(in, pos) # 0, NEW w \in Nat,
         w <= Room(in, pos)
  PROVE  w + (IF pos > 1 THEN in.indent ELSE 0) <= in.width
<1>1. in.width \in Nat /\ in.indent \in Nat BY DEF Wraps
<1> QED BY <1>1 DEF Room

LEMMA FirstCuts ==
  ASSUME NEW in \in Wraps, in.width > 0, NEW pos \in 1..Len(in.chars)
  PROVE  Cuts(in, pos, First(in, pos), After(in, pos))
<1>1. PICK s \in Seq(PageCharacters) : s = in.chars BY DEF Wraps
<1>2. PICK N \in Nat : N = Len(s) BY LenProperties
<1>3. pos \in 1..N /\ in.width \in Nat /\ in.indent \in Nat BY <1>1, <1>2 DEF Wraps
<1>4. PICK room \in Nat : room = Room(in, pos) BY <1>3 DEF Room
<1>5. PICK end : end = Ending(in, pos) /\ end = FitsUpTo(s, pos, room)
  BY <1>1, <1>4 DEF Ending
<1>6. end \in pos - 1..N /\ (end # pos - 1 => LineWidth(SubSeq(s, pos, end)) <= room)
  BY <1>2, <1>3, <1>5, EndIs
<1>7. PICK l : l = First(in, pos) OBVIOUS
<1>8. PICK n : n = After(in, pos) OBVIOUS
<1>9. CASE room = 0
  <2>1. l = [indented |-> FALSE, chars |-> <<s[pos]>>] /\ n = pos + 1
    BY <1>1, <1>4, <1>7, <1>8, <1>9 DEF First, After
  <2>2. s[pos] \in PageCharacters BY <1>2, <1>3, LenProperties
  <2>3. <<s[pos]>> \in Seq(PageCharacters) /\ Len(<<s[pos]>>) = 1 BY <2>2
  <2>4. <<s[pos]>> = SubSeq(s, pos, pos)
    <3>1. SubSeq(s, pos, pos) = <<s[pos]>> \o SubSeq(s, pos + 1, pos)
      BY <1>2, <1>3, SubSeqRecursiveFirst
    <3>2. SubSeq(s, pos + 1, pos) = <<>> BY <1>3, SubSeqEmpty
    <3>3. PICK o \in Seq(PageCharacters) : o = <<s[pos]>> BY <2>3
    <3>4. o \o <<>> = o BY Concats
    <3> QED BY <3>1, <3>2, <3>3, <3>4
  <2>5. l \in Wrapped /\ FitsLine(l, in) BY <2>1, <2>3 DEF Wrapped, FitsLine
  <2>6. l.chars = SubSeq(s, pos, pos) /\ pos \in pos - 1..n - 1
        /\ \A i \in pos + 1..n - 1 : s[i] = "blank"
    BY <1>3, <2>1, <2>4
  <2>7. n \in pos + 1..N + 1 BY <1>3, <2>1
  <2> QED BY <1>1, <1>2, <1>7, <1>8, <2>5, <2>6, <2>7 DEF Cuts
<1>10. CASE room # 0 /\ end = N
  <2>1. l = [indented |-> pos > 1, chars |-> SubSeq(s, pos, N)] /\ n = N + 1
    BY <1>1, <1>2, <1>4, <1>5, <1>7, <1>8, <1>10 DEF First, After
  <2>2. SubSeq(s, pos, N) \in Seq(PageCharacters)
    <3>1. pos \in 1..Len(s) + 1 /\ N \in pos - 1..Len(s) BY <1>2, <1>3
    <3> QED BY <3>1, PartIs
  <2>3. PICK x \in Seq(PageCharacters) : x = SubSeq(s, pos, N) BY <2>2
  <2>10. LineWidth(x) \in Nat BY WidthIs
  <2>11. end # pos - 1 BY <1>3, <1>10
  <2>4. LineWidth(x) \in Nat /\ LineWidth(x) <= room BY <1>6, <1>10, <2>3, <2>10, <2>11
  <2>5. LineWidth(x) + (IF pos > 1 THEN in.indent ELSE 0) <= in.width
    BY <1>3, <1>4, <1>10, <2>4, RoomFits
  <2>12. PICK m \in BOOLEAN : m = (pos > 1)
    <3>1. (pos > 1) \in BOOLEAN OBVIOUS
    <3> QED BY <3>1, Zenon
  <2>13. l = [indented |-> m, chars |-> x] BY <2>1, <2>3, <2>12
  <2>6. l \in Wrapped /\ l.chars = x /\ l.indented = m BY <2>13 DEF Wrapped
  <2>14. LineWidth(x) + (IF m THEN in.indent ELSE 0) <= in.width BY <2>5, <2>12
  <2>7. l \in Wrapped /\ FitsLine(l, in) BY <2>6, <2>14 DEF FitsLine
  <2>8. N \in pos - 1..n - 1 /\ \A i \in N + 1..n - 1 : s[i] = "blank" BY <1>3, <2>1
  <2>9. n \in pos + 1..N + 1 BY <1>3, <2>1
  <2> QED BY <1>1, <1>2, <1>7, <1>8, <2>3, <2>6, <2>7, <2>8, <2>9 DEF Cuts
<1>11. CASE room # 0 /\ end # N
  <2>1. PICK k : k = Breaking(in, pos) /\ k = BreakAt(s, pos, end) BY <1>1, <1>5 DEF Breaking
  <2>2. k \in pos..N /\ (k <= end \/ (end = pos - 1 /\ k = pos))
    BY <1>2, <1>3, <1>6, <2>1, BreakIs
  <2>3. l = [indented |-> pos > 1, chars |-> Trimmed(s, pos, k)] /\ n = NextWord(s, k + 1)
    BY <1>1, <1>2, <1>4, <1>5, <1>7, <1>8, <1>11, <2>1 DEF First, After
  <2>4. PICK t \in pos - 1..k : /\ Trimmed(s, pos, k) = SubSeq(s, pos, t)
                                /\ \A i \in t + 1..k : s[i] = "blank"
    <3>1. k \in pos..N BY <2>2
    <3>2. TrimmedTo(s, pos, k) BY <1>2, <1>3, <3>1, TrimIs
    <3> QED BY <3>2 DEF TrimmedTo
  <2>5. n \in k + 1..N + 1 /\ \A i \in k + 1..n - 1 : s[i] = "blank"
    <3>1. k \in 1..N BY <1>3, <2>2
    <3> QED BY <1>2, <2>3, <3>1, NextIs
  <2>6. \A i \in t + 1..n - 1 : s[i] = "blank"
    <3>1. \A i \in t + 1..n - 1 : i \in t + 1..k \/ i \in k + 1..n - 1 BY <1>3, <2>2, <2>5
    <3> QED BY <2>4, <2>5, <3>1
  <2>7. t \in pos - 1..n - 1 /\ n \in pos + 1..N + 1 BY <1>3, <2>2, <2>5
  <2>8. pos \in 1..Len(s) + 1 /\ t \in pos - 1..Len(s) BY <1>2, <1>3, <2>2
  <2>9. PICK x \in Seq(PageCharacters) : x = SubSeq(s, pos, t) /\ Len(x) = t + 1 - pos
    BY <2>8, PartIs
  <2>16. PICK m \in BOOLEAN : m = (pos > 1)
    <3>1. (pos > 1) \in BOOLEAN OBVIOUS
    <3> QED BY <3>1, Zenon
  <2>17. l = [indented |-> m, chars |-> x] BY <2>3, <2>4, <2>9, <2>16
  <2>10. l \in Wrapped /\ l.chars = x /\ l.indented = m BY <2>17 DEF Wrapped
  <2>11. LineWidth(x) \in Nat BY WidthIs
  <2>12. LineWidth(x) <= room \/ Len(x) = 1
    <3>1. CASE k <= end
      <4>1. t <= end /\ end # pos - 1 BY <1>3, <1>6, <2>2, <3>1
      <4>2. end \in t..Len(s) BY <1>2, <1>3, <1>6, <4>1
      <4>3. LineWidth(SubSeq(s, pos, t)) <= LineWidth(SubSeq(s, pos, end))
        BY <2>8, <4>2, PartsJoin
      <4>4. LineWidth(SubSeq(s, pos, end)) <= room BY <1>6, <4>1
      <4>5. LineWidth(SubSeq(s, pos, end)) \in Nat
        <5>1. end \in pos - 1..Len(s) BY <1>2, <1>6
        <5>2. SubSeq(s, pos, end) \in Seq(PageCharacters) BY <2>8, <5>1, PartIs
        <5> QED BY <5>2, WidthIs
      <4> QED BY <2>9, <2>11, <4>3, <4>4, <4>5
    <3>2. CASE k = pos
      <4>1. CASE t = pos BY <1>3, <2>9, <4>1
      <4>2. CASE t # pos
        <5>1. t = pos - 1 BY <1>3, <3>2, <4>2
        <5>2. x = <<>> BY <1>3, <2>9, <5>1, SubSeqEmpty
        <5>3. LineWidth(x) = 0
          <6>1. Len(<<>>) = 0 OBVIOUS
          <6>2. Only(<<>>, {"wide"}) = <<>> BY OnlyEmpty
          <6> QED BY <5>2, <6>1, <6>2 DEF LineWidth
        <5> QED BY <5>3
      <4> QED BY <4>1, <4>2
    <3> QED BY <2>2, <3>1, <3>2
  <2>13. LineWidth(x) <= room =>
           LineWidth(x) + (IF pos > 1 THEN in.indent ELSE 0) <= in.width
    BY <1>3, <1>4, <1>11, <2>11, RoomFits
  <2>14. l \in Wrapped /\ FitsLine(l, in)
    <3>1. LineWidth(x) <= room => LineWidth(x) + (IF m THEN in.indent ELSE 0) <= in.width
      BY <2>13, <2>16
    <3> QED BY <2>10, <2>12, <3>1 DEF FitsLine
  <2>15. l.chars = SubSeq(s, pos, t) BY <2>9, <2>10
  <2> QED BY <1>1, <1>2, <1>7, <1>8, <2>6, <2>7, <2>14, <2>15 DEF Cuts
<1> QED BY <1>9, <1>10, <1>11

\* A step of the recursion of wrap_spans.
From(in, f, pos) ==
  LET chars == in.chars
      more  == pos > 1
      width == IF more THEN (IF in.width > in.indent THEN in.width - in.indent ELSE 0)
               ELSE in.width
      end   == FitsUpTo(chars, pos, width)
      split == BreakAt(chars, pos, end)
  IN IF pos > Len(chars) THEN <<>>
     ELSE IF width = 0
     THEN <<[indented |-> FALSE, chars |-> <<chars[pos]>>]>> \o f[pos + 1]
     ELSE IF end = Len(chars)
     THEN <<[indented |-> more, chars |-> SubSeq(chars, pos, end)]>>
     ELSE <<[indented |-> more, chars |-> Trimmed(chars, pos, split)]>>
            \o f[NextWord(chars, split + 1)]

LEMMA FromIs ==
  ASSUME NEW in, NEW f, NEW pos
  PROVE  /\ pos > Len(in.chars) => From(in, f, pos) = <<>>
         /\ ~(pos > Len(in.chars)) /\ Room(in, pos) # 0 /\ Ending(in, pos) = Len(in.chars)
              => From(in, f, pos) = <<First(in, pos)>>
         /\ ~(pos > Len(in.chars)) /\ (Room(in, pos) = 0 \/ Ending(in, pos) # Len(in.chars))
              => From(in, f, pos) = <<First(in, pos)>> \o f[After(in, pos)]
<1>1. pos > Len(in.chars) => From(in, f, pos) = <<>> BY DEF From
<1>2. ASSUME ~(pos > Len(in.chars)), Room(in, pos) = 0
      PROVE  From(in, f, pos) = <<First(in, pos)>> \o f[After(in, pos)]
  BY <1>2 DEF From, Room, First, After
<1>3. ASSUME ~(pos > Len(in.chars)), Room(in, pos) # 0, Ending(in, pos) = Len(in.chars)
      PROVE  From(in, f, pos) = <<First(in, pos)>>
  BY <1>3 DEF From, Room, First, Ending
<1>4. ASSUME ~(pos > Len(in.chars)), Room(in, pos) # 0, Ending(in, pos) # Len(in.chars)
      PROVE  From(in, f, pos) = <<First(in, pos)>> \o f[After(in, pos)]
  BY <1>4 DEF From, Room, First, After, Ending, Breaking
<1> QED BY <1>1, <1>2, <1>3, <1>4

\* Whatever the lines from the next position are, these are the lines from this one.
LEMMA FromKeeps ==
  ASSUME NEW in \in Wraps, in.width > 0, NEW N \in Nat, N = Len(in.chars), NEW f, NEW pos \in 1..N,
         \A q \in pos + 1..N + 1 : Keeps(f[q], in, q), f[N + 1] = <<>>
  PROVE  Keeps(From(in, f, pos), in, pos)
<1>1. PICK l : l = First(in, pos) OBVIOUS
<1>2. PICK n : n = After(in, pos) OBVIOUS
<1>3. Cuts(in, pos, l, n) BY <1>1, <1>2, FirstCuts
<1>4. n \in pos + 1..N + 1 /\ l \in Wrapped BY <1>3 DEF Cuts
<1>5. Keeps(<<l>> \o f[n], in, pos) BY <1>3, <1>4, CutsKeep
<1>6. ~(pos > Len(in.chars)) OBVIOUS
<1>7. From(in, f, pos) = <<l>> \o f[n]
  <2>1. CASE Room(in, pos) # 0 /\ Ending(in, pos) = Len(in.chars)
    <3>1. From(in, f, pos) = <<l>> BY <1>1, <1>6, <2>1, FromIs
    <3>2. n = N + 1 BY <1>2, <2>1 DEF After
    <3>3. <<l>> \in Seq(Wrapped) BY <1>4
    <3>4. PICK o \in Seq(Wrapped) : o = <<l>> BY <3>3
    <3>5. o \o <<>> = o BY Concats
    <3> QED BY <3>1, <3>2, <3>4, <3>5
  <2>2. CASE ~(Room(in, pos) # 0 /\ Ending(in, pos) = Len(in.chars))
    BY <1>1, <1>2, <1>6, <2>2, FromIs
  <2> QED BY <2>1, <2>2
<1> QED BY <1>5, <1>7

FromExists(in, N) ==
  \E f \in [1..N + 1 -> Seq(Wrapped)] : \A pos \in 1..N + 1 : f[pos] = From(in, f, pos)

LEMMA FromSolvable ==
  ASSUME NEW in \in Wraps, in.width > 0, NEW N \in Nat, N = Len(in.chars)
  PROVE  FromExists(in, N)
<1> DEFINE D == 1..N + 1
           A == Seq(Wrapped)
           g == [x \in D \X [D -> A] |-> From(in, x[2], x[1])]
           height == [pos \in D |-> N + 1 - pos]
<1>1. <<>> \in A OBVIOUS
<1>2. \A pos \in D : \A f \in [D -> A] : g[<<pos, f>>] = From(in, f, pos) OBVIOUS
<1>3. ASSUME NEW pos \in D, pos \in 1..N
      PROVE  First(in, pos) \in Wrapped /\ After(in, pos) \in pos + 1..N + 1
  <2>1. Cuts(in, pos, First(in, pos), After(in, pos)) BY <1>3, FirstCuts
  <2> QED BY <2>1 DEF Cuts
<1>4. ASSUME NEW pos \in D, NEW f \in [D -> A] PROVE From(in, f, pos) \in A
  <2>1. CASE pos \in 1..N
    <3>1. PICK l \in Wrapped : l = First(in, pos) BY <1>3, <2>1
    <3>2. PICK n \in D : n = After(in, pos)
      <4>1. \A n \in pos + 1..N + 1 : n \in D OBVIOUS
      <4> HIDE DEF D
      <4> QED BY <1>3, <2>1, <4>1
    <3>3. f[n] \in A OBVIOUS
    <3>4. <<l>> \in A OBVIOUS
    <3>5. <<l>> \o f[n] \in A BY <3>3, <3>4, ConcatProperties
    <3>6. ~(pos > Len(in.chars)) BY <2>1
    <3> HIDE DEF A, D
    <3> QED BY <3>1, <3>2, <3>4, <3>5, <3>6, FromIs
  <2>2. CASE pos \notin 1..N
    <3>1. pos > Len(in.chars) BY <2>2
    <3> QED BY <1>1, <3>1, FromIs
  <2> QED BY <2>1, <2>2
<1> HIDE DEF A
<1>5. g \in [D \X [D -> A] -> A] BY <1>4
<1>6. height \in [D -> Nat] /\ \A pos \in D : height[pos] = N + 1 - pos OBVIOUS
<1> HIDE DEF g, height
<1>7. GoesDown(g, D, A, height)
  <2>1. ASSUME NEW pos \in D, NEW e \in [D -> A], NEW f \in [D -> A],
               \A q \in D : height[q] < height[pos] => e[q] = f[q]
        PROVE  g[<<pos, e>>] = g[<<pos, f>>]
    <3>1. CASE pos \in 1..N
      <4>1. PICK n : n = After(in, pos) OBVIOUS
      <4>2. n \in pos + 1..N + 1 BY <1>3, <3>1, <4>1
      <4>3. n \in D /\ N + 1 - n < N + 1 - pos BY <4>2
      <4>4. height[n] < height[pos] BY <1>6, <4>3
      <4>5. e[n] = f[n] BY <2>1, <4>3, <4>4
      <4>6. ~(pos > Len(in.chars)) BY <3>1
      <4>7. From(in, e, pos) = From(in, f, pos) BY <4>1, <4>5, <4>6, FromIs
      <4> HIDE DEF D
      <4> QED BY <1>2, <4>7
    <3>2. CASE pos \notin 1..N
      <4>1. pos > Len(in.chars) BY <3>2
      <4>2. From(in, e, pos) = From(in, f, pos) BY <4>1, FromIs
      <4> HIDE DEF D
      <4> QED BY <1>2, <4>2
    <3> QED BY <3>1, <3>2
  <2> HIDE DEF D
  <2> QED BY <1>5, <1>6, <2>1 DEF GoesDown
<1>8. A # {} BY <1>1 DEF A
<1> HIDE DEF D
<1>9. Solvable(g, D, A) BY <1>7, <1>8, Recursion
<1>10. PICK f \in [D -> A] : \A pos \in D : f[pos] = g[<<pos, f>>] BY <1>9 DEF Solvable
<1>11. \A pos \in D : f[pos] = From(in, f, pos) BY <1>2, <1>10
<1> QED BY <1>10, <1>11 DEF FromExists, D, A

LEMMA OneBelow ==
  ASSUME NEW N \in Nat, NEW d \in 0..N - 1
  PROVE  \E pos \in 1..N : /\ pos \in 1..N + 1 /\ pos + 1 = N + 1 - d
                          /\ N + 1 - (d + 1) = pos /\ d + 1 \in 0..N
<1>1. PICK pos \in 1..N : pos = N - d OBVIOUS
<1> QED BY <1>1

LEMMA WrapKeeps ==
  ASSUME NEW in \in Wraps, in.width > 0, NEW N \in Nat, N = Len(in.chars), NEW f,
         \A pos \in 1..N + 1 : f[pos] = From(in, f, pos)
  PROVE  Keeps(f[1], in, 1)
<1>1. f[N + 1] = <<>>
  <2>1. N + 1 \in 1..N + 1 /\ N + 1 > Len(in.chars) OBVIOUS
  <2> QED BY <2>1, FromIs
<1> DEFINE T == {d \in 0..N : \A q \in N + 1 - d..N + 1 : Keeps(f[q], in, q)}
<1>2. 0 \in T
  <2>1. Keeps(<<>>, in, N + 1)
    <3>1. <<>> \in Seq(Wrapped) /\ Len(<<>>) = 0 OBVIOUS
    <3>2. Words(<<>>) = <<>> BY DEF Words
    <3>3. Said(<<>>) = <<>> BY <3>2, FlattenEmpty DEF Said
    <3>4. SubSeq(in.chars, N + 1, N) = <<>> BY SubSeqEmpty
    <3>5. \A i \in 1..0 : FitsLine(<<>>[i], in) OBVIOUS
    <3> QED BY <3>1, <3>3, <3>4, <3>5 DEF Keeps
  <2>2. \A q \in N + 1 - 0..N + 1 : q = N + 1 OBVIOUS
  <2>3. 0 \in 0..N OBVIOUS
  <2> QED BY <1>1, <2>1, <2>2, <2>3
<1>3. ASSUME NEW d \in 0..N - 1, d \in T PROVE d + 1 \in T
  <2>2. PICK pos \in 1..N : /\ pos \in 1..N + 1 /\ pos + 1 = N + 1 - d
                           /\ N + 1 - (d + 1) = pos /\ d + 1 \in 0..N
    BY OneBelow
  <2>3. \A q \in pos + 1..N + 1 : Keeps(f[q], in, q) BY <1>3, <2>2
  <2>4. Keeps(f[pos], in, pos)
    <3>1. Keeps(From(in, f, pos), in, pos) BY <1>1, <2>3, FromKeeps
    <3> QED BY <2>2, <3>1
  <2>5. \A q \in pos..N + 1 : q = pos \/ q \in pos + 1..N + 1 OBVIOUS
  <2>6. \A q \in pos..N + 1 : Keeps(f[q], in, q) BY <2>3, <2>4, <2>5
  <2> QED BY <2>2, <2>6
<1>4. 0..N \subseteq T
  <2> HIDE DEF T
  <2> QED BY <1>2, <1>3, InductionUpTo
<1>5. N \in T BY <1>4
<1>6. 1 \in N + 1 - N..N + 1 OBVIOUS
<1> QED BY <1>5, <1>6

WrapFitsIn(in) ==
  LET lines == wrap_spans(in)
      width(i) == LineWidth(lines[i].chars) + (IF lines[i].indented THEN in.indent ELSE 0)
  IN /\ Solid(FlattenSeq([i \in DOMAIN lines |-> lines[i].chars])) = Solid(in.chars)
     /\ in.width > 0 =>
          \A i \in DOMAIN lines : width(i) <= in.width \/ Len(lines[i].chars) = 1

LEMMA WrapsFit ==
  ASSUME NEW in \in Wraps
  PROVE  WrapFitsIn(in)
<1>1. PICK s \in Seq(PageCharacters) : s = in.chars BY DEF Wraps
<1>2. PICK N \in Nat : N = Len(in.chars) BY <1>1, LenProperties
<1>3. PICK lines : lines = wrap_spans(in) OBVIOUS
<1>4. in.width \in Nat /\ in.indent \in Nat BY DEF Wraps
<1>5. CASE in.width = 0 \/ LineWidth(in.chars) <= in.width
  <2>1. PICK l \in Wrapped : l = [indented |-> FALSE, chars |-> s] BY DEF Wrapped
  <2>2. lines = <<l>> BY <1>1, <1>3, <1>5, <2>1 DEF wrap_spans
  <2>3. l.chars = s /\ l.indented = FALSE BY <2>1
  <2>4. DOMAIN lines = {1} /\ lines[1] = l BY <2>2
  <2>5. [i \in DOMAIN lines |-> lines[i].chars] = <<s>> BY <2>2, <2>3
  <2>6. FlattenSeq(<<s>>) = s BY FlattenSingle
  <2>7. LineWidth(s) \in Nat BY WidthIs
  <2>8. in.width > 0 => LineWidth(s) + 0 <= in.width BY <1>1, <1>4, <1>5, <2>7
  <2> QED BY <1>1, <1>3, <2>3, <2>4, <2>5, <2>6, <2>8 DEF WrapFitsIn
<1>6. CASE ~(in.width = 0 \/ LineWidth(in.chars) <= in.width)
  <2> DEFINE Is(f) == f = [pos \in 1..Len(in.chars) + 1 |-> From(in, f, pos)]
             f == CHOOSE f : Is(f)
  <2>1. lines = f[1] BY <1>3, <1>6 DEF wrap_spans, From
  <2>2. in.width > 0 BY <1>4, <1>6
  <2>3. FromExists(in, N) BY <1>2, <2>2, FromSolvable
  <2>4. PICK e \in [1..N + 1 -> Seq(Wrapped)] : \A pos \in 1..N + 1 : e[pos] = From(in, e, pos)
    BY <2>3 DEF FromExists
  <2>5. e = [pos \in 1..N + 1 |-> e[pos]] OBVIOUS
  <2>6. Is(e) BY <1>2, <2>4, <2>5
  <2>7. Is(f)
    <3> HIDE DEF Is
    <3> QED BY <2>6
  <2> HIDE DEF f
  <2>8. \A pos \in 1..N + 1 : f[pos] = From(in, f, pos) BY <1>2, <2>7
  <2> HIDE DEF Is
  <2>9. Keeps(lines, in, 1) BY <1>2, <2>1, <2>2, <2>8, WrapKeeps
  <2>10. SubSeq(in.chars, 1, Len(in.chars)) = in.chars BY <1>1, SubSeqFull
  <2>11. /\ lines \in Seq(Wrapped) /\ Solid(Said(lines)) = Solid(in.chars)
         /\ \A i \in 1..Len(lines) : FitsLine(lines[i], in)
    BY <2>9, <2>10 DEF Keeps
  <2>12. DOMAIN lines = 1..Len(lines) BY <2>11, LenProperties
  <2> QED BY <1>3, <2>11, <2>12 DEF WrapFitsIn, Said, Words, FitsLine
<1> QED BY <1>5, <1>6

-----------------------------------------------------------------------------
(* The page.                                                               *)

LEMMA WrapIsOne ==
  ASSUME mInput \in Wraps
  PROVE  WrapFits
<1>1. PICK in \in Wraps : in = mInput OBVIOUS
<1>2. "chars" \in DOMAIN in /\ "natural" \notin DOMAIN in BY DEF Wraps
<1>3. WrapFitsIn(in) BY WrapsFit
<1> QED BY <1>1, <1>2, <1>3 DEF WrapFits, WrapFitsIn

LEMMA TableIsOne ==
  ASSUME mInput \in Tables
  PROVE  WrapFits
<1>1. PICK in \in Tables : in = mInput OBVIOUS
<1>2. "natural" \in DOMAIN in /\ "chars" \notin DOMAIN in BY DEF Tables
<1>3. TableFits(in) BY TablesFit
<1> QED BY <1>1, <1>2, <1>3 DEF WrapFits, TableFits

\* What is wrapped is never changed.
InputInv == mInput \in {NoInput} \cup Wraps \cup Tables
PagesInv == DocumentInv /\ InputInv

\* push_span, flush_line, start_tag, end_tag and the other handlers of markdown.rs, and
\* wrap_spans and distribute_column_widths: whatever a document consists of and however its
\* parts are nested, what is on the page is what the document says, each text once, in the
\* style of what is open, and in its order: only the texts of a table in an item of a list
\* go ahead of others, those of the line which it interrupts. And however narrow the page,
\* what is wrapped and set in columns is all there and fits.
THEOREM PageIsKept == PagesSpec => []PagesKept
<1>1. PagesInit => PagesInv
  <2>1. PagesInit => InputInv BY PagesAssumption DEF PagesInit, InputInv, Wraps, Tables
  <2> QED BY <2>1, DocumentBegins DEF PagesInit, PagesInv
<1>2. PagesInv /\ [PagesNext]_pagesVars => PagesInv'
  <2> SUFFICES ASSUME PagesInv, [PagesNext]_pagesVars PROVE PagesInv' OBVIOUS
  <2>1. DocumentInv' BY DocumentStep DEF PagesInv
  <2>2. mInput' = mInput
    BY DEF PagesNext, pagesVars, start_tag, end_tag, on_text, on_soft_break, on_hard_break,
           on_rule, on_html
  <2> QED BY <2>1, <2>2 DEF PagesInv, InputInv
<1>3. PagesInv => PagesKept
  <2> SUFFICES ASSUME PagesInv PROVE PagesKept OBVIOUS
  <2>1. CASE mInput = NoInput BY <2>1, KeptIs DEF PagesInv, PagesKept
  <2>2. CASE mInput # NoInput
    <3>1. WrapFits BY <2>2, WrapIsOne, TableIsOne DEF PagesInv, InputInv
    <3> QED BY <2>2, <3>1 DEF PagesKept
  <2> QED BY <2>1, <2>2
<1> QED BY <1>1, <1>2, <1>3, PTL DEF PagesSpec
==============================================================================
