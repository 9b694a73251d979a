------------------------------- MODULE Basics -------------------------------
(***************************************************************************)
(* What the proofs share: least and greatest numbers, division and         *)
(* products, functions defined by recursion, and sequences by index.       *)
(*                                                                         *)
(* The library's induction theorems take an operator as a parameter, which *)
(* the provers cannot instantiate.  A claim about every number is proved   *)
(* here by taking the least one where it fails, from the library's theorem *)
(* that a set of naturals has a minimal element, which takes sets.         *)
(***************************************************************************)
EXTENDS Integers, Sequences, FiniteSetsExt, SequenceTheorems, WellFoundedInduction, TLAPS

\* A set of naturals that is not empty has a least element.
LEMMA Least ==
    ASSUME NEW S \in SUBSET Nat, S # {}
    PROVE  \E x \in S : \A y \in S : x <= y
<1> DEFINE R == OpToRel(<, Nat)
<1>1. IsWellFoundedOn(R, Nat)
  BY NatLessThanWellFounded
<1>2. \E x \in S : \A y \in S : ~(<<y, x>> \in R)
  <2> HIDE DEF R
  <2> QED
    BY <1>1, WFMin
<1>3. PICK x \in S : \A y \in S : ~(<<y, x>> \in R)
  BY <1>2
<1>4. ASSUME NEW y \in S PROVE x <= y
  <2>1. <<y, x>> \notin R /\ <<y, x>> \in Nat \X Nat
    BY <1>3, <1>4
  <2>2. x \in Nat /\ y \in Nat
    BY <1>3, <1>4
  <2>3. ~(y < x)
    BY <2>1 DEF R, OpToRel
  <2> QED
    BY <2>2, <2>3
<1> QED
  BY <1>3, <1>4

\* And, when it is bounded, a greatest one.
LEMMA Greatest ==
    ASSUME NEW n \in Nat, NEW S \in SUBSET (0 .. n), S # {}
    PROVE  \E u \in S : \A v \in S : v <= u
<1> DEFINE T == {n - u : u \in S}
<1>1. T \in SUBSET Nat /\ T # {}
  <2>1. \A u \in S : u \in 0 .. n
    OBVIOUS
  <2>2. \A u \in S : n - u \in Nat
    BY <2>1
  <2>3. PICK u \in S : TRUE
    OBVIOUS
  <2>4. n - u \in T
    BY <2>3
  <2> QED
    BY <2>2, <2>4
<1>2. PICK t \in T : \A u \in T : t <= u
  <2> HIDE DEF T
  <2> QED
    BY <1>1, Least
<1>3. PICK u \in S : t = n - u
  BY <1>2
<1>4. ASSUME NEW v \in S PROVE v <= u
  <2>1. n - v \in T
    OBVIOUS
  <2>2. t <= n - v
    BY <1>2, <2>1
  <2>3. u \in 0 .. n /\ v \in 0 .. n
    BY <1>3, <1>4
  <2> QED
    BY <1>3, <2>2, <2>3
<1> QED
  BY <1>3, <1>4

\* Min returns it.
LEMMA MinIs ==
    ASSUME NEW S \in SUBSET Nat, S # {}
    PROVE  Min(S) \in S /\ \A y \in S : Min(S) <= y
<1>1. \E x \in S : \A y \in S : x <= y
  BY Least
<1> QED
  BY <1>1 DEF Min

\* A claim that holds at zero and goes from each number to the next one.
LEMMA Climb ==
    ASSUME NEW n \in Nat, NEW S, 0 \in S, \A i \in 1 .. n : i - 1 \in S => i \in S
    PROVE  \A i \in 0 .. n : i \in S
<1> DEFINE Bad == {i \in 0 .. n : i \notin S}
<1>1. ASSUME Bad # {} PROVE FALSE
  <2>1. PICK k \in Bad : \A j \in Bad : k <= j
    <3>1. Bad \in SUBSET Nat
      OBVIOUS
    <3> HIDE DEF Bad
    <3> QED
      BY <1>1, <3>1, Least
  <2>2. k \in 0 .. n /\ k \notin S
    BY <2>1
  <2>3. k # 0
    BY <2>2
  <2>4. k - 1 \in 0 .. n /\ ~(k <= k - 1) /\ k \in 1 .. n
    BY <2>2, <2>3
  <2>5. k - 1 \in S
    BY <2>1, <2>4
  <2> QED
    BY <2>2, <2>4, <2>5
<1> QED
  BY <1>1

-----------------------------------------------------------------------------
(* Numbers.                                                                *)

\* Rounding up to a multiple of n.
LEMMA RoundUp ==
    ASSUME NEW n \in Nat, n > 0, NEW a \in Nat, NEW q, q = (a + n - 1) \div n
    PROVE  q \in Nat /\ q * n >= a /\ (a > 0 => q > 0)
<1> DEFINE z == a + n - 1
<1>1. z \in Nat /\ z >= n - 1
  OBVIOUS
<1>2. q = z \div n
  OBVIOUS
<1> HIDE DEF z
<1>3. q \in Nat /\ z % n \in Nat /\ z % n < n /\ z = n * q + (z % n)
  BY <1>1, <1>2
<1>4. n * q = q * n /\ q * n \in Nat
  BY <1>3
<1>5. q * n >= a
  BY <1>3, <1>4 DEF z
<1>6. a > 0 => q > 0
  <2> SUFFICES ASSUME a > 0, q = 0 PROVE FALSE
    BY <1>3
  <2>1. q * n = 0
    OBVIOUS
  <2> QED
    BY <1>5, <2>1
<1> QED
  BY <1>3, <1>5, <1>6

\* Products grow with their factors.
LEMMA Monotone ==
    ASSUME NEW a \in Nat, NEW b \in Nat, NEW p \in Nat, a <= b
    PROVE  /\ a * p \in Nat /\ b * p \in Nat /\ a * p <= b * p
           /\ (b - a) * p = b * p - a * p
<1> DEFINE d == b - a
<1>1. d \in Nat /\ b = a + d
  OBVIOUS
<1> HIDE DEF d
<1>2. d * p \in Nat /\ a * p \in Nat /\ (a + d) * p = a * p + d * p
  BY <1>1
<1>3. b * p = a * p + d * p
  BY <1>1, <1>2
<1>4. a * p <= b * p /\ d * p = b * p - a * p /\ b * p \in Nat
  BY <1>2, <1>3
<1> QED
  BY <1>2, <1>4 DEF d

-----------------------------------------------------------------------------
(* Recursion.                                                              *)

\* A function is defined by its value at zero and the step from each value to
\* the next one.
Runs(f, n, s0, g) == f[0] = s0 /\ \A i \in 1 .. n : f[i] = g[<<f[i - 1], i>>]

LEMMA RunsFor ==
    ASSUME NEW S, NEW s0 \in S, NEW g \in [S \X Nat -> S], NEW n \in Nat
    PROVE  \E f \in [Nat -> S] : Runs(f, n, s0, g)
<1> DEFINE Good(k) == \E f \in [Nat -> S] : Runs(f, k, s0, g)
           Bad == {k \in Nat : ~Good(k)}
<1>1. ASSUME Bad # {} PROVE FALSE
  <2>1. PICK k \in Bad : \A j \in Bad : k <= j
    <3>1. Bad \in SUBSET Nat
      OBVIOUS
    <3> HIDE DEF Bad
    <3> QED
      BY <1>1, <3>1, Least
  <2>2. k \in Nat /\ ~Good(k)
    BY <2>1
  <2>3. Good(0)
    <3> DEFINE f == [i \in Nat |-> s0]
    <3>1. f \in [Nat -> S] /\ Runs(f, 0, s0, g)
      BY DEF Runs
    <3> HIDE DEF f
    <3> QED
      BY <3>1
  <2>4. k # 0
    BY <2>2, <2>3
  <2>5. Good(k - 1)
    <3>1. k - 1 \in Nat /\ ~(k <= k - 1)
      BY <2>2, <2>4
    <3>2. k - 1 \notin Bad
      BY <2>1, <3>1
    <3> QED
      BY <3>1, <3>2
  <2>6. PICK f \in [Nat -> S] : Runs(f, k - 1, s0, g)
    BY <2>5
  <2> DEFINE h == [i \in Nat |-> IF i = k THEN g[<<f[k - 1], k>>] ELSE f[i]]
  <2>7. g[<<f[k - 1], k>>] \in S
    <3>1. k - 1 \in Nat
      BY <2>2, <2>4
    <3>2. <<f[k - 1], k>> \in S \X Nat
      BY <2>2, <2>6, <3>1
    <3> QED
      BY <3>2
  <2>8. h \in [Nat -> S] /\ h[0] = s0 /\ h[k] = g[<<f[k - 1], k>>]
    BY <2>2, <2>4, <2>6, <2>7 DEF Runs
  <2>9. ASSUME NEW i \in 1 .. k PROVE h[i] = g[<<h[i - 1], i>>]
    <3>1. h[i - 1] = f[i - 1]
      BY <2>2, <2>9
    <3>2. CASE i = k
      BY <2>8, <3>1, <3>2
    <3>3. CASE i # k
      <4>1. i \in 1 .. k - 1 /\ h[i] = f[i]
        BY <2>2, <2>9, <3>3
      <4> QED
        BY <2>6, <3>1, <4>1 DEF Runs
    <3> QED
      BY <3>2, <3>3
  <2>10. Good(k)
    <3> HIDE DEF h
    <3> QED
      BY <2>8, <2>9 DEF Runs
  <2> QED
    BY <2>2, <2>10
<1>2. n \notin Bad
  BY <1>1
<1> QED
  BY <1>2

AgreeUpTo(e, f, m, n) == \A i \in Nat : i <= m /\ i <= n => e[i] = f[i]

LEMMA RunsAgree ==
    ASSUME NEW S, NEW s0 \in S, NEW g \in [S \X Nat -> S], NEW m \in Nat, NEW n \in Nat,
           NEW e \in [Nat -> S], NEW f \in [Nat -> S],
           Runs(e, m, s0, g), Runs(f, n, s0, g)
    PROVE  AgreeUpTo(e, f, m, n)
<1> DEFINE Bad == {i \in Nat : i <= m /\ i <= n /\ e[i] # f[i]}
<1>1. ASSUME Bad # {} PROVE FALSE
  <2>1. PICK k \in Bad : \A j \in Bad : k <= j
    <3>1. Bad \in SUBSET Nat
      OBVIOUS
    <3> HIDE DEF Bad
    <3> QED
      BY <1>1, <3>1, Least
  <2>2. k \in Nat /\ k <= m /\ k <= n /\ e[k] # f[k]
    BY <2>1
  <2>3. k # 0
    BY <2>2 DEF Runs
  <2>4. k - 1 \in Nat /\ k - 1 <= m /\ k - 1 <= n /\ ~(k <= k - 1)
    BY <2>2, <2>3
  <2>5. e[k - 1] = f[k - 1]
    BY <2>1, <2>4
  <2>6. k \in 1 .. m /\ k \in 1 .. n
    BY <2>2, <2>3
  <2>7. e[k] = g[<<e[k - 1], k>>] /\ f[k] = g[<<f[k - 1], k>>]
    BY <2>6 DEF Runs
  <2> QED
    BY <2>2, <2>5, <2>7
<1> QED
  BY <1>1 DEF AgreeUpTo

Recurs(f, S, s0, g) ==
    /\ f \in [Nat -> S]
    /\ f[0] = s0
    /\ \A i \in Nat \ {0} : f[i] = g[<<f[i - 1], i>>]

LEMMA Recursion ==
    ASSUME NEW S, NEW s0 \in S, NEW g \in [S \X Nat -> S]
    PROVE  \E f : Recurs(f, S, s0, g)
<1> DEFINE run == [n \in Nat |-> CHOOSE f \in [Nat -> S] : Runs(f, n, s0, g)]
           f == [n \in Nat |-> run[n][n]]
<1>1. \A n \in Nat : run[n] \in [Nat -> S] /\ Runs(run[n], n, s0, g)
  BY RunsFor
<1> HIDE DEF run
<1>2. f \in [Nat -> S]
  BY <1>1
<1>3. ASSUME NEW i \in Nat
      PROVE  f[i] = IF i = 0 THEN s0 ELSE g[<<f[i - 1], i>>]
  <2>1. f[i] = run[i][i]
    OBVIOUS
  <2>2. CASE i = 0
    BY <1>1, <2>1, <2>2 DEF Runs
  <2>3. CASE i # 0
    <3>1. i - 1 \in Nat /\ i - 1 <= i /\ i - 1 <= i - 1 /\ i \in 1 .. i
      BY <2>3
    <3>2. f[i - 1] = run[i - 1][i - 1]
      BY <3>1
    <3>3. run[i - 1][i - 1] = run[i][i - 1]
      <4> DEFINE j == i - 1
      <4>2. j \in Nat /\ j <= j /\ j <= i
        BY <3>1
      <4> HIDE DEF j, f
      <4>1. /\ run[j] \in [Nat -> S] /\ Runs(run[j], j, s0, g)
            /\ run[i] \in [Nat -> S] /\ Runs(run[i], i, s0, g)
        BY <1>1, <4>2
      <4>3. AgreeUpTo(run[j], run[i], j, i)
        BY <4>1, <4>2, RunsAgree
      <4> QED
        BY <4>2, <4>3 DEF j, AgreeUpTo
    <3>4. run[i][i] = g[<<run[i][i - 1], i>>]
      BY <1>1, <3>1 DEF Runs
    <3> QED
      BY <2>1, <2>3, <3>2, <3>3, <3>4
  <2> QED
    BY <2>2, <2>3
<1> HIDE DEF f
<1> QED
  BY <1>2, <1>3 DEF Recurs

-----------------------------------------------------------------------------
(* Sequences by index.                                                     *)

LEMMA LenOf ==
    /\ Len(<<>>) = 0
    /\ \A a : Len(<<a>>) = 1
    /\ \A a, b : Len(<<a, b>>) = 2
    /\ \A a, b, c : Len(<<a, b, c>>) = 3
<1> QED
  OBVIOUS

LEMMA TailOf ==
    /\ \A a : Head(<<a>>) = a /\ Tail(<<a>>) = <<>>
    /\ \A a, b : Head(<<a, b>>) = a /\ Tail(<<a, b>>) = <<b>>
    /\ \A a, b, c : Head(<<a, b, c>>) = a /\ Tail(<<a, b, c>>) = <<b, c>>
<1> QED
  OBVIOUS

LEMMA AppendOf ==
    /\ \A a : Append(<<>>, a) = <<a>>
    /\ \A a, b : Append(<<a>>, b) = <<a, b>>
<1>1. ASSUME NEW a PROVE Append(<<>>, a) = <<a>>
  OBVIOUS
<1>2. ASSUME NEW a, NEW b PROVE Append(<<a>>, b) = <<a, b>>
  <2> DEFINE S == {a, b}
             s == <<a>>
             t == <<a, b>>
             n == Append(s, b)
  <2>1. s \in Seq(S) /\ Len(s) = 1 /\ s[1] = a
    OBVIOUS
  <2>2. t \in Seq(S) /\ Len(t) = 2 /\ t[1] = a /\ t[2] = b
    OBVIOUS
  <2>3. n \in Seq(S) /\ Len(n) = 2 /\ n[1] = a /\ n[2] = b
    <3>1. a \in S /\ b \in S
      OBVIOUS
    <3> HIDE DEF S
    <3> QED
      BY <3>1
  <2>4. \A i \in 1 .. Len(n) : n[i] = t[i]
    <3> HIDE DEF n, t
    <3> QED
      BY <2>2, <2>3
  <2> HIDE DEF n, t, S
  <2>5. n = t
    BY <2>2, <2>3, <2>4, SeqEqual
  <2> QED
    BY <2>5 DEF n, s, t
<1> QED
  BY <1>1, <1>2

\* s is a sequence of n items of S: the length is a name of its own, so that the
\* provers reason about it and not about Len.
Long(s, S, n) == s \in Seq(S) /\ n \in Nat /\ Len(s) = n

\* t is p followed by q, by index.
Joined(t, p, q, S, m, n) ==
    /\ Long(t, S, m + n)
    /\ \A k \in 1 .. m : t[k] = p[k]
    /\ \A k \in 1 .. n : t[m + k] = q[k]

LEMMA ConcatIs ==
    ASSUME NEW S, NEW p, NEW q, NEW m, NEW n, Long(p, S, m), Long(q, S, n)
    PROVE  Joined(p \o q, p, q, S, m, n)
<1> DEFINE t == p \o q
<1>1. p \in Seq(S) /\ q \in Seq(S) /\ m \in Nat /\ n \in Nat /\ Len(p) = m /\ Len(q) = n
  BY DEF Long
<1>2. /\ t \in Seq(S)
      /\ Len(t) = Len(p) + Len(q)
      /\ \A k \in 1 .. Len(p) + Len(q) : t[k] = IF k <= Len(p) THEN p[k] ELSE q[k - Len(p)]
  BY <1>1, ConcatProperties
<1> HIDE DEF t
<1>3. \A k \in 1 .. m + n : t[k] = IF k <= m THEN p[k] ELSE q[k - m]
  BY <1>1, <1>2
<1>4. Len(t) = m + n
  BY <1>1, <1>2
<1>5. Long(t, S, m + n)
  BY <1>1, <1>2, <1>4 DEF Long
<1>6. m \in Nat /\ n \in Nat
  BY <1>1
<1>7. ASSUME NEW k \in 1 .. m PROVE t[k] = p[k]
  <2>1. k \in 1 .. m + n /\ k <= m
    BY <1>6
  <2> QED
    BY <1>3, <2>1
<1>8. ASSUME NEW k \in 1 .. n PROVE t[m + k] = q[k]
  <2>1. m + k \in 1 .. m + n /\ ~(m + k <= m) /\ (m + k) - m = k
    BY <1>6
  <2> QED
    BY <1>3, <2>1
<1>9. Joined(t, p, q, S, m, n)
  BY <1>5, <1>7, <1>8 DEF Joined
<1> QED
  BY <1>9 DEF t

\* The items of s from the a-th on.
Sliced(t, s, S, a, n) == Long(t, S, n) /\ \A k \in 1 .. n : t[k] = s[a - 1 + k]

LEMMA SliceIs ==
    ASSUME NEW S, NEW s, NEW n, Long(s, S, n), NEW a \in Nat, NEW b \in Nat,
           1 <= a, a <= b + 1, b <= n
    PROVE  Sliced(SubSeq(s, a, b), s, S, a, b + 1 - a)
<1>1. s \in Seq(S) /\ n \in Nat /\ Len(s) = n
  BY DEF Long
<1>2. \A i \in a .. b : i \in 1 .. Len(s)
  BY <1>1
<1>3. /\ SubSeq(s, a, b) \in Seq(S)
      /\ Len(SubSeq(s, a, b)) = IF a <= b THEN b - a + 1 ELSE 0
  BY <1>1, <1>2, SubSeqProperties
<1>4. Len(SubSeq(s, a, b)) = b + 1 - a
  BY <1>3
<1>5. \A k \in 1 .. b + 1 - a : SubSeq(s, a, b)[k] = s[a - 1 + k]
  <2> SUFFICES ASSUME NEW k \in 1 .. b + 1 - a PROVE SubSeq(s, a, b)[k] = s[a - 1 + k]
    OBVIOUS
  <2>1. \A k2 \in 1 .. b - a + 1 : SubSeq(s, a, b)[k2] = s[a + k2 - 1]
    BY <1>1, <1>2, SubSeqProperties
  <2>2. k \in 1 .. b - a + 1 /\ a + k - 1 = a - 1 + k
    OBVIOUS
  <2> QED
    BY <2>1, <2>2
<1> QED
  BY <1>3, <1>4, <1>5 DEF Long, Sliced

\* t is s with the m items of r in the place of its i-th.
Replaces(t, s, r, S, i, m, n) ==
    /\ Long(t, S, n + m - 1)
    /\ \A k \in 1 .. i - 1 : t[k] = s[k]
    /\ \A k \in 1 .. m : t[i - 1 + k] = r[k]
    /\ \A k \in i + 1 .. n : t[k + m - 1] = s[k]

LEMMA ReplacesByParts ==
    ASSUME NEW S, NEW s, NEW n \in Nat, NEW i \in 1 .. n, NEW r, NEW m \in Nat,
           NEW p, Sliced(p, s, S, 1, i - 1), NEW q, Sliced(q, s, S, i + 1, n - i),
           NEW u, Joined(u, p, r, S, i - 1, m),
           NEW t, Joined(t, u, q, S, (i - 1) + m, n - i)
    PROVE  Replaces(t, s, r, S, i, m, n)
<1>1. ((i - 1) + m) + (n - i) = n + m - 1
  OBVIOUS
<1>2. Long(t, S, n + m - 1)
  BY <1>1 DEF Joined
<1>3. ASSUME NEW k \in 1 .. i - 1 PROVE t[k] = s[k]
  <2>1. k \in 1 .. (i - 1) + m /\ 1 - 1 + k = k
    OBVIOUS
  <2>2. t[k] = u[k] /\ u[k] = p[k]
    BY <2>1 DEF Joined
  <2>3. p[k] = s[1 - 1 + k]
    BY DEF Sliced
  <2> QED
    BY <2>1, <2>2, <2>3
<1>4. ASSUME NEW k \in 1 .. m PROVE t[i - 1 + k] = r[k]
  <2>1. (i - 1) + k \in 1 .. (i - 1) + m
    OBVIOUS
  <2> QED
    BY <2>1 DEF Joined
<1>5. ASSUME NEW k \in i + 1 .. n PROVE t[k + m - 1] = s[k]
  <2>1. k - i \in 1 .. n - i /\ (i + 1) - 1 + (k - i) = k /\ ((i - 1) + m) + (k - i) = k + m - 1
    OBVIOUS
  <2>2. t[((i - 1) + m) + (k - i)] = q[k - i]
    BY <2>1 DEF Joined
  <2>3. q[k - i] = s[(i + 1) - 1 + (k - i)]
    BY <2>1 DEF Sliced
  <2> QED
    BY <2>1, <2>2, <2>3
<1> QED
  BY <1>2, <1>3, <1>4, <1>5 DEF Replaces

LEMMA Replaced ==
    ASSUME NEW S, NEW s, NEW n, Long(s, S, n), NEW i \in 1 .. n, NEW r, NEW m, Long(r, S, m)
    PROVE  Replaces(SubSeq(s, 1, i - 1) \o r \o SubSeq(s, i + 1, n), s, r, S, i, m, n)
<1> DEFINE p == SubSeq(s, 1, i - 1)
           q == SubSeq(s, i + 1, n)
           u == p \o r
           t == u \o q
<1>0. n \in Nat /\ m \in Nat
  BY DEF Long
<1>1. Sliced(p, s, S, 1, i - 1)
  <2>1. i - 1 \in Nat /\ 1 <= (i - 1) + 1 /\ i - 1 <= n /\ (i - 1) + 1 - 1 = i - 1
    BY <1>0
  <2>2. Sliced(p, s, S, 1, (i - 1) + 1 - 1)
    BY <2>1, SliceIs
  <2> QED
    BY <2>1, <2>2
<1>2. Sliced(q, s, S, i + 1, n - i)
  <2>1. i + 1 \in Nat /\ 1 <= i + 1 /\ i + 1 <= n + 1 /\ n <= n /\ n + 1 - (i + 1) = n - i
    BY <1>0
  <2>2. Sliced(q, s, S, i + 1, n + 1 - (i + 1))
    BY <1>0, <2>1, SliceIs
  <2> QED
    BY <2>1, <2>2
<1>3. Joined(u, p, r, S, i - 1, m)
  <2>1. Long(p, S, i - 1)
    BY <1>1 DEF Sliced
  <2> HIDE DEF p
  <2> QED
    BY <2>1, ConcatIs
<1>4. Joined(t, u, q, S, (i - 1) + m, n - i)
  <2>1. Long(u, S, (i - 1) + m) /\ Long(q, S, n - i)
    BY <1>2, <1>3 DEF Sliced, Joined
  <2> HIDE DEF u, q
  <2> QED
    BY <2>1, ConcatIs
<1>5. t = SubSeq(s, 1, i - 1) \o r \o SubSeq(s, i + 1, n)
  OBVIOUS
<1> HIDE DEF p, q, u, t
<1>6. Replaces(t, s, r, S, i, m, n)
  BY <1>0, <1>1, <1>2, <1>3, <1>4, ReplacesByParts
<1> QED
  BY <1>5, <1>6

\* Its items are those of s, without the i-th, and those of r.
ItemsAre(t, s, r, i, m, n) ==
    \A z : (\E k \in 1 .. n + m - 1 : t[k] = z)
              <=> ((\E k \in 1 .. n : k # i /\ s[k] = z) \/ (\E k \in 1 .. m : r[k] = z))

LEMMA ItemsOfReplaced ==
    ASSUME NEW S, NEW s, NEW n \in Nat, NEW i \in 1 .. n, NEW r, NEW m \in Nat, m > 0,
           NEW t, Replaces(t, s, r, S, i, m, n)
    PROVE  ItemsAre(t, s, r, i, m, n)
<1> SUFFICES ASSUME NEW z
             PROVE  (\E k \in 1 .. n + m - 1 : t[k] = z)
                      <=> ((\E k \in 1 .. n : k # i /\ s[k] = z) \/ (\E k \in 1 .. m : r[k] = z))
  BY DEF ItemsAre
<1>1. ASSUME NEW k \in 1 .. n + m - 1, t[k] = z
      PROVE  (\E l \in 1 .. n : l # i /\ s[l] = z) \/ (\E l \in 1 .. m : r[l] = z)
  <2>1. CASE k \in 1 .. i - 1
    <3>1. k \in 1 .. n /\ k # i
      BY <2>1
    <3>2. t[k] = s[k]
      BY <2>1 DEF Replaces
    <3> QED
      BY <1>1, <3>1, <3>2
  <2>2. CASE k \in i .. i - 1 + m
    <3>1. k - (i - 1) \in 1 .. m /\ i - 1 + (k - (i - 1)) = k
      BY <2>2
    <3>2. t[i - 1 + (k - (i - 1))] = r[k - (i - 1)]
      BY <3>1 DEF Replaces
    <3> QED
      BY <1>1, <3>1, <3>2
  <2>3. CASE k > i - 1 + m
    <3>1. k + 1 - m \in i + 1 .. n /\ (k + 1 - m) + m - 1 = k /\ k + 1 - m \in 1 .. n
          /\ k + 1 - m # i
      BY <2>3
    <3>2. t[(k + 1 - m) + m - 1] = s[k + 1 - m]
      BY <3>1 DEF Replaces
    <3> QED
      BY <1>1, <3>1, <3>2
  <2>4. k \in 1 .. i - 1 \/ k \in i .. i - 1 + m \/ k > i - 1 + m
    OBVIOUS
  <2> QED
    BY <2>1, <2>2, <2>3, <2>4
<1>2. ASSUME NEW l \in 1 .. n, l # i, s[l] = z PROVE \E k \in 1 .. n + m - 1 : t[k] = z
  <2>1. CASE l < i
    <3>1. l \in 1 .. i - 1 /\ l \in 1 .. n + m - 1
      BY <2>1
    <3>2. t[l] = s[l]
      BY <3>1 DEF Replaces
    <3> QED
      BY <1>2, <3>1, <3>2
  <2>2. CASE l > i
    <3>1. l \in i + 1 .. n /\ l + m - 1 \in 1 .. n + m - 1
      BY <2>2
    <3>2. t[l + m - 1] = s[l]
      BY <3>1 DEF Replaces
    <3> QED
      BY <1>2, <3>1, <3>2
  <2>3. l < i \/ l > i
    BY <1>2
  <2> QED
    BY <2>1, <2>2, <2>3
<1>3. ASSUME NEW l \in 1 .. m, r[l] = z PROVE \E k \in 1 .. n + m - 1 : t[k] = z
  <2>1. i - 1 + l \in 1 .. n + m - 1
    OBVIOUS
  <2>2. t[i - 1 + l] = r[l]
    BY DEF Replaces
  <2> QED
    BY <1>3, <2>1, <2>2
<1> QED
  BY <1>1, <1>2, <1>3
=============================================================================
