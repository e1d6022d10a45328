----------------------------- MODULE DataLemmas -----------------------------
(***************************************************************************)
(* Induction over data, for the modules of proofs: what a fold over a       *)
(* sequence has after each of its elements.  The library's induction        *)
(* theorems speak of an operator; these speak of a set of numbers, of which *)
(* each proof gives its own.                                                *)
(***************************************************************************)
EXTENDS Integers, SequenceTheorems, WellFoundedInduction, TLAPS

\* A set with 0 and the successor of each natural in it has all of them.
LEMMA Induction ==
  ASSUME NEW T, 0 \in T, \A n \in Nat : n \in T => n + 1 \in T
  PROVE  Nat \subseteq T
<1> SUFFICES ASSUME Nat \ T # {} PROVE FALSE
  OBVIOUS
<1>2. PICK R : R = {ss \in Nat \X Nat : ss[1] < ss[2]}
  OBVIOUS
<1>3. IsWellFoundedOn(R, Nat)
  BY <1>2, NatLessThanWellFounded DEF OpToRel
<1>4. PICK x \in Nat \ T : \A y \in Nat \ T : ~(<<y, x>> \in R)
  <2>1. Nat \ T \subseteq Nat
    OBVIOUS
  <2> QED BY <1>3, <2>1, WFMin
<1>5. x - 1 \in Nat \ T
  OBVIOUS
<1>6. <<x - 1, x>> \in R
  BY <1>2, <1>5
<1> QED BY <1>4, <1>5, <1>6

\* The same up to a number.
LEMMA Climb ==
  ASSUME NEW n \in Nat, NEW T, 0 \in T, \A i \in 1..n : i - 1 \in T => i \in T
  PROVE  0..n \subseteq T
<1> DEFINE U == {k \in Nat : k <= n => k \in T}
<1>1. 0 \in U
  OBVIOUS
<1>2. ASSUME NEW k \in Nat, k \in U  PROVE k + 1 \in U
  <2> SUFFICES ASSUME k + 1 <= n  PROVE k + 1 \in T
    OBVIOUS
  <2>1. k \in T /\ k + 1 \in 1..n /\ (k + 1) - 1 = k
    BY <1>2
  <2> QED  BY <2>1
<1>3. Nat \subseteq U
  <2> HIDE DEF U
  <2> QED  BY <1>1, <1>2, Induction
<1> QED  BY <1>3

\* What holds at first and after each turn holds at last.
LEMMA InTurn ==
  ASSUME NEW n \in Nat, NEW X, NEW h, h[0] \in X, \A i \in 1..n : h[i-1] \in X => h[i] \in X
  PROVE  h[n] \in X
<1> DEFINE T == {i \in 0..n : h[i] \in X}
<1>1. 0 \in T /\ \A i \in 1..n : i - 1 \in T => i \in T
  OBVIOUS
<1>2. 0..n \subseteq T
  <2> HIDE DEF T
  <2> QED  BY <1>1, Climb
<1> QED  BY <1>2

\* The greatest of a set of indexes.
Greatest(s) == CHOOSE x \in s : \A y \in s : x >= y

LEMMA MaxIn ==
  ASSUME NEW n \in Nat, NEW s \in SUBSET (1..n), s # {}
  PROVE  Greatest(s) \in s /\ \A y \in s : Greatest(s) >= y
<1> DEFINE Top(k) == \A t \in SUBSET (1..k) : t # {} => \E x \in t : \A y \in t : x >= y
<1>1. Top(0)
  <2>1. 1..0 = {}
    OBVIOUS
  <2> QED  BY <2>1
<1>2. ASSUME NEW k \in Nat, Top(k)  PROVE Top(k + 1)
  <2> SUFFICES ASSUME NEW t \in SUBSET (1..k+1), t # {}  PROVE \E x \in t : \A y \in t : x >= y
    OBVIOUS
  <2>1. CASE k + 1 \in t
    BY <2>1
  <2>2. CASE k + 1 \notin t
    <3>1. t \in SUBSET (1..k)
      BY <2>2
    <3> QED  BY <3>1, <1>2
  <2> QED  BY <2>1, <2>2
<1>3. Top(n)
  <2> HIDE DEF Top
  <2> DEFINE T == {k \in Nat : Top(k)}
  <2>1. 0 \in T /\ \A k \in Nat : k \in T => k + 1 \in T
    BY <1>1, <1>2
  <2>2. n \in T
    <3> HIDE DEF T
    <3> QED  BY <2>1, Induction
  <2> QED  BY <2>2
<1> QED  BY <1>3 DEF Greatest

\* A set of indexes has a least one.
LEMMA MinIn ==
  ASSUME NEW n \in Nat, NEW s \in SUBSET (1..n), s # {}
  PROVE  \E x \in s : \A y \in s : x <= y
<1>1. PICK t : t = {(n - x) + 1 : x \in s}
  OBVIOUS
<1>2. \A x \in s : (n - x) + 1 \in 1..n
  OBVIOUS
<1>3. t \in SUBSET (1..n) /\ t # {}
  BY <1>1, <1>2
<1>4. Greatest(t) \in t /\ \A y \in t : Greatest(t) >= y
  BY <1>3, MaxIn
<1>5. PICK x \in s : Greatest(t) = (n - x) + 1
  BY <1>1, <1>4
<1>6. ASSUME NEW y \in s  PROVE x <= y
  <2>1. (n - y) + 1 \in t
    BY <1>1
  <2> QED  BY <1>4, <1>5, <2>1
<1> QED  BY <1>6

\* The indexes up to one of them.
LEMMA UpTo ==
  ASSUME NEW n \in Nat, NEW i \in 1..n
  PROVE  1..i \in SUBSET (1..n) /\ 1..i # {} /\ Greatest(1..i) = i /\ (1..i) \ {i} = 1..(i-1)
<1>1. 1..i \in SUBSET (1..n) /\ i \in 1..i /\ (1..i) \ {i} = 1..(i-1)
  OBVIOUS
<1>2. Greatest(1..i) \in 1..i /\ Greatest(1..i) >= i
  BY <1>1, MaxIn
<1> QED  BY <1>1, <1>2

\* A fold from the left, as a function on sets of indexes, of which it takes the greatest last.
FoldsTo(f, n, b, D) ==
  f = [s \in SUBSET (1..n) |-> IF s = {} THEN b ELSE D[<<f[s \ {Greatest(s)}], Greatest(s)>>]]

\* There is one, for any step.
LEMMA FoldExists ==
  ASSUME NEW n \in Nat, NEW X, NEW b \in X, NEW D \in [X \X (1..n) -> X]
  PROVE  \E f \in [SUBSET (1..n) -> X] : FoldsTo(f, n, b, D)
<1> DEFINE Ok(k) == k <= n => \E f \in [SUBSET (1..k) -> X] : FoldsTo(f, k, b, D)
<1>1. Ok(0)
  <2>1. PICK f : f = [s \in SUBSET (1..0) |-> b]
    OBVIOUS
  <2>2. SUBSET (1..0) = {{}}
    <3>1. 1..0 = {}
      OBVIOUS
    <3> QED  BY <3>1
  <2> QED  BY <2>1, <2>2 DEF FoldsTo
<1>2. ASSUME NEW k \in Nat, Ok(k)  PROVE Ok(k + 1)
  <2> SUFFICES ASSUME k + 1 <= n  PROVE \E f \in [SUBSET (1..k+1) -> X] : FoldsTo(f, k+1, b, D)
    OBVIOUS
  <2>1. PICK g \in [SUBSET (1..k) -> X] : FoldsTo(g, k, b, D)
    <3>1. k <= n
      OBVIOUS
    <3> QED  BY <1>2, <3>1, Zenon
  <2> HIDE DEF Ok
  <2>2. PICK h : h = [s \in SUBSET (1..k+1) |-> IF k + 1 \in s THEN D[<<g[s \ {k+1}], k+1>>] ELSE g[s]]
    OBVIOUS
  <2>3. ASSUME NEW s \in SUBSET (1..k+1), k + 1 \notin s  PROVE s \in SUBSET (1..k) /\ g[s] \in X /\ h[s] = g[s]
    <3>1. s \in SUBSET (1..k)
      BY <2>3
    <3> QED  BY <3>1, <2>1, <2>2, <2>3
  <2>4. ASSUME NEW s \in SUBSET (1..k+1), k + 1 \in s
        PROVE  h[s] \in X /\ h[s] = D[<<h[s \ {k+1}], k+1>>] /\ Greatest(s) = k + 1
    <3>1. s \ {k+1} \in SUBSET (1..k) /\ s \ {k+1} \in SUBSET (1..k+1)
      OBVIOUS
    <3>2. h[s \ {k+1}] = g[s \ {k+1}] /\ g[s \ {k+1}] \in X
      BY <3>1, <2>3
    <3>3. Greatest(s) = k + 1
      <4>1. k + 1 \in Nat /\ s # {}
        BY <2>4
      <4>2. Greatest(s) \in s /\ \A y \in s : Greatest(s) >= y
        BY <4>1, MaxIn
      <4>3. Greatest(s) \in 1..k+1 /\ Greatest(s) >= k + 1
        BY <4>2, <2>4
      <4> QED  BY <4>3
    <3>4. k + 1 \in 1..n
      OBVIOUS
    <3>5. h[s] = D[<<g[s \ {k+1}], k+1>>]
      BY <2>2, <2>4
    <3> QED  BY <3>2, <3>3, <3>4, <3>5
  <2>5. h \in [SUBSET (1..k+1) -> X]
    BY <2>2, <2>3, <2>4
  <2>6. ASSUME NEW s \in SUBSET (1..k+1)
        PROVE  h[s] = IF s = {} THEN b ELSE D[<<h[s \ {Greatest(s)}], Greatest(s)>>]
    <3>1. CASE k + 1 \in s
      BY <3>1, <2>4
    <3>2. CASE k + 1 \notin s /\ s # {}
      <4>1. s \in SUBSET (1..k) /\ h[s] = g[s]
        BY <3>2, <2>3
      <4>2. s \ {Greatest(s)} \in SUBSET (1..k+1) /\ k + 1 \notin s \ {Greatest(s)}
        BY <3>2
      <4>3. h[s \ {Greatest(s)}] = g[s \ {Greatest(s)}]
        BY <4>2, <2>3
      <4>4. g[s] = D[<<g[s \ {Greatest(s)}], Greatest(s)>>]
        BY <4>1, <3>2, <2>1 DEF FoldsTo
      <4> QED  BY <3>2, <4>1, <4>3, <4>4
    <3>3. CASE s = {}
      <4>1. h[s] = g[s] /\ s \in SUBSET (1..k)
        BY <2>3, <3>3
      <4> QED  BY <3>3, <4>1, <2>1 DEF FoldsTo
    <3> QED  BY <3>1, <3>2, <3>3
  <2>7. FoldsTo(h, k+1, b, D)
    <3>1. h = [s \in SUBSET (1..k+1) |-> IF s = {} THEN b ELSE D[<<h[s \ {Greatest(s)}], Greatest(s)>>]]
      BY <2>2, <2>6
    <3> QED  BY <3>1 DEF FoldsTo
  <2> QED  BY <2>5, <2>7
<1>3. Ok(n)
  <2> HIDE DEF Ok
  <2> DEFINE T == {k \in Nat : Ok(k)}
  <2>1. 0 \in T /\ \A k \in Nat : k \in T => k + 1 \in T
    BY <1>1, <1>2
  <2>2. n \in T
    <3> HIDE DEF T
    <3> QED  BY <2>1, Induction
  <2> QED  BY <2>2
<1>4. n <= n
  OBVIOUS
<1> QED  BY <1>3, <1>4, Zenon

-----------------------------------------------------------------------------
(* Sorting by insertion, of points by their first coordinate.                *)

\* b is a with x put behind the last point that is not above it.
GoesIn(b, a, x) ==
  \E m \in 0..Len(a) :
    /\ m > 0 => a[m][1] <= x[1]
    /\ \A i \in 1..Len(a) : i > m => x[1] < a[i][1]
    /\ Len(b) = Len(a) + 1 /\ b[m + 1] = x
    /\ \A i \in 1..Len(a) : IF i <= m THEN b[i] = a[i] ELSE b[i + 1] = a[i]

\* Where the last of some places is, if there is one.
LEMMA LastPlace ==
  ASSUME NEW n \in Nat, NEW r \in SUBSET (1..n)
  PROVE  \A m : m = (CHOOSE x \in {0} \cup r : \A y \in {0} \cup r : x >= y)
                  => m \in {0} \cup r /\ m \in 0..n /\ \A i \in r : i <= m
<1>1. \E x \in {0} \cup r : \A y \in {0} \cup r : x >= y
  <2>1. CASE r = {}
    BY <2>1
  <2>2. CASE r # {}
    <3>1. Greatest(r) \in r /\ \A y \in r : Greatest(r) >= y
      BY <2>2, MaxIn
    <3>2. Greatest(r) \in 1..n
      BY <3>1, Zenon
    <3>3. Greatest(r) >= 0
      BY <3>2
    <3> QED  BY <3>1, <3>3
  <2> QED  BY <2>1, <2>2
<1>2. ASSUME NEW m, m \in {0} \cup r, \A y \in {0} \cup r : m >= y
      PROVE  m \in {0} \cup r /\ m \in 0..n /\ \A i \in r : i <= m
  BY <1>2
<1> QED  BY <1>1, <1>2, Zenon

\* A sequence with one element put behind the m-th.
LEMMA Inserted ==
  ASSUME NEW P, NEW a \in Seq(P), NEW p \in P, NEW m \in 0..Len(a),
         NEW b, b = SubSeq(a, 1, m) \o <<p>> \o SubSeq(a, m + 1, Len(a)),
         m > 0 => a[m][1] <= p[1], \A i \in 1..Len(a) : i > m => p[1] < a[i][1]
  PROVE  b \in Seq(P) /\ GoesIn(b, a, p)
<1>1. PICK n : n = Len(a)
  OBVIOUS
<1>2. n \in Nat /\ a \in Seq(P) /\ m \in 0..n
  BY <1>1, LenProperties
<1>3. PICK u, v : u = SubSeq(a, 1, m) /\ v = SubSeq(a, m + 1, n)
  OBVIOUS
<1>4. u \in Seq(P) /\ Len(u) = m /\ \A i \in 1..m : u[i] = a[i]
  BY <1>1, <1>2, <1>3
<1>5. v \in Seq(P) /\ Len(v) = n - m /\ \A i \in 1..(n - m) : v[i] = a[m + i]
  BY <1>1, <1>2, <1>3
<1>6. PICK w : w = u \o <<p>>
  OBVIOUS
<1>7. w \in Seq(P) /\ Len(w) = m + 1 /\ w[m + 1] = p /\ \A i \in 1..m : w[i] = a[i]
  BY <1>2, <1>4, <1>6
<1>8. b = w \o v
  BY <1>1, <1>3, <1>6
<1>9. /\ b \in Seq(P) /\ Len(b) = (m + 1) + (n - m)
      /\ \A i \in 1..(m + 1) : b[i] = w[i]
      /\ \A i \in 1..(n - m) : b[(m + 1) + i] = v[i]
  <2>1. /\ w \o v \in Seq(P) /\ Len(w \o v) = Len(w) + Len(v)
        /\ \A i \in 1..Len(w) + Len(v) : (w \o v)[i] = IF i <= Len(w) THEN w[i] ELSE v[i - Len(w)]
    BY <1>5, <1>7, ConcatProperties
  <2>2. /\ b \in Seq(P) /\ Len(b) = (m + 1) + (n - m)
        /\ \A i \in 1..(m + 1) + (n - m) : b[i] = IF i <= m + 1 THEN w[i] ELSE v[i - (m + 1)]
    BY <1>5, <1>7, <1>8, <2>1
  <2>3. \A i \in 1..(n - m) :
          /\ (m + 1) + i \in 1..(m + 1) + (n - m) /\ ~((m + 1) + i <= m + 1) /\ ((m + 1) + i) - (m + 1) = i
    BY <1>2
  <2>4. \A i \in 1..(m + 1) : i \in 1..(m + 1) + (n - m) /\ i <= m + 1
    BY <1>2
  <2> QED  BY <2>2, <2>3, <2>4
<1>10. ASSUME NEW i \in 1..n  PROVE IF i <= m THEN b[i] = a[i] ELSE b[i + 1] = a[i]
  <2>1. CASE i <= m
    <3>1. i \in 1..m /\ i \in 1..(m + 1)
      BY <1>2, <2>1
    <3>2. w[i] = a[i] /\ b[i] = w[i]
      BY <1>7, <1>9, <3>1
    <3> QED  BY <2>1, <3>2
  <2>2. CASE ~(i <= m)
    <3>1. i - m \in 1..(n - m) /\ (m + 1) + (i - m) = i + 1 /\ m + (i - m) = i
      <4>1. m \in Int /\ n \in Int /\ i \in Int /\ m < i /\ i <= n
        BY <1>2, <2>2
      <4>2. (m + 1) + (i - m) = i + 1 /\ m + (i - m) = i
        BY <4>1
      <4>3. i - m >= 1 /\ i - m <= n - m
        BY <4>1
      <4> QED  BY <4>1, <4>2, <4>3
    <3>2. b[(m + 1) + (i - m)] = v[i - m] /\ v[i - m] = a[m + (i - m)]
      BY <1>5, <1>9, <3>1
    <3> QED  BY <2>2, <3>1, <3>2
  <2> QED  BY <2>1, <2>2
<1>11. m + 1 \in 1..(m + 1) /\ (m + 1) + (n - m) = n + 1
  BY <1>2
<1>12. Len(b) = n + 1 /\ b[m + 1] = p
  BY <1>7, <1>9, <1>11
<1>13. GoesIn(b, a, p)
  BY <1>1, <1>2, <1>10, <1>12, Zenon DEF GoesIn
<1> QED  BY <1>9, <1>13

\* a has the first k points of s, in ascending order.
Ascends(a, s, k) ==
  /\ Len(a) = k
  /\ \A i \in 1..k : \E j \in 1..k : a[i] = s[j]
  /\ \A j \in 1..k : \E i \in 1..k : a[i] = s[j]
  /\ \A i, j \in 1..k : i <= j => a[i][1] <= a[j][1]

LEMMA GoesInAscends ==
  ASSUME NEW k \in Nat \ {0}, NEW s, \A i \in 1..k : s[i][1] \in Int,
         NEW a, Ascends(a, s, k - 1), NEW b, GoesIn(b, a, s[k])
  PROVE  Ascends(b, s, k)
<1>1. PICK m \in 0..(k-1) :
        /\ m > 0 => a[m][1] <= s[k][1]
        /\ \A i \in 1..(k-1) : i > m => s[k][1] < a[i][1]
        /\ Len(b) = k /\ b[m + 1] = s[k]
        /\ \A i \in 1..(k-1) : IF i <= m THEN b[i] = a[i] ELSE b[i + 1] = a[i]
  <2>1. PICK l : l = Len(a)
    OBVIOUS
  <2>2. l = k - 1
    BY <2>1 DEF Ascends
  <2>3. PICK m \in 0..l :
          /\ m > 0 => a[m][1] <= s[k][1]
          /\ \A i \in 1..l : i > m => s[k][1] < a[i][1]
          /\ Len(b) = l + 1 /\ b[m + 1] = s[k]
          /\ \A i \in 1..l : IF i <= m THEN b[i] = a[i] ELSE b[i + 1] = a[i]
    BY <2>1, Zenon DEF GoesIn
  <2> QED  BY <2>2, <2>3
<1>2. \A i \in 1..(k-1) : \E j \in 1..(k-1) : a[i] = s[j]
  BY DEF Ascends
<1>3. \A i \in 1..(k-1) : a[i][1] \in Int
  BY <1>2
<1>4. ASSUME NEW i \in 1..k
      PROVE  \/ i \in 1..(k-1) /\ i <= m /\ b[i] = a[i]
             \/ i = m + 1 /\ b[i] = s[k]
             \/ i - 1 \in 1..(k-1) /\ i - 1 > m /\ b[i] = a[i-1]
  <2>1. CASE i <= m
    BY <1>1, <2>1
  <2>2. CASE i > m + 1
    <3>1. i - 1 \in 1..(k-1) /\ ~(i - 1 <= m) /\ (i - 1) + 1 = i
      BY <2>2
    <3> QED  BY <1>1, <3>1
  <2> QED  BY <1>1, <2>1, <2>2
<1>5. \A i \in 1..k : \E j \in 1..k : b[i] = s[j]
  <2>1. \A j \in 1..(k-1) : j \in 1..k
    OBVIOUS
  <2>2. k \in 1..k
    OBVIOUS
  <2> QED  BY <1>2, <1>4, <2>1, <2>2
<1>6. ASSUME NEW j \in 1..k  PROVE \E i \in 1..k : b[i] = s[j]
  <2>1. CASE j = k
    BY <1>1, <2>1
  <2>2. CASE j # k
    <3>1. j \in 1..(k-1)
      BY <2>2
    <3>2. PICK i \in 1..(k-1) : a[i] = s[j]
      BY <3>1 DEF Ascends
    <3>3. i \in 1..k /\ i + 1 \in 1..k
      OBVIOUS
    <3> QED  BY <1>1, <3>2, <3>3
  <2> QED  BY <2>1, <2>2
<1>7. \A i, j \in 1..(k-1) : i <= j => a[i][1] <= a[j][1]
  BY DEF Ascends
<1>8. \A i \in 1..(k-1) : i <= m => a[i][1] <= s[k][1]
  <2>1. m > 0 => m \in 1..(k-1)
    OBVIOUS
  <2> QED  BY <1>1, <1>3, <1>7, <2>1
<1>9. ASSUME NEW i \in 1..k, NEW j \in 1..k, i <= j  PROVE b[i][1] <= b[j][1]
  <2>1. s[k][1] \in Int
    OBVIOUS
  <2>2. CASE i \in 1..(k-1) /\ i <= m /\ b[i] = a[i]
    <3>1. CASE j \in 1..(k-1) /\ b[j] = a[j]
      BY <1>7, <1>9, <2>2, <3>1
    <3>2. CASE b[j] = s[k]
      BY <1>8, <2>2, <3>2
    <3>3. CASE j - 1 \in 1..(k-1) /\ j - 1 > m /\ b[j] = a[j-1]
      <4>1. i <= j - 1
        BY <2>2, <3>3
      <4> QED  BY <1>7, <2>2, <3>3, <4>1
    <3> QED  BY <1>4, <3>1, <3>2, <3>3
  <2>3. CASE i = m + 1 /\ b[i] = s[k]
    <3>1. CASE b[j] = s[k]
      BY <2>1, <2>3, <3>1
    <3>2. CASE j - 1 \in 1..(k-1) /\ j - 1 > m /\ b[j] = a[j-1]
      <4>1. s[k][1] < a[j-1][1] /\ a[j-1][1] \in Int
        BY <1>1, <1>3, <3>2
      <4> QED  BY <2>1, <2>3, <3>2, <4>1
    <3>3. ~(j <= m)
      BY <1>9, <2>3
    <3> QED  BY <1>4, <3>1, <3>2, <3>3
  <2>4. CASE i - 1 \in 1..(k-1) /\ i - 1 > m /\ b[i] = a[i-1]
    <3>1. j - 1 \in 1..(k-1) /\ b[j] = a[j-1]
      BY <1>4, <1>9, <2>4
    <3>2. i - 1 <= j - 1
      BY <1>9
    <3> QED  BY <1>7, <2>4, <3>1, <3>2
  <2> QED  BY <1>4, <2>2, <2>3, <2>4
<1> QED  BY <1>1, <1>5, <1>6, <1>9 DEF Ascends

\* Put in one after the other, they are sorted.
LEMMA InsertionSorts ==
  ASSUME NEW n \in Nat, NEW s, \A i \in 1..n : s[i][1] \in Int,
         NEW h, Len(h[0]) = 0, \A i \in 1..n : GoesIn(h[i], h[i-1], s[i])
  PROVE  Ascends(h[n], s, n)
<1> DEFINE T == {k \in 0..n : Ascends(h[k], s, k)}
<1>1. Ascends(h[0], s, 0)
  BY DEF Ascends
<1>2. ASSUME NEW k \in 1..n, Ascends(h[k-1], s, k-1)  PROVE Ascends(h[k], s, k)
  <2>1. k \in Nat \ {0} /\ \A i \in 1..k : s[i][1] \in Int
    OBVIOUS
  <2>2. GoesIn(h[k], h[k-1], s[k])
    OBVIOUS
  <2> QED  BY <1>2, <2>1, <2>2, GoesInAscends
<1>3. 0 \in T /\ \A i \in 1..n : i - 1 \in T => i \in T
  BY <1>1, <1>2
<1>4. 0..n \subseteq T
  <2> HIDE DEF T
  <2> QED  BY <1>3, Climb
<1> QED  BY <1>4
=============================================================================
