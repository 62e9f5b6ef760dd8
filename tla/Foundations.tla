----------------------------- MODULE Foundations -----------------------------
(***************************************************************************)
(* What the library's theorem modules lack: induction over the natural      *)
(* numbers and definition by recursion, stated with sets and functions      *)
(* where the library's theorems have operators as parameters, and what      *)
(* taking one item out of a sequence leaves.                                *)
(***************************************************************************)
EXTENDS Integers, SequenceTheorems, WellFoundedInduction, TLAPS

NatLess == {ss \in Nat \X Nat : ss[1] < ss[2]}

\* A set of numbers with 0 and the successors of its members has them all.
LEMMA NatSetInduction ==
  ASSUME NEW S, 0 \in S, \A n \in Nat : n \in S => n + 1 \in S
  PROVE  Nat \subseteq S
<1> DEFINE T == Nat \ S
<1>1. SUFFICES ASSUME T # {} PROVE FALSE
  OBVIOUS
<1>2. IsWellFoundedOn(NatLess, Nat)
  BY NatLessThanWellFounded DEF OpToRel, NatLess
<1>3. PICK x \in T : \A y \in T : ~ (<<y, x>> \in NatLess)
  <2>1. T \subseteq Nat
    OBVIOUS
  <2> HIDE DEF T
  <2>2. QED
    BY <2>1, <1>1, <1>2, WFMin
<1>4. x # 0 /\ x - 1 \in Nat /\ x \in Nat
  OBVIOUS
<1>5. <<x - 1, x>> \in NatLess
  <2>1. <<x - 1, x>> \in Nat \X Nat
    BY <1>4
  <2>2. <<x - 1, x>>[1] < <<x - 1, x>>[2]
    BY <1>4
  <2>3. QED
    BY <2>1, <2>2 DEF NatLess
<1>6. x - 1 \in S
  BY <1>3, <1>4, <1>5
<1>7. x \in S
  BY <1>4, <1>6
<1>8. QED
  BY <1>7

\* The same from m to n.
LEMMA IntervalInduction ==
  ASSUME NEW m \in Int, NEW n \in Int, NEW S, m \in S,
         \A i \in m..(n - 1) : i \in S => i + 1 \in S
  PROVE  m..n \subseteq S
<1> DEFINE T == {k \in Nat : m + k <= n => m + k \in S}
<1>1. 0 \in T
  OBVIOUS
<1>2. \A k \in Nat : k \in T => k + 1 \in T
  <2> SUFFICES ASSUME NEW k \in Nat, k \in T, m + (k + 1) <= n
               PROVE  m + (k + 1) \in S
    OBVIOUS
  <2>1. m + k \in m..(n - 1) /\ m + k \in S
    OBVIOUS
  <2>2. (m + k) + 1 \in S /\ (m + k) + 1 = m + (k + 1)
    BY <2>1
  <2>3. QED
    BY <2>2
<1>3. Nat \subseteq T
  <2> HIDE DEF T
  <2>1. QED
    BY <1>1, <1>2, NatSetInduction
<1>4. ASSUME NEW i \in m..n PROVE i \in S
  <2>1. i - m \in Nat /\ m + (i - m) = i /\ i <= n
    OBVIOUS
  <2>2. QED
    BY <2>1, <1>3
<1>5. QED
  BY <1>4

\* f is what step makes of x, number by number.
Recurs(f, x, step) == f[0] = x /\ \A n \in Nat : f[n + 1] = step[n][f[n]]

\* There is such a function.
LEMMA Recursion ==
  ASSUME NEW X, NEW x \in X, NEW step \in [Nat -> [X -> X]]
  PROVE  \E f \in [Nat -> X] : Recurs(f, x, step)
<1> DEFINE Up(g, n) == /\ g \in [0..n -> X] /\ g[0] = x
                       /\ \A i \in 0..(n - 1) : g[i + 1] = step[i][g[i]]
           S == {n \in Nat : \E g \in [0..n -> X] : Up(g, n)}
<1>1. 0 \in S
  <2>1. Up([i \in 0..0 |-> x], 0)
    OBVIOUS
  <2>2. QED
    BY <2>1
<1>2. ASSUME NEW n \in Nat, n \in S PROVE n + 1 \in S
  <2>1. PICK g \in [0..n -> X] : Up(g, n)
    BY <1>2
  <2> DEFINE y == step[n][g[n]]
             k == [i \in 0..(n + 1) |-> IF i = n + 1 THEN y ELSE g[i]]
  <2>2. y \in X
    BY <2>1
  <2> HIDE DEF y
  <2>3. k \in [0..(n + 1) -> X] /\ k[0] = x
    BY <2>1, <2>2
  <2>4. ASSUME NEW i \in 0..((n + 1) - 1) PROVE k[i + 1] = step[i][k[i]]
    <3>1. CASE i = n
      <4>1. k[i + 1] = y /\ k[i] = g[n]
        BY <3>1
      <4>2. QED
        BY <4>1, <3>1 DEF y
    <3>2. CASE i # n
      <4>1. i \in 0..(n - 1) /\ k[i + 1] = g[i + 1] /\ k[i] = g[i]
        BY <3>2
      <4>2. QED
        BY <4>1, <2>1
    <3>3. QED
      BY <3>1, <3>2
  <2>5. Up(k, n + 1)
    BY <2>3, <2>4
  <2>6. \E h \in [0..(n + 1) -> X] : Up(h, n + 1)
    <3> HIDE DEF Up, k
    <3>1. QED
      BY <2>5, <2>3
  <2>7. QED
    <3> HIDE DEF Up, k
    <3>1. QED
      BY <2>6
<1>3. Nat \subseteq S
  <2> HIDE DEF S
  <2>1. QED
    BY <1>1, <1>2, NatSetInduction
<1>4. ASSUME NEW n \in Nat, NEW m \in Nat, NEW g, NEW k, Up(g, n), Up(k, m),
             NEW i \in Nat, i <= n, i <= m
      PROVE  g[i] = k[i]
  <2> DEFINE T == {j \in Nat : j <= n /\ j <= m => g[j] = k[j]}
  <2>1. 0 \in T
    BY <1>4
  <2>2. ASSUME NEW j \in Nat, j \in T PROVE j + 1 \in T
    <3> SUFFICES ASSUME j + 1 <= n, j + 1 <= m PROVE g[j + 1] = k[j + 1]
      OBVIOUS
    <3>1. j \in 0..(n - 1) /\ j \in 0..(m - 1) /\ g[j] = k[j]
      BY <2>2
    <3>2. QED
      BY <3>1, <1>4
  <2>3. Nat \subseteq T
    <3> HIDE DEF T
    <3>1. QED
      BY <2>1, <2>2, NatSetInduction
  <2>4. QED
    BY <2>3, <1>4
<1> DEFINE G(n) == CHOOSE g \in [0..n -> X] : Up(g, n)
           f == [n \in Nat |-> G(n)[n]]
<1>5. \A n \in Nat : Up(G(n), n)
  <2> SUFFICES ASSUME NEW n \in Nat PROVE Up(G(n), n)
    OBVIOUS
  <2>1. \E g \in [0..n -> X] : Up(g, n)
    BY <1>3
  <2> HIDE DEF Up
  <2>2. QED
    BY <2>1
<1> HIDE DEF G
<1>6. f \in [Nat -> X] /\ f[0] = x
  <2>1. \A n \in Nat : G(n)[n] \in X
    BY <1>5
  <2>2. G(0)[0] = x
    BY <1>5
  <2>3. QED
    BY <2>1, <2>2
<1>7. ASSUME NEW n \in Nat PROVE f[n + 1] = step[n][f[n]]
  <2>1. Up(G(n), n) /\ Up(G(n + 1), n + 1)
    BY <1>5
  <2>2. G(n + 1)[n] = G(n)[n]
    <3> HIDE DEF Up
    <3>1. QED
      BY <2>1, <1>4
  <2>3. G(n + 1)[n + 1] = step[n][G(n + 1)[n]]
    BY <2>1
  <2>4. QED
    BY <2>2, <2>3
<1>8. Recurs(f, x, step)
  BY <1>6, <1>7 DEF Recurs
<1>9. QED
  BY <1>6, <1>8
-----------------------------------------------------------------------------
\* The sequence t without its i-th item.
AllBut(t, i) == SubSeq(t, 1, i - 1) \o SubSeq(t, i + 1, Len(t))

\* It has the other items in their order.
LEMMA AllButFacts ==
  ASSUME NEW M, NEW box \in Seq(M), NEW i \in DOMAIN box
  PROVE  /\ AllBut(box, i) \in Seq(M)
         /\ DOMAIN box = 1..Len(box) /\ Len(box) \in Nat /\ i \in 1..Len(box)
         /\ DOMAIN AllBut(box, i) = 1..(Len(box) - 1)
         /\ Len(AllBut(box, i)) = Len(box) - 1
         /\ \A k \in 1..(Len(box) - 1) :
              AllBut(box, i)[k] = IF k < i THEN box[k] ELSE box[k + 1]
<1> DEFINE a == SubSeq(box, 1, i - 1)
           b == SubSeq(box, i + 1, Len(box))
<1>1. DOMAIN box = 1..Len(box) /\ Len(box) \in Nat /\ i \in 1..Len(box)
  BY LenProperties
<1>2. \A k \in 1..Len(box) : box[k] \in M
  BY <1>1, ElementOfSeq
<1>3. a \in Seq(M) /\ Len(a) = i - 1 /\ \A k \in 1..(i - 1) : a[k] = box[k]
  BY <1>1, <1>2, SubSeqProperties
<1>4. b \in Seq(M) /\ Len(b) = Len(box) - i
      /\ \A k \in 1..(Len(box) - i) : b[k] = box[i + k]
  <2>1. \A k \in (i + 1)..Len(box) : box[k] \in M
    BY <1>1, <1>2
  <2>2. QED
    BY <1>1, <2>1, SubSeqProperties
<1> HIDE DEF a, b
<1>5. /\ a \o b \in Seq(M)
      /\ Len(a \o b) = Len(box) - 1
      /\ \A k \in 1..(Len(box) - 1) :
           /\ k < i => (a \o b)[k] = a[k]
           /\ k >= i => (a \o b)[k] = b[k - (i - 1)]
  <2>1. /\ a \o b \in Seq(M)
        /\ Len(a \o b) = Len(a) + Len(b)
        /\ \A k \in 1..(Len(a) + Len(b)) :
             (a \o b)[k] = IF k <= Len(a) THEN a[k] ELSE b[k - Len(a)]
    BY <1>3, <1>4, ConcatProperties
  <2>2. Len(a) + Len(b) = Len(box) - 1
    BY <1>1, <1>3, <1>4
  <2>3. ASSUME NEW k \in 1..(Len(box) - 1)
        PROVE  /\ k < i => (a \o b)[k] = a[k]
               /\ k >= i => (a \o b)[k] = b[k - (i - 1)]
    <3>1. (a \o b)[k] = IF k <= i - 1 THEN a[k] ELSE b[k - (i - 1)]
      BY <2>1, <2>2, <1>3
    <3>2. (k < i <=> k <= i - 1) /\ (k >= i <=> ~(k <= i - 1))
      BY <1>1
    <3>3. QED
      BY <3>1, <3>2
  <2>4. QED
    BY <2>1, <2>2, <2>3
<1>6. \A k \in 1..(Len(box) - 1) : (a \o b)[k] = IF k < i THEN box[k] ELSE box[k + 1]
  <2> SUFFICES ASSUME NEW k \in 1..(Len(box) - 1)
               PROVE  (a \o b)[k] = IF k < i THEN box[k] ELSE box[k + 1]
    OBVIOUS
  <2>1. CASE k < i
    <3>1. k \in 1..(i - 1)
      BY <2>1, <1>1
    <3>2. (a \o b)[k] = box[k]
      BY <2>1, <3>1, <1>3, <1>5
    <3>3. QED
      BY <2>1, <3>2
  <2>2. CASE k >= i
    <3>1. k - (i - 1) \in 1..(Len(box) - i) /\ i + (k - (i - 1)) = k + 1
      BY <2>2, <1>1
    <3>2. (a \o b)[k] = box[k + 1]
      BY <2>2, <3>1, <1>4, <1>5
    <3>3. ~(k < i)
      BY <2>2, <1>1
    <3>4. QED
      BY <3>2, <3>3
  <2>3. k < i \/ k >= i
    BY <1>1
  <2>4. QED
    BY <2>1, <2>2, <2>3
<1>7. DOMAIN (a \o b) = 1..(Len(box) - 1)
  BY <1>5, LenProperties
<1>8. QED
  BY <1>1, <1>5, <1>6, <1>7 DEF AllBut, a, b
=============================================================================
