-------------------------- MODULE StructuresProofs ---------------------------
(***************************************************************************)
(* Theorems about the pointers of phase 1.  First listx.h: insertion and    *)
(* removal keep a list well linked in both directions and touch no other    *)
(* list, whatever its length, and a walk along the pointers gives the       *)
(* sequence.  Then pcb.c and msg.c, whose lists are the sequences of        *)
(* OrderedLists, for any size of the pools and any number of queues.        *)
(***************************************************************************)
EXTENDS MCStructures, Foundations, FiniteSetTheorems

Heap(N) == [next : [N -> N \cup {NULL}], prev : [N -> N \cup {NULL}]]

\* __list_add, store by store.
LEMMA AddedFields ==
  ASSUME NEW N, NEW h \in Heap(N),
         NEW new \in N, NEW p \in N, NEW n \in N, new # p, new # n
  PROVE  LET g == AddBetween(h, new, p, n)
         IN  /\ g \in Heap(N)
             /\ g.next[new] = n /\ g.next[p] = new
             /\ g.prev[new] = p /\ g.prev[n] = new
             /\ \A x \in N \ {new, p} : g.next[x] = h.next[x]
             /\ \A x \in N \ {new, n} : g.prev[x] = h.prev[x]
BY DEF AddBetween, Heap

\* g is h with p and n next to each other.
Bridges(g, h, N, p, n) ==
  /\ g \in Heap(N)
  /\ g.next[p] = n /\ g.prev[n] = p
  /\ \A x \in N \ {p} : g.next[x] = h.next[x]
  /\ \A x \in N \ {n} : g.prev[x] = h.prev[x]

\* __list_del, store by store.
LEMMA BypassBridges ==
  ASSUME NEW N, NEW h \in Heap(N), NEW p \in N, NEW n \in N
  PROVE  Bridges(Bypass(h, p, n), h, N, p, n)
BY DEF Bridges, Bypass, Heap

\* listx.h:97-109: an entry that is put between two neighbours of a well linked
\* list is in the list, and no other list is touched.
LEMMA AddBetweenLinked ==
  ASSUME NEW N, NEW h \in Heap(N),
         NEW M \in SUBSET N, Linked(h, M), NEW new \in N \ M,
         NEW p \in M, NEW n \in M, h.next[p] = n,
         NEW T \in SUBSET N, Linked(h, T), T \cap (M \cup {new}) = {}
  PROVE  LET g == AddBetween(h, new, p, n)
         IN  Linked(g, M \cup {new}) /\ Linked(g, T)
<1> DEFINE g == AddBetween(h, new, p, n)
<1>1. /\ g.next[new] = n /\ g.next[p] = new
      /\ g.prev[new] = p /\ g.prev[n] = new
      /\ \A x \in N \ {new, p} : g.next[x] = h.next[x]
      /\ \A x \in N \ {new, n} : g.prev[x] = h.prev[x]
  BY AddedFields
<1> HIDE DEF g
<1>2. Linked(g, M \cup {new})
  <2>1. ASSUME NEW x \in M \cup {new}
        PROVE  g.next[x] \in M \cup {new} /\ g.prev[g.next[x]] = x
    <3>1. CASE x = new
      BY <1>1, <3>1
    <3>2. CASE x = p
      BY <1>1, <3>2
    <3>3. CASE x \in M /\ x # p
      BY <1>1, <3>3 DEF Linked
    <3>4. QED
      BY <3>1, <3>2, <3>3
  <2>2. ASSUME NEW x \in M \cup {new}
        PROVE  g.prev[x] \in M \cup {new} /\ g.next[g.prev[x]] = x
    <3>1. CASE x = new
      BY <1>1, <3>1
    <3>2. CASE x = n
      BY <1>1, <3>2
    <3>3. CASE x \in M /\ x # n
      BY <1>1, <3>3 DEF Linked
    <3>4. QED
      BY <3>1, <3>2, <3>3
  <2>3. QED
    BY <2>1, <2>2 DEF Linked
<1>3. Linked(g, T)
  BY <1>1 DEF Linked
<1>4. QED
  BY <1>2, <1>3 DEF g

\* listx.h:119-133: list_add and list_add_tail.
THEOREM AddLinked ==
  ASSUME NEW N, NEW h \in Heap(N),
         NEW M \in SUBSET N, Linked(h, M), NEW head \in M, NEW new \in N \ M,
         NEW T \in SUBSET N, Linked(h, T), T \cap (M \cup {new}) = {}
  PROVE  /\ Linked(list_add(h, new, head), M \cup {new})
         /\ Linked(list_add(h, new, head), T)
         /\ Linked(list_add_tail(h, new, head), M \cup {new})
         /\ Linked(list_add_tail(h, new, head), T)
<1>1. h.next[head] \in M /\ h.prev[head] \in M /\ h.next[h.prev[head]] = head
  BY DEF Linked
<1>2. QED
  BY <1>1, AddBetweenLinked DEF list_add, list_add_tail

\* listx.h:155-157: a removed entry keeps its pointers, but nothing in its list
\* leads to it any more, and no other list is touched.
THEOREM DelLinked ==
  ASSUME NEW N, NEW h \in Heap(N),
         NEW M \in SUBSET N, Linked(h, M), NEW entry \in M,
         NEW T \in SUBSET N, Linked(h, T), T \cap M = {}
  PROVE  /\ Linked(list_del(h, entry), M \ {entry})
         /\ Linked(list_del(h, entry), T)
<1> DEFINE p == h.prev[entry]
           n == h.next[entry]
           g == Bypass(h, p, n)
<1>1. p \in M /\ n \in M /\ h.next[p] = entry /\ h.prev[n] = entry
  BY DEF Linked
<1>2. /\ g \in Heap(N)
      /\ g.next[p] = n /\ g.prev[n] = p
      /\ \A x \in N \ {p} : g.next[x] = h.next[x]
      /\ \A x \in N \ {n} : g.prev[x] = h.prev[x]
  <2>1. p \in N
    BY <1>1
  <2>2. n \in N
    BY <1>1
  <2> HIDE DEF p, n
  <2>3. Bridges(g, h, N, p, n)
    BY ONLY <2>1, <2>2, h \in Heap(N), BypassBridges
  <2>4. QED
    BY <2>3 DEF Bridges
<1>3. g = list_del(h, entry)
  BY DEF list_del
<1> HIDE DEF g
<1>4. Linked(g, M \ {entry})
  <2>1. ASSUME NEW x \in M \ {entry}
        PROVE  g.next[x] \in M \ {entry} /\ g.prev[g.next[x]] = x
    <3>1. CASE x = p
      <4>1. n # entry
        BY <1>1, <3>1 DEF Linked
      <4>2. QED
        BY <1>1, <1>2, <3>1, <4>1
    <3>2. CASE x # p
      BY <1>1, <1>2, <3>2 DEF Linked
    <3>3. QED
      BY <3>1, <3>2
  <2>2. ASSUME NEW x \in M \ {entry}
        PROVE  g.prev[x] \in M \ {entry} /\ g.next[g.prev[x]] = x
    <3>1. CASE x = n
      <4>1. p # entry
        BY <1>1, <3>1 DEF Linked
      <4>2. QED
        BY <1>1, <1>2, <3>1, <4>1
    <3>2. CASE x # n
      BY <1>1, <1>2, <3>2 DEF Linked
    <3>3. QED
      BY <3>1, <3>2
  <2>3. QED
    BY <2>1, <2>2 DEF Linked
<1>5. Linked(g, T)
  BY <1>1, <1>2 DEF Linked
<1>6. QED
  BY <1>3, <1>4, <1>5

\* pcb.c:128-130: removeChild moves p_child.next on before list_del, which would
\* have done it.
THEOREM MoveIsRedundant ==
  ASSUME NEW N, NEW h \in Heap(N),
         NEW M \in SUBSET N, Linked(h, M), NEW head \in M, h.next[head] # head
  PROVE  LET c == h.next[head]
         IN  list_del([h EXCEPT !.next[head] = h.next[c]], c) = list_del(h, c)
<1> DEFINE c == h.next[head]
           moved == [h EXCEPT !.next[head] = h.next[c]]
<1>1. c \in M /\ h.prev[c] = head /\ h.next[c] \in M
  BY DEF Linked
<1>2. /\ moved = [next |-> [h.next EXCEPT ![head] = h.next[c]], prev |-> h.prev]
      /\ moved.next[c] = h.next[c] /\ moved.prev[c] = head
  BY <1>1 DEF Heap
<1> HIDE DEF c, moved
<1>3. list_del(moved, c) = Bypass(moved, head, h.next[c])
  BY <1>2 DEF list_del
<1>4. list_del(h, c) = Bypass(h, head, h.next[c])
  BY <1>1 DEF list_del
<1>5. Bypass(moved, head, h.next[c]) = Bypass(h, head, h.next[c])
  BY <1>1, <1>2 DEF Bypass, Heap
<1>6. QED
  BY <1>3, <1>4, <1>5 DEF c, moved

\* pcb.c:145-148: after list_del no head leads to the removed entry, so that the
\* comparison of outChild fails and its assignment is never made.
THEOREM PatchNeverApplies ==
  ASSUME NEW N, NEW h \in Heap(N),
         NEW M \in SUBSET N, Linked(h, M), NEW head \in M, NEW entry \in M,
         entry # head
  PROVE  list_del(h, entry).next[head] # entry
<1>1. Linked(h, {})
  BY DEF Linked
<1>2. Linked(list_del(h, entry), M \ {entry})
  BY <1>1, DelLinked
<1>3. QED
  BY <1>2 DEF Linked
-----------------------------------------------------------------------------
\* The node a walk stands at after i steps along the list s of head, which is
\* at both ends of it.
Stop(head, s, i) == IF i \in 1..Len(s) THEN s[i] ELSE head

\* The pointers of h lead along s from head to head, and back.
Threads(h, head, s) ==
  \A i \in 0..Len(s) : /\ h.next[Stop(head, s, i)] = Stop(head, s, i + 1)
                       /\ h.prev[Stop(head, s, i + 1)] = Stop(head, s, i)

\* The sequences with an item more, or less.
With(s, k, x) == [i \in 1..(Len(s) + 1) |-> IF i <= k THEN s[i]
                                            ELSE IF i = k + 1 THEN x ELSE s[i - 1]]
Without(s, k) == [i \in 1..(Len(s) - 1) |-> IF i < k THEN s[i] ELSE s[i + 1]]

Distinct(s) == \A i, j \in 1..Len(s) : s[i] = s[j] => i = j

\* What With returns.
LEMMA WithItems ==
  ASSUME NEW M, NEW s \in Seq(M), NEW k \in 0..Len(s), NEW x \in M
  PROVE  /\ With(s, k, x) \in Seq(M) /\ Len(With(s, k, x)) = Len(s) + 1
         /\ \A i \in 1..(Len(s) + 1) :
              With(s, k, x)[i] = IF i <= k THEN s[i]
                                 ELSE IF i = k + 1 THEN x ELSE s[i - 1]
<1>1. Len(s) \in Nat /\ \A i \in 1..Len(s) : s[i] \in M
  BY ElementOfSeq, LenProperties
<1>2. With(s, k, x) \in [1..(Len(s) + 1) -> M]
  BY <1>1 DEF With
<1>3. Len(s) + 1 \in Nat
  BY <1>1
<1>4. With(s, k, x) \in Seq(M)
  BY <1>2, <1>3, SeqDef
<1>5. Len(With(s, k, x)) = Len(s) + 1
  BY <1>2, <1>3, <1>4, LenProperties
<1>6. QED
  BY <1>4, <1>5 DEF With

\* What Without returns.
LEMMA WithoutItems ==
  ASSUME NEW M, NEW s \in Seq(M), NEW k \in 1..Len(s)
  PROVE  /\ Without(s, k) \in Seq(M) /\ Len(Without(s, k)) = Len(s) - 1
         /\ \A i \in 1..(Len(s) - 1) :
              Without(s, k)[i] = IF i < k THEN s[i] ELSE s[i + 1]
<1>1. Len(s) \in Nat /\ \A i \in 1..Len(s) : s[i] \in M
  BY ElementOfSeq, LenProperties
<1>2. Without(s, k) \in [1..(Len(s) - 1) -> M]
  BY <1>1 DEF Without
<1>3. Len(s) - 1 \in Nat
  BY <1>1
<1>4. Without(s, k) \in Seq(M)
  BY <1>2, <1>3, SeqDef
<1>5. Len(Without(s, k)) = Len(s) - 1
  BY <1>2, <1>3, <1>4, LenProperties
<1>6. QED
  BY <1>4, <1>5 DEF Without

\* An item at the end.
LEMMA WithLast ==
  ASSUME NEW M, NEW s \in Seq(M), NEW x \in M
  PROVE  With(s, Len(s), x) = Append(s, x)
<1> DEFINE k == Len(s)
<1>1. Len(s) \in Nat /\ k = Len(s)
  BY LenProperties
<1>0. k \in 0..Len(s)
  BY <1>1
<1> HIDE DEF k
<1>2. /\ With(s, k, x) \in Seq(M) /\ Len(With(s, k, x)) = Len(s) + 1
      /\ \A i \in 1..(Len(s) + 1) :
           With(s, k, x)[i] = IF i <= k THEN s[i]
                              ELSE IF i = k + 1 THEN x ELSE s[i - 1]
  BY <1>0, WithItems
<1>3. /\ Append(s, x) \in Seq(M) /\ Len(Append(s, x)) = Len(s) + 1
      /\ \A i \in 1..Len(s) : Append(s, x)[i] = s[i]
      /\ Append(s, x)[Len(s) + 1] = x
  BY AppendProperties
<1>4. ASSUME NEW i \in 1..(Len(s) + 1) PROVE With(s, k, x)[i] = Append(s, x)[i]
  <2>1. CASE i = Len(s) + 1
    <3>1. ~(i <= Len(s)) /\ With(s, k, x)[i] = x
      BY <1>1, <1>2, <2>1
    <3>2. QED
      BY <1>3, <2>1, <3>1
  <2>2. CASE i # Len(s) + 1
    <3>1. i \in 1..Len(s) /\ With(s, k, x)[i] = s[i]
      BY <1>1, <1>2, <2>2
    <3>2. QED
      BY <1>3, <3>1
  <2>3. QED
    BY <2>1, <2>2
<1>5. QED
  BY <1>1, <1>2, <1>3, <1>4, SeqEqual DEF k

\* An item at the beginning.
LEMMA WithFirst ==
  ASSUME NEW M, NEW s \in Seq(M), NEW x \in M
  PROVE  With(s, 0, x) = <<x>> \o s
<1>1. Len(s) \in Nat
  BY LenProperties
<1>2. /\ With(s, 0, x) \in Seq(M) /\ Len(With(s, 0, x)) = Len(s) + 1
      /\ \A i \in 1..(Len(s) + 1) :
           With(s, 0, x)[i] = IF i <= 0 THEN s[i]
                              ELSE IF i = 0 + 1 THEN x ELSE s[i - 1]
  <2>1. 0 \in 0..Len(s)
    BY <1>1
  <2>2. \A k \in 0..Len(s) :
          /\ With(s, k, x) \in Seq(M) /\ Len(With(s, k, x)) = Len(s) + 1
          /\ \A i \in 1..(Len(s) + 1) :
               With(s, k, x)[i] = IF i <= k THEN s[i]
                                  ELSE IF i = k + 1 THEN x ELSE s[i - 1]
    BY ONLY WithItems, s \in Seq(M), x \in M
  <2>3. QED
    BY <2>1, <2>2
<1>3. /\ <<x>> \o s \in Seq(M) /\ Len(<<x>> \o s) = Len(s) + 1
      /\ \A i \in 1..(Len(s) + 1) : (<<x>> \o s)[i] = IF i <= 1 THEN x ELSE s[i - 1]
  <2>1. <<x>> \in Seq(M) /\ Len(<<x>>) = 1 /\ <<x>>[1] = x
    OBVIOUS
  <2>2. /\ <<x>> \o s \in Seq(M) /\ Len(<<x>> \o s) = 1 + Len(s)
        /\ \A i \in 1..(1 + Len(s)) : (<<x>> \o s)[i] = IF i <= 1 THEN <<x>>[i] ELSE s[i - 1]
    BY <2>1, ConcatProperties
  <2>3. QED
    BY <1>1, <2>1, <2>2
<1>4. \A i \in 1..(Len(s) + 1) : With(s, 0, x)[i] = (<<x>> \o s)[i]
  BY <1>1, <1>2, <1>3
<1>5. QED
  BY <1>2, <1>3, <1>4, SeqEqual

\* The items before the one that is taken out, and those after it.
LEMMA WithoutIsSplit ==
  ASSUME NEW M, NEW s \in Seq(M), NEW k \in 1..Len(s)
  PROVE  Without(s, k) = SubSeq(s, 1, k - 1) \o SubSeq(s, k + 1, Len(s))
<1> DEFINE a == SubSeq(s, 1, k - 1)
           b == SubSeq(s, k + 1, Len(s))
<1>1. Len(s) \in Nat /\ \A i \in 1..Len(s) : s[i] \in M
  BY ElementOfSeq, LenProperties
<1>2. /\ a \in Seq(M) /\ Len(a) = k - 1
      /\ \A i \in 1..(k - 1) : a[i] = s[i]
  <2>1. 1 \in Int /\ k - 1 \in Int /\ \A i \in 1..(k - 1) : s[i] \in M
    BY <1>1
  <2>2. /\ a \in Seq(M) /\ Len(a) = IF 1 <= k - 1 THEN (k - 1) - 1 + 1 ELSE 0
        /\ \A i \in 1..((k - 1) - 1 + 1) : a[i] = s[1 + i - 1]
    BY <2>1, SubSeqProperties
  <2> HIDE DEF a
  <2>3. QED
    BY <1>1, <2>2
<1>3. /\ b \in Seq(M) /\ Len(b) = Len(s) - k
      /\ \A i \in 1..(Len(s) - k) : b[i] = s[k + i]
  <2>1. k + 1 \in Int /\ Len(s) \in Int /\ \A i \in (k + 1)..Len(s) : s[i] \in M
    BY <1>1
  <2>2. /\ b \in Seq(M) /\ Len(b) = IF k + 1 <= Len(s) THEN Len(s) - (k + 1) + 1 ELSE 0
        /\ \A i \in 1..(Len(s) - (k + 1) + 1) : b[i] = s[(k + 1) + i - 1]
    BY <2>1, SubSeqProperties
  <2> HIDE DEF b
  <2>3. QED
    BY <1>1, <2>2
<1> HIDE DEF a, b
<1>4. /\ a \o b \in Seq(M) /\ Len(a \o b) = Len(a) + Len(b)
      /\ \A i \in 1..(Len(a) + Len(b)) :
           (a \o b)[i] = IF i <= Len(a) THEN a[i] ELSE b[i - Len(a)]
  BY <1>2, <1>3, ConcatProperties
<1>5. /\ Without(s, k) \in Seq(M) /\ Len(Without(s, k)) = Len(s) - 1
      /\ \A i \in 1..(Len(s) - 1) :
           Without(s, k)[i] = IF i < k THEN s[i] ELSE s[i + 1]
  BY WithoutItems
<1>6. Len(a \o b) = Len(s) - 1
  BY <1>1, <1>2, <1>3, <1>4
<1>7. ASSUME NEW i \in 1..(Len(s) - 1) PROVE Without(s, k)[i] = (a \o b)[i]
  <2>1. i \in 1..(Len(a) + Len(b))
    BY <1>1, <1>2, <1>3
  <2>2. CASE i < k
    BY <1>1, <1>2, <1>4, <1>5, <2>1, <2>2
  <2>3. CASE ~(i < k)
    <3>1. i - Len(a) \in 1..(Len(s) - k) /\ k + (i - Len(a)) = i + 1 /\ ~(i <= Len(a))
      BY <1>1, <1>2, <2>3
    <3>2. b[i - Len(a)] = s[i + 1]
      BY <3>1, <1>3
    <3>3. QED
      BY <1>4, <1>5, <2>1, <2>3, <3>1, <3>2
  <2>4. QED
    BY <2>2, <2>3
<1>8. QED
  BY <1>4, <1>5, <1>6, <1>7, SeqEqual DEF a, b
\* Walks depend on the pointers of the nodes they meet only.
LEMMA ThreadsFrame ==
  ASSUME NEW N, NEW h, NEW g, NEW head \in N, NEW s \in Seq(N), Threads(h, head, s),
         g.next[head] = h.next[head], g.prev[head] = h.prev[head],
         \A i \in 1..Len(s) : g.next[s[i]] = h.next[s[i]] /\ g.prev[s[i]] = h.prev[s[i]]
  PROVE  Threads(g, head, s)
<1>1. \A i \in Int : /\ g.next[Stop(head, s, i)] = h.next[Stop(head, s, i)]
                     /\ g.prev[Stop(head, s, i)] = h.prev[Stop(head, s, i)]
  BY DEF Stop
<1>2. \A i \in 0..Len(s) : i \in Int /\ i + 1 \in Int
  BY LenProperties
<1>3. QED
  BY <1>1, <1>2 DEF Threads

\* listx.h:97-109: an item between two neighbours of the list.
LEMMA ThreadsWith ==
  ASSUME NEW N, NEW h \in Heap(N), NEW head \in N, NEW s \in Seq(N \ {head}),
         Threads(h, head, s), Distinct(s), NEW k \in 0..Len(s),
         NEW x \in N, x # head, \A i \in 1..Len(s) : s[i] # x
  PROVE  LET g == AddBetween(h, x, Stop(head, s, k), Stop(head, s, k + 1))
         IN  Threads(g, head, With(s, k, x))
<1> DEFINE p == Stop(head, s, k)
           n == Stop(head, s, k + 1)
           g == AddBetween(h, x, p, n)
           t == With(s, k, x)
<1>1. Len(s) \in Nat /\ \A i \in 1..Len(s) : s[i] \in N /\ s[i] # head
  BY ElementOfSeq, LenProperties
<1>2. p \in N /\ n \in N /\ x # p /\ x # n
  BY <1>1 DEF Stop
<1>3. /\ g.next[x] = n /\ g.next[p] = x /\ g.prev[x] = p /\ g.prev[n] = x
      /\ \A y \in N \ {x, p} : g.next[y] = h.next[y]
      /\ \A y \in N \ {x, n} : g.prev[y] = h.prev[y]
  <2> HIDE DEF p, n
  <2>1. QED
    BY <1>2, AddedFields
<1>4. /\ Len(t) = Len(s) + 1
      /\ \A i \in 1..(Len(s) + 1) :
           t[i] = IF i <= k THEN s[i] ELSE IF i = k + 1 THEN x ELSE s[i - 1]
  <2>1. s \in Seq(N)
    BY SeqMonotonic
  <2>2. QED
    BY <2>1, WithItems
<1> HIDE DEF g, t
<1>5. /\ \A i \in 0..k : Stop(head, t, i) = Stop(head, s, i)
      /\ Stop(head, t, k + 1) = x
      /\ \A i \in (k + 2)..(Len(s) + 2) : Stop(head, t, i) = Stop(head, s, i - 1)
  BY <1>1, <1>4 DEF Stop
<1>6. ASSUME NEW i \in 0..Len(s), i # k
      PROVE  Stop(head, s, i) # p /\ Stop(head, s, i + 1) # n
  BY <1>1, <1>6 DEF Stop, Distinct
<1>7. \A i \in 0..(Len(s) + 1) : Stop(head, s, i) \in N \ {x}
  BY <1>1 DEF Stop
<1> HIDE DEF p, n
<1>8. ASSUME NEW i \in 0..Len(s), i # k
      PROVE  /\ g.next[Stop(head, s, i)] = Stop(head, s, i + 1)
             /\ g.prev[Stop(head, s, i + 1)] = Stop(head, s, i)
  <2>1. Stop(head, s, i) \in N \ {x, p} /\ Stop(head, s, i + 1) \in N \ {x, n}
    BY <1>1, <1>6, <1>7, <1>8
  <2>2. /\ h.next[Stop(head, s, i)] = Stop(head, s, i + 1)
        /\ h.prev[Stop(head, s, i + 1)] = Stop(head, s, i)
    BY DEF Threads
  <2>3. QED
    BY <1>3, <2>1, <2>2
<1>9. ASSUME NEW i \in 0..Len(t)
      PROVE  /\ g.next[Stop(head, t, i)] = Stop(head, t, i + 1)
             /\ g.prev[Stop(head, t, i + 1)] = Stop(head, t, i)
  <2>1. CASE i < k
    <3>1. /\ i \in 0..Len(s) /\ i # k
          /\ Stop(head, t, i) = Stop(head, s, i)
          /\ Stop(head, t, i + 1) = Stop(head, s, i + 1)
      BY <1>1, <1>5, <2>1
    <3>2. QED
      BY <1>8, <3>1
  <2>2. CASE i = k
    <3>1. Stop(head, t, i) = p /\ Stop(head, t, i + 1) = x
      BY <1>1, <1>5, <2>2 DEF p
    <3>2. QED
      BY <1>3, <3>1
  <2>3. CASE i = k + 1
    <3>1. Stop(head, t, i) = x
      BY <1>5, <2>3
    <3>2. Stop(head, t, i + 1) = n
      <4>1. k + 2 \in (k + 2)..(Len(s) + 2) /\ (k + 2) - 1 = k + 1 /\ i + 1 = k + 2
        BY <1>1, <2>3
      <4>2. QED
        BY <1>5, <4>1 DEF n
    <3>3. QED
      BY <1>3, <3>1, <3>2
  <2>4. CASE i > k + 1
    <3>1. /\ i - 1 \in 0..Len(s) /\ i - 1 # k /\ (i - 1) + 1 = i /\ (i + 1) - 1 = i
          /\ i \in (k + 2)..(Len(s) + 2) /\ i + 1 \in (k + 2)..(Len(s) + 2)
      BY <1>1, <1>4, <2>4
    <3>2. /\ Stop(head, t, i) = Stop(head, s, i - 1)
          /\ Stop(head, t, i + 1) = Stop(head, s, i)
      BY <1>5, <3>1
    <3>3. QED
      BY <1>8, <3>1, <3>2
  <2>5. QED
    BY <1>1, <1>4, <2>1, <2>2, <2>3, <2>4
<1>10. QED
  BY <1>9 DEF Threads, g, t, p, n

\* listx.h:145-157: list_del of an item of the list.
LEMMA ThreadsWithout ==
  ASSUME NEW N, NEW h \in Heap(N), NEW head \in N, NEW s \in Seq(N \ {head}),
         Threads(h, head, s), Distinct(s), NEW k \in 1..Len(s)
  PROVE  Threads(list_del(h, s[k]), head, Without(s, k))
<1> DEFINE p == Stop(head, s, k - 1)
           n == Stop(head, s, k + 1)
           g == Bypass(h, p, n)
           t == Without(s, k)
<1>1. Len(s) \in Nat /\ \A i \in 1..Len(s) : s[i] \in N /\ s[i] # head
  BY ElementOfSeq, LenProperties
<1>2. p \in N /\ n \in N
  BY <1>1 DEF Stop
<1>3. list_del(h, s[k]) = g
  <2>1. k - 1 \in 0..Len(s) /\ k \in 0..Len(s) /\ (k - 1) + 1 = k
    BY <1>1
  <2>2. Stop(head, s, k) = s[k]
    BY DEF Stop
  <2>3. h.prev[s[k]] = p /\ h.next[s[k]] = n
    BY <2>1, <2>2 DEF Threads
  <2>4. QED
    BY <2>3 DEF list_del
<1>4. /\ g.next[p] = n /\ g.prev[n] = p
      /\ \A y \in N \ {p} : g.next[y] = h.next[y]
      /\ \A y \in N \ {n} : g.prev[y] = h.prev[y]
  <2>1. p \in N /\ n \in N
    BY <1>2
  <2> HIDE DEF p, n
  <2>2. QED
    BY <2>1 DEF g, Bypass, Heap
<1>5. /\ Len(t) = Len(s) - 1
      /\ \A i \in 1..(Len(s) - 1) : t[i] = IF i < k THEN s[i] ELSE s[i + 1]
  <2>1. s \in Seq(N)
    BY SeqMonotonic
  <2>2. QED
    BY <2>1, WithoutItems
<1> HIDE DEF g, t
<1>6. /\ \A i \in 0..(k - 1) : Stop(head, t, i) = Stop(head, s, i)
      /\ \A i \in k..Len(s) : Stop(head, t, i) = Stop(head, s, i + 1)
  BY <1>1, <1>5 DEF Stop
<1>7. ASSUME NEW i \in 0..Len(s), i # k - 1, i # k
      PROVE  Stop(head, s, i) # p /\ Stop(head, s, i + 1) # n
  <2>1. Stop(head, s, i) # p
    BY <1>1, <1>7 DEF Stop, Distinct
  <2>2. Stop(head, s, i + 1) # n
    BY <1>1, <1>7 DEF Stop, Distinct
  <2>3. QED
    BY <2>1, <2>2
<1>8. \A i \in 0..(Len(s) + 1) : Stop(head, s, i) \in N
  BY <1>1 DEF Stop
<1> HIDE DEF p, n
<1>9. ASSUME NEW i \in 0..Len(s), i # k - 1, i # k
      PROVE  /\ g.next[Stop(head, s, i)] = Stop(head, s, i + 1)
             /\ g.prev[Stop(head, s, i + 1)] = Stop(head, s, i)
  <2>1. Stop(head, s, i) \in N \ {p} /\ Stop(head, s, i + 1) \in N \ {n}
    BY <1>1, <1>7, <1>8, <1>9
  <2>2. /\ h.next[Stop(head, s, i)] = Stop(head, s, i + 1)
        /\ h.prev[Stop(head, s, i + 1)] = Stop(head, s, i)
    BY DEF Threads
  <2>3. QED
    BY <1>4, <2>1, <2>2
<1>10. ASSUME NEW i \in 0..Len(t)
       PROVE  /\ g.next[Stop(head, t, i)] = Stop(head, t, i + 1)
              /\ g.prev[Stop(head, t, i + 1)] = Stop(head, t, i)
  <2>1. CASE i < k - 1
    <3>1. /\ i \in 0..Len(s) /\ i # k - 1 /\ i # k
          /\ i \in 0..(k - 1) /\ i + 1 \in 0..(k - 1)
      BY <1>1, <1>5, <2>1
    <3>2. QED
      BY <1>6, <1>9, <3>1
  <2>2. CASE i = k - 1
    <3>1. i \in 0..(k - 1) /\ i + 1 \in k..Len(s) /\ (i + 1) + 1 = k + 1
      BY <1>1, <1>5, <2>2
    <3>2. Stop(head, t, i) = p /\ Stop(head, t, i + 1) = n
      BY <1>6, <2>2, <3>1 DEF p, n
    <3>3. QED
      BY <1>4, <3>2
  <2>3. CASE i > k - 1
    <3>1. /\ i + 1 \in 0..Len(s) /\ i + 1 # k - 1 /\ i + 1 # k
          /\ i \in k..Len(s) /\ i + 1 \in k..Len(s)
      BY <1>1, <1>5, <2>3
    <3>2. QED
      BY <1>6, <1>9, <3>1
  <2>4. QED
    BY <1>1, <1>5, <2>1, <2>2, <2>3
<1>11. QED
  BY <1>3, <1>10 DEF Threads, g, t
-----------------------------------------------------------------------------
\* A distinct sequence is no longer than the set of its items is large.
LEMMA DistinctBound ==
  ASSUME NEW N, IsFiniteSet(N), NEW s \in Seq(N), Distinct(s)
  PROVE  Cardinality(N) \in Nat /\ Len(s) <= Cardinality(N)
<1> DEFINE L == Len(s)
<1>1. L \in Nat /\ s \in [1..L -> N]
  BY LenProperties
<1>2. IsFiniteSet(1..L) /\ Cardinality(1..L) = L
  <2>1. 1 \in Int /\ L \in Int
    BY <1>1
  <2>2. IsFiniteSet(1..L) /\ Cardinality(1..L) = IF 1 > L THEN 0 ELSE L - 1 + 1
    BY <2>1, FS_Interval
  <2>3. QED
    BY <1>1, <2>2
<1>3. Cardinality(N) \in Nat
  BY FS_CardinalityType
<1>4. SUFFICES ASSUME Cardinality(N) < L PROVE FALSE
  BY <1>1, <1>3
<1>5. \E x, y \in 1..L : x # y /\ s[x] = s[y]
  <2>1. Cardinality(N) < Cardinality(1..L)
    BY <1>2, <1>4
  <2> HIDE DEF L
  <2>2. QED
    BY <1>1, <1>2, <2>1, FS_PigeonHole
<1>6. QED
  BY <1>5 DEF Distinct

\* from[steps][n] is what a walk of so many steps that begins at n meets before
\* it comes to head.
Walks(from, h, N, head) ==
  /\ \A steps \in Nat, n \in N \cup {NULL} :
       n \in {head, NULL} \/ steps = 0 => from[steps][n] = <<>>
  /\ \A steps \in Nat, n \in N \ {head} :
       from[steps + 1][n] = <<n>> \o from[steps][h.next[n]]
  /\ Entries(h, head) = from[Cardinality(N)][h.next[head]]

\* Entries, in the terms of its recursion.
LEMMA EntriesWalk ==
  ASSUME NEW N, NULL \notin N, NEW h \in Heap(N), NEW head \in N
  PROVE  \E from \in [Nat -> [N \cup {NULL} -> Seq(N)]] : Walks(from, h, N, head)
<1> DEFINE M == N \cup {NULL}
           X == [M -> Seq(N)]
           x == [n \in M |-> <<>>]
           up(y) == [n \in M |-> IF n \in {head, NULL} THEN <<>>
                                 ELSE <<n>> \o y[h.next[n]]]
           step == [i \in Nat |-> [y \in X |-> up(y)]]
           body(g) == [steps \in Nat |->
                         [n \in M |-> IF n \in {head, NULL} \/ steps = 0 THEN <<>>
                                      ELSE <<n>> \o g[steps - 1][h.next[n]]]]
           f == CHOOSE g : g = body(g)
<1>1. DOMAIN h.next = N /\ \A n \in N : h.next[n] \in M
  BY DEF Heap
<1>2. x \in X
  BY EmptySeq
<1>3. \A y \in X : up(y) \in X
  <2> SUFFICES ASSUME NEW y \in X, NEW n \in M, n \notin {head, NULL}
               PROVE  <<n>> \o y[h.next[n]] \in Seq(N)
    BY EmptySeq
  <2>1. <<n>> \in Seq(N) /\ y[h.next[n]] \in Seq(N)
    BY <1>1
  <2>2. QED
    BY <2>1, ConcatProperties
<1>4. step \in [Nat -> [X -> X]]
  <2> HIDE DEF up, X
  <2>1. QED
    BY <1>3
<1>5. PICK F \in [Nat -> X] : Recurs(F, x, step)
  <2> HIDE DEF step, X, x
  <2>1. QED
    BY ONLY <1>2, <1>4, Recursion
<1>6. F[0] = x /\ \A i \in Nat : F[i + 1] = up(F[i])
  <2>1. \A i \in Nat : F[i] \in X /\ F[i + 1] = step[i][F[i]]
    <3> HIDE DEF X, step
    <3>1. QED
      BY <1>5 DEF Recurs
  <2>2. \A i \in Nat : step[i][F[i]] = up(F[i])
    <3> HIDE DEF X, up
    <3>1. QED
      BY <2>1
  <2>3. QED
    BY <1>5, <2>1, <2>2 DEF Recurs
<1>7. F = body(F)
  <2>1. ASSUME NEW steps \in Nat PROVE F[steps] = body(F)[steps]
    <3>1. CASE steps = 0
      BY <3>1, <1>6
    <3>2. CASE steps # 0
      <4>1. steps - 1 \in Nat /\ (steps - 1) + 1 = steps
        BY <3>2
      <4>2. F[steps] = up(F[steps - 1])
        BY <4>1, <1>6
      <4>3. QED
        BY <4>2, <3>2
    <3>3. QED
      BY <3>1, <3>2
  <2> HIDE DEF X
  <2>2. F = [steps \in Nat |-> F[steps]] /\ body(F) = [steps \in Nat |-> body(F)[steps]]
    OBVIOUS
  <2> HIDE DEF body
  <2>3. QED
    BY <2>1, <2>2
<1>8. f = body(f)
  <2> HIDE DEF body
  <2>1. QED
    BY <1>7
<1>9. Entries(h, head) = f[Cardinality(N)][h.next[head]]
  BY <1>1 DEF Entries
<1> HIDE DEF f
<1>10. \A steps \in Nat : f[steps] = body(f)[steps] /\ DOMAIN f[steps] = M
  BY <1>8
<1>11. ASSUME NEW steps \in Nat, NEW n \in M
       PROVE  f[steps][n] = IF n \in {head, NULL} \/ steps = 0 THEN <<>>
                            ELSE <<n>> \o f[steps - 1][h.next[n]]
  <2>1. body(f)[steps] = [j \in M |-> IF j \in {head, NULL} \/ steps = 0 THEN <<>>
                                      ELSE <<j>> \o f[steps - 1][h.next[j]]]
    OBVIOUS
  <2>2. f[steps] = [j \in M |-> IF j \in {head, NULL} \/ steps = 0 THEN <<>>
                                ELSE <<j>> \o f[steps - 1][h.next[j]]]
    <3> HIDE DEF body, M
    <3>1. QED
      BY <1>10, <2>1
  <2>3. QED
    BY <2>2
<1>12. ASSUME NEW steps \in Nat, NEW n \in N \ {head}
       PROVE  f[steps + 1][n] = <<n>> \o f[steps][h.next[n]]
  <2>1. steps + 1 \in Nat /\ steps + 1 # 0 /\ (steps + 1) - 1 = steps
        /\ n \in M /\ n \notin {head, NULL}
    OBVIOUS
  <2>2. f[steps + 1][n] = <<n>> \o f[(steps + 1) - 1][h.next[n]]
    BY <2>1, <1>11
  <2>3. QED
    BY <2>1, <2>2
<1>13. \A steps \in Nat : f[steps] \in X
  <2> DEFINE T == {k \in Nat : f[k] \in X}
  <2>1. 0 \in T
    <3>1. f[0] = x
      BY <1>10
    <3> HIDE DEF x, X
    <3>2. QED
      BY <3>1, <1>2
  <2>2. ASSUME NEW k \in Nat, k \in T PROVE k + 1 \in T
    <3>1. f[k + 1] = up(f[k])
      <4>1. k + 1 \in Nat /\ k + 1 # 0 /\ (k + 1) - 1 = k
        OBVIOUS
      <4>2. f[k + 1] = body(f)[k + 1]
        BY <4>1, <1>10
      <4>3. body(f)[k + 1] = up(f[k])
        BY <4>1
      <4>4. QED
        BY <4>2, <4>3
    <3> HIDE DEF up, X
    <3>2. QED
      BY <2>2, <3>1, <1>3
  <2>3. Nat \subseteq T
    <3> HIDE DEF T
    <3>1. QED
      BY <2>1, <2>2, NatSetInduction
  <2>4. QED
    BY <2>3
<1>14. f \in [Nat -> X]
  <2>1. f = [steps \in Nat |-> f[steps]]
    BY <1>8
  <2> HIDE DEF X
  <2>2. QED
    BY <2>1, <1>13
<1>15. Walks(f, h, N, head)
  BY <1>9, <1>11, <1>12 DEF Walks
<1>16. QED
  BY <1>14, <1>15

\* listx.h, list_for_each: walking a threaded list meets its items in order, and
\* the bound on the steps of Entries does not cut it short.
LEMMA EntriesOfThreads ==
  ASSUME NEW N, IsFiniteSet(N), NULL \notin N, NEW h \in Heap(N), NEW head \in N,
         NEW s \in Seq(N \ {head}), Threads(h, head, s), Distinct(s)
  PROVE  Entries(h, head) = s
<1> DEFINE L == Len(s)
           at(m) == Stop(head, s, (L - m) + 1)
           rest(m) == SubSeq(s, (L - m) + 1, L)
<1>1. /\ L \in Nat /\ s \in Seq(N)
      /\ \A i \in 1..L : s[i] \in N /\ s[i] # head
  BY ElementOfSeq, LenProperties, SeqMonotonic
<1>2. Cardinality(N) \in Nat /\ L <= Cardinality(N)
  BY <1>1, DistinctBound
<1>3. PICK from \in [Nat -> [N \cup {NULL} -> Seq(N)]] : Walks(from, h, N, head)
  BY EntriesWalk
<1> DEFINE T == {m \in 0..L : \A k \in Nat : k >= m => from[k][at(m)] = rest(m)}
<1>4. 0 \in T
  <2>1. at(0) = head
    BY <1>1 DEF Stop
  <2>2. rest(0) = <<>>
    <3>1. L - 0 + 1 \in Int /\ L \in Int /\ L < L - 0 + 1
      BY <1>1
    <3>2. QED
      BY <3>1, SubSeqEmpty
  <2>3. \A k \in Nat : from[k][head] = <<>>
    BY <1>3 DEF Walks
  <2> HIDE DEF at, rest
  <2>4. QED
    BY <1>1, <2>1, <2>2, <2>3
<1>5. ASSUME NEW m \in 0..(L - 1), m \in T PROVE m + 1 \in T
  <2>1. /\ L - m \in 1..L /\ (L - (m + 1)) + 1 = L - m /\ L \in (L - m)..L
        /\ m + 1 \in 0..L /\ L - m \in 0..L
    <3>1. L \in Nat
      BY <1>1
    <3> HIDE DEF L, T
    <3>2. QED
      BY <3>1
  <2>2. at(m + 1) = s[L - m]
    BY <2>1 DEF Stop
  <2>3. h.next[s[L - m]] = at(m)
    <3>1. Stop(head, s, L - m) = s[L - m]
      BY <2>1 DEF Stop
    <3>2. QED
      BY <2>1, <3>1 DEF Threads
  <2>4. rest(m + 1) = <<s[L - m]>> \o rest(m)
    <3> DEFINE a == L - m
    <3>1. SubSeq(s, a, L) = <<s[a]>> \o SubSeq(s, a + 1, L)
      <4>1. a \in 1..L /\ L \in a..L
        BY <2>1
      <4> HIDE DEF a
      <4>2. QED
        BY <1>1, <4>1, SubSeqRecursiveFirst
    <3>2. QED
      BY <2>1, <3>1
  <2>5. ASSUME NEW k \in Nat, k >= m + 1 PROVE from[k][at(m + 1)] = rest(m + 1)
    <3>1. k - 1 \in Nat /\ (k - 1) + 1 = k /\ k - 1 >= m
      BY <2>5
    <3>2. from[k - 1][at(m)] = rest(m)
      BY <1>5, <3>1
    <3>3. s[L - m] \in N \ {head}
      BY <1>1, <2>1
    <3>4. from[k][s[L - m]] = <<s[L - m]>> \o from[k - 1][h.next[s[L - m]]]
      <4>1. from[(k - 1) + 1][s[L - m]] = <<s[L - m]>> \o from[k - 1][h.next[s[L - m]]]
        BY <1>3, <3>1, <3>3 DEF Walks
      <4>2. QED
        BY <3>1, <4>1
    <3> HIDE DEF at, rest
    <3>5. QED
      BY <2>2, <2>3, <2>4, <3>2, <3>4
  <2> HIDE DEF at, rest
  <2>6. QED
    BY <2>1, <2>5
<1>6. 0..L \subseteq T
  <2>1. 0 \in Int /\ L \in Int
    BY <1>1
  <2> HIDE DEF T, L
  <2>2. QED
    BY ONLY <1>4, <1>5, <2>1, IntervalInduction
<1>7. from[Cardinality(N)][at(L)] = rest(L)
  <2>1. L \in T
    <3> HIDE DEF L, T
    <3>1. QED
      BY <1>1, <1>6
  <2> HIDE DEF at, rest
  <2>2. QED
    BY <1>1, <1>2, <2>1
<1>8. at(L) = h.next[head]
  <2>1. 0 \in 0..L /\ (L - L) + 1 = 0 + 1 /\ Stop(head, s, 0) = head
    BY <1>1 DEF Stop
  <2>2. QED
    BY <2>1 DEF Threads
<1>9. rest(L) = s
  <2>1. (L - L) + 1 = 1
    BY <1>1
  <2>2. QED
    BY <1>1, <2>1, SubSeqFull
<1> HIDE DEF at, rest
<1>10. QED
  BY <1>3, <1>7, <1>8, <1>9 DEF Walks
-----------------------------------------------------------------------------
\* L are the lists whose heads are H: each that has been made is threaded through
\* the heap, and no node is an item twice.
Separate(H, L) ==
  \A m, n \in H : \A i \in 1..Len(L[m]), j \in 1..Len(L[n]) :
    L[m][i] = L[n][j] => m = n /\ i = j

Lists(h, N, H, L) ==
  /\ h \in Heap(N) /\ H \subseteq N /\ L \in [H -> Seq(N \ H)]
  /\ \A n \in H : IF h.next[n] = NULL THEN L[n] = <<>> ELSE Threads(h, n, L[n])
  /\ Separate(H, L)

\* h and g agree on a list.
SameAt(g, h, n, s) ==
  /\ g.next[n] = h.next[n] /\ g.prev[n] = h.prev[n]
  /\ \A i \in 1..Len(s) : g.next[s[i]] = h.next[s[i]] /\ g.prev[s[i]] = h.prev[s[i]]

\* No list is unmade.
StillMade(h, g, H) == \A m \in H : h.next[m] # NULL => g.next[m] # NULL

\* What is known of one of the lists.
LEMMA ListFacts ==
  ASSUME NEW N, NEW H, NEW h, NEW L, Lists(h, N, H, L), NEW n \in H
  PROVE  /\ n \in N /\ L[n] \in Seq(N \ {n}) /\ L[n] \in Seq(N \ H) /\ L[n] \in Seq(N)
         /\ Len(L[n]) \in Nat /\ Distinct(L[n])
         /\ \A i \in 1..Len(L[n]) : L[n][i] \in N \ H
<1>1. n \in N /\ L[n] \in Seq(N \ H)
  BY DEF Lists
<1>2. L[n] \in Seq(N \ {n}) /\ L[n] \in Seq(N)
  <2>1. N \ H \subseteq N \ {n} /\ N \ H \subseteq N
    OBVIOUS
  <2>2. QED
    BY <1>1, <2>1, SeqMonotonic
<1>3. Distinct(L[n])
  BY DEF Lists, Separate, Distinct
<1>4. Len(L[n]) \in Nat /\ \A i \in 1..Len(L[n]) : L[n][i] \in N \ H
  BY <1>1, LenProperties, ElementOfSeq
<1>5. QED
  BY <1>1, <1>2, <1>3, <1>4

\* Where a walk along a list can be.
LEMMA StopFacts ==
  ASSUME NEW N, NEW head \in N, NEW s \in Seq(N), NEW i
  PROVE  Stop(head, s, i) \in N
BY ElementOfSeq DEF Stop

\* One list changes, the others stay as they are.
LEMMA ListsChange ==
  ASSUME NEW N, NULL \notin N, NEW H, NEW h, NEW L, Lists(h, N, H, L), NEW n \in H,
         NEW g \in Heap(N), NEW t \in Seq(N \ H), Threads(g, n, t), Distinct(t),
         \A m \in H \ {n} : \A i \in 1..Len(t), j \in 1..Len(L[m]) : t[i] # L[m][j],
         \A m \in H \ {n} : SameAt(g, h, m, L[m])
  PROVE  Lists(g, N, H, [L EXCEPT ![n] = t]) /\ StillMade(h, g, H)
<1> DEFINE K == [L EXCEPT ![n] = t]
<1>1. K \in [H -> Seq(N \ H)] /\ K[n] = t /\ \A m \in H \ {n} : K[m] = L[m]
  BY DEF Lists
<1> HIDE DEF K
<1>2. g.next[n] # NULL
  <2>1. Len(t) \in Nat /\ t \in Seq(N) /\ n \in N
    <3>1. N \ H \subseteq N /\ H \subseteq N
      BY DEF Lists
    <3>2. QED
      BY <3>1, SeqMonotonic, LenProperties
  <2>2. 0 \in 0..Len(t) /\ Stop(n, t, 0) = n
    BY <2>1 DEF Stop
  <2>3. g.next[n] = Stop(n, t, 0 + 1)
    BY <2>2 DEF Threads
  <2>4. QED
    BY <2>1, <2>3, StopFacts
<1>3. ASSUME NEW m \in H \ {n}
      PROVE  IF g.next[m] = NULL THEN K[m] = <<>> ELSE Threads(g, m, K[m])
  <2>1. g.next[m] = h.next[m] /\ K[m] = L[m]
    BY <1>1 DEF SameAt
  <2>2. CASE h.next[m] = NULL
    BY <2>1, <2>2 DEF Lists
  <2>3. CASE h.next[m] # NULL
    <3>1. Threads(h, m, L[m])
      BY <2>3 DEF Lists
    <3>2. m \in N /\ L[m] \in Seq(N)
      BY ListFacts
    <3>3. Threads(g, m, L[m])
      BY <3>1, <3>2, ThreadsFrame DEF SameAt
    <3>4. QED
      BY <2>1, <2>3, <3>3
  <2>4. QED
    BY <2>2, <2>3
<1>4. Separate(H, K)
  <2> SUFFICES ASSUME NEW m \in H, NEW k \in H,
                      NEW i \in 1..Len(K[m]), NEW j \in 1..Len(K[k]),
                      K[m][i] = K[k][j]
               PROVE  m = k /\ i = j
    BY DEF Separate
  <2>1. CASE m = n /\ k = n
    BY <1>1, <2>1 DEF Distinct
  <2>2. CASE m = n /\ k # n
    BY <1>1, <2>2
  <2>3. CASE m # n /\ k = n
    BY <1>1, <2>3
  <2>4. CASE m # n /\ k # n
    BY <1>1, <2>4 DEF Lists, Separate
  <2>5. QED
    BY <2>1, <2>2, <2>3, <2>4
<1>5. StillMade(h, g, H)
  BY <1>2 DEF StillMade, SameAt
<1>6. QED
  BY <1>1, <1>2, <1>3, <1>4, <1>5 DEF Lists, K

\* An item that is in no list comes between two neighbours of one.
LEMMA ListsWith ==
  ASSUME NEW N, NULL \notin N, NEW H, NEW h, NEW L, Lists(h, N, H, L),
         NEW n \in H, h.next[n] # NULL, NEW k \in 0..Len(L[n]),
         NEW x \in N \ H, \A m \in H : \A j \in 1..Len(L[m]) : L[m][j] # x
  PROVE  LET g == AddBetween(h, x, Stop(n, L[n], k), Stop(n, L[n], k + 1))
         IN  Lists(g, N, H, [L EXCEPT ![n] = With(L[n], k, x)]) /\ StillMade(h, g, H)
<1> DEFINE s == L[n]
           p == Stop(n, s, k)
           q == Stop(n, s, k + 1)
           g == AddBetween(h, x, p, q)
           t == With(s, k, x)
<1>1. /\ n \in N /\ s \in Seq(N \ {n}) /\ s \in Seq(N \ H) /\ s \in Seq(N)
      /\ Len(s) \in Nat /\ Distinct(s) /\ \A i \in 1..Len(s) : s[i] \in N \ H
  BY ListFacts
<1>2. h \in Heap(N) /\ Threads(h, n, s) /\ H \subseteq N
  BY DEF Lists
<1>3. \A i \in 1..Len(s) : s[i] # x
  OBVIOUS
<1> HIDE DEF s
<1>4. p \in N /\ q \in N /\ x # p /\ x # q /\ k \in 0..Len(s)
  <2>1. k \in 0..Len(s)
    BY DEF s
  <2>2. QED
    BY <1>1, <1>3, <2>1 DEF Stop
<1>5. Threads(g, n, t)
  <2>1. x \in N /\ x # n /\ k \in 0..Len(s)
    BY <1>4
  <2>2. QED
    BY <1>1, <1>2, <1>3, <2>1, ThreadsWith
<1>6. /\ t \in Seq(N \ H) /\ Len(t) = Len(s) + 1
      /\ \A i \in 1..(Len(s) + 1) :
           t[i] = IF i <= k THEN s[i] ELSE IF i = k + 1 THEN x ELSE s[i - 1]
  <2>1. k \in 0..Len(s)
    BY <1>4
  <2> DEFINE M == N \ H
  <2>2. s \in Seq(M)
    BY <1>1
  <2>3. x \in M
    OBVIOUS
  <2> HIDE DEF M
  <2>4. /\ t \in Seq(M) /\ Len(t) = Len(s) + 1
        /\ \A i \in 1..(Len(s) + 1) :
             t[i] = IF i <= k THEN s[i] ELSE IF i = k + 1 THEN x ELSE s[i - 1]
    BY ONLY <2>1, <2>2, <2>3, WithItems
  <2>5. QED
    BY <2>4 DEF M
<1>7. /\ g \in Heap(N)
      /\ \A y \in N \ {x, p} : g.next[y] = h.next[y]
      /\ \A y \in N \ {x, q} : g.prev[y] = h.prev[y]
  <2>1. p \in N /\ q \in N /\ x # p /\ x # q /\ x \in N
    BY <1>4
  <2> HIDE DEF p, q
  <2>2. QED
    BY <1>2, <2>1, AddedFields
<1> HIDE DEF g, t
<1>8. Distinct(t)
  <2> SUFFICES ASSUME NEW i \in 1..(Len(s) + 1), NEW j \in 1..(Len(s) + 1),
                      t[i] = t[j], i < j
               PROVE  FALSE
    BY <1>1, <1>6 DEF Distinct
  <2>1. CASE j <= k
    <3>1. i \in 1..Len(s) /\ j \in 1..Len(s) /\ i # j /\ t[i] = s[i] /\ t[j] = s[j]
      BY <1>1, <1>4, <1>6, <2>1
    <3>2. QED
      BY <1>1, <3>1 DEF Distinct
  <2>2. CASE j = k + 1
    <3>1. i \in 1..Len(s) /\ t[i] = s[i] /\ t[j] = x
      BY <1>1, <1>4, <1>6, <2>2
    <3>2. QED
      BY <1>3, <3>1
  <2>3. CASE j > k + 1 /\ i = k + 1
    <3>1. j - 1 \in 1..Len(s) /\ t[j] = s[j - 1] /\ t[i] = x
      BY <1>1, <1>4, <1>6, <2>3
    <3>2. QED
      BY <1>3, <3>1
  <2>4. CASE j > k + 1 /\ i <= k
    <3>1. /\ j - 1 \in 1..Len(s) /\ i \in 1..Len(s) /\ i # j - 1
          /\ t[j] = s[j - 1] /\ t[i] = s[i]
      BY <1>1, <1>4, <1>6, <2>4
    <3>2. QED
      BY <1>1, <3>1 DEF Distinct
  <2>5. CASE j > k + 1 /\ i > k + 1
    <3>1. /\ j - 1 \in 1..Len(s) /\ i - 1 \in 1..Len(s) /\ i - 1 # j - 1
          /\ t[j] = s[j - 1] /\ t[i] = s[i - 1]
      BY <1>1, <1>4, <1>6, <2>5
    <3>2. QED
      BY <1>1, <3>1 DEF Distinct
  <2>6. QED
    BY <1>4, <2>1, <2>2, <2>3, <2>4, <2>5
<1>9. ASSUME NEW m \in H \ {n}, NEW i \in 1..Len(t), NEW j \in 1..Len(L[m])
      PROVE  t[i] # L[m][j]
  <2>1. \A a \in 1..Len(s) : s[a] # L[m][j]
    BY DEF Lists, Separate, s
  <2>2. t[i] = x \/ \E a \in 1..Len(s) : t[i] = s[a]
    <3>1. CASE i <= k
      BY <1>1, <1>4, <1>6, <3>1
    <3>2. CASE i = k + 1
      BY <1>1, <1>4, <1>6, <3>2
    <3>3. CASE i > k + 1
      <4>1. i - 1 \in 1..Len(s) /\ t[i] = s[i - 1]
        BY <1>1, <1>4, <1>6, <3>3
      <4>2. QED
        BY <4>1
    <3>4. QED
      BY <1>1, <1>4, <1>6, <3>1, <3>2, <3>3
  <2>3. QED
    BY <2>1, <2>2
<1>10. ASSUME NEW m \in H \ {n} PROVE SameAt(g, h, m, L[m])
  <2>1. m \in N /\ \A j \in 1..Len(L[m]) : L[m][j] \in N \ H
    BY ListFacts
  <2>2. p = n \/ \E a \in 1..Len(s) : p = s[a]
    BY DEF Stop
  <2>3. q = n \/ \E a \in 1..Len(s) : q = s[a]
    BY DEF Stop
  <2>4. \A j \in 1..Len(L[m]) : \A a \in 1..Len(s) : s[a] # L[m][j]
    BY DEF Lists, Separate, s
  <2> HIDE DEF p, q
  <2>5. m \in N \ {x, p} /\ m \in N \ {x, q}
    BY <1>1, <2>1, <2>2, <2>3
  <2>6. \A j \in 1..Len(L[m]) : L[m][j] \in N \ {x, p} /\ L[m][j] \in N \ {x, q}
    BY <1>1, <2>1, <2>2, <2>3, <2>4
  <2>7. QED
    BY <1>7, <2>5, <2>6 DEF SameAt
<1>11. Lists(g, N, H, [L EXCEPT ![n] = t]) /\ StillMade(h, g, H)
  BY ONLY NULL \notin N, Lists(h, N, H, L), n \in H, <1>5, <1>6, <1>7, <1>8, <1>9, <1>10,
     ListsChange
<1>12. QED
  BY <1>11 DEF g, t, p, q, s
\* listx.h:155-157: an item leaves its list.
LEMMA ListsWithout ==
  ASSUME NEW N, NULL \notin N, NEW H, NEW h, NEW L, Lists(h, N, H, L),
         NEW n \in H, NEW k \in 1..Len(L[n])
  PROVE  LET g == list_del(h, L[n][k])
         IN  Lists(g, N, H, [L EXCEPT ![n] = Without(L[n], k)]) /\ StillMade(h, g, H)
<1> DEFINE s == L[n]
           p == Stop(n, s, k - 1)
           q == Stop(n, s, k + 1)
           g == list_del(h, s[k])
           t == Without(s, k)
<1>1. /\ n \in N /\ s \in Seq(N \ {n}) /\ s \in Seq(N \ H) /\ s \in Seq(N)
      /\ Len(s) \in Nat /\ Distinct(s) /\ \A i \in 1..Len(s) : s[i] \in N \ H
  BY ListFacts
<1>2. h \in Heap(N) /\ Threads(h, n, s) /\ H \subseteq N
  <2>1. s # <<>>
    BY EmptySeq
  <2>2. QED
    BY <2>1 DEF Lists
<1>3. k \in 1..Len(s)
  OBVIOUS
<1> HIDE DEF s
<1>4. p \in N /\ q \in N
  BY <1>1 DEF Stop
<1>5. Threads(g, n, t)
  BY <1>1, <1>2, <1>3, ThreadsWithout
<1>6. /\ t \in Seq(N \ H) /\ Len(t) = Len(s) - 1
      /\ \A i \in 1..(Len(s) - 1) : t[i] = IF i < k THEN s[i] ELSE s[i + 1]
  <2> DEFINE M == N \ H
  <2>1. s \in Seq(M)
    BY <1>1
  <2> HIDE DEF M
  <2>2. /\ t \in Seq(M) /\ Len(t) = Len(s) - 1
        /\ \A i \in 1..(Len(s) - 1) : t[i] = IF i < k THEN s[i] ELSE s[i + 1]
    BY ONLY <2>1, <1>3, WithoutItems
  <2>3. QED
    BY <2>2 DEF M
<1>7. /\ g \in Heap(N)
      /\ \A y \in N \ {p} : g.next[y] = h.next[y]
      /\ \A y \in N \ {q} : g.prev[y] = h.prev[y]
  <2>1. k - 1 \in 0..Len(s) /\ k \in 0..Len(s) /\ (k - 1) + 1 = k
    BY <1>1, <1>3
  <2>2. Stop(n, s, k) = s[k]
    BY <1>3 DEF Stop
  <2>3. h.prev[s[k]] = p /\ h.next[s[k]] = q
    BY <1>2, <2>1, <2>2 DEF Threads
  <2>4. g = Bypass(h, p, q)
    BY <2>3 DEF list_del
  <2> HIDE DEF p, q, g
  <2>5. QED
    BY <1>2, <1>4, <2>4 DEF Bypass, Heap
<1> HIDE DEF g, t
<1>8. Distinct(t)
  <2> SUFFICES ASSUME NEW i \in 1..(Len(s) - 1), NEW j \in 1..(Len(s) - 1),
                      t[i] = t[j], i < j
               PROVE  FALSE
    BY <1>1, <1>6 DEF Distinct
  <2>1. CASE j < k
    <3>1. i \in 1..Len(s) /\ j \in 1..Len(s) /\ i # j /\ t[i] = s[i] /\ t[j] = s[j]
      BY <1>1, <1>3, <1>6, <2>1
    <3>2. QED
      BY <1>1, <3>1 DEF Distinct
  <2>2. CASE ~(j < k) /\ i < k
    <3>1. i \in 1..Len(s) /\ j + 1 \in 1..Len(s) /\ i # j + 1 /\ t[i] = s[i] /\ t[j] = s[j + 1]
      BY <1>1, <1>3, <1>6, <2>2
    <3>2. QED
      BY <1>1, <3>1 DEF Distinct
  <2>3. CASE ~(j < k) /\ ~(i < k)
    <3>1. t[i] = s[i + 1] /\ t[j] = s[j + 1]
      BY <1>6, <2>3
    <3>2. i + 1 \in 1..Len(s) /\ j + 1 \in 1..Len(s) /\ i + 1 # j + 1
      BY <1>1
    <3>3. QED
      BY <1>1, <3>1, <3>2 DEF Distinct
  <2>4. QED
    BY <1>3, <2>1, <2>2, <2>3
<1>9. ASSUME NEW m \in H \ {n}, NEW i \in 1..Len(t), NEW j \in 1..Len(L[m])
      PROVE  t[i] # L[m][j]
  <2>1. \A a \in 1..Len(s) : s[a] # L[m][j]
    BY DEF Lists, Separate, s
  <2>2. \E a \in 1..Len(s) : t[i] = s[a]
    <3>1. i \in 1..Len(s) /\ i + 1 \in 1..Len(s) /\ i \in 1..(Len(s) - 1)
      BY <1>1, <1>6
    <3>2. QED
      BY <1>6, <3>1
  <2>3. QED
    BY <2>1, <2>2
<1>10. ASSUME NEW m \in H \ {n} PROVE SameAt(g, h, m, L[m])
  <2>1. m \in N /\ \A j \in 1..Len(L[m]) : L[m][j] \in N \ H
    BY ListFacts
  <2>2. p = n \/ \E a \in 1..Len(s) : p = s[a]
    BY DEF Stop
  <2>3. q = n \/ \E a \in 1..Len(s) : q = s[a]
    BY DEF Stop
  <2>4. \A j \in 1..Len(L[m]) : \A a \in 1..Len(s) : s[a] # L[m][j]
    BY DEF Lists, Separate, s
  <2> HIDE DEF p, q
  <2>5. m \in N \ {p} /\ m \in N \ {q}
    BY <1>1, <2>1, <2>2, <2>3
  <2>6. \A j \in 1..Len(L[m]) : L[m][j] \in N \ {p} /\ L[m][j] \in N \ {q}
    BY <1>1, <2>1, <2>2, <2>3, <2>4
  <2>7. QED
    BY <1>7, <2>5, <2>6 DEF SameAt
<1>11. Lists(g, N, H, [L EXCEPT ![n] = t]) /\ StillMade(h, g, H)
  BY ONLY NULL \notin N, Lists(h, N, H, L), n \in H, <1>5, <1>6, <1>7, <1>8, <1>9, <1>10,
     ListsChange
<1>12. QED
  BY <1>11 DEF g, t, p, q, s

\* listx.h:87-91: INIT_LIST_HEAD makes a list, or a node that is in none stand
\* alone.
LEMMA ListsInitialised ==
  ASSUME NEW N, NULL \notin N, NEW H, NEW h, NEW L, Lists(h, N, H, L), NEW x \in N,
         x \in H => L[x] = <<>>,
         \A m \in H : \A j \in 1..Len(L[m]) : L[m][j] # x
  PROVE  LET g == INIT_LIST_HEAD(h, x)
         IN  Lists(g, N, H, L) /\ StillMade(h, g, H) /\ g.next[x] # NULL
<1> DEFINE g == INIT_LIST_HEAD(h, x)
<1>1. /\ g \in Heap(N) /\ g.next[x] = x /\ g.prev[x] = x
      /\ \A y \in N \ {x} : g.next[y] = h.next[y] /\ g.prev[y] = h.prev[y]
  BY DEF Lists, Heap, INIT_LIST_HEAD
<1> HIDE DEF g
<1>2. ASSUME NEW n \in H, n # x
      PROVE  IF g.next[n] = NULL THEN L[n] = <<>> ELSE Threads(g, n, L[n])
  <2>1. n \in N /\ L[n] \in Seq(N) /\ \A i \in 1..Len(L[n]) : L[n][i] \in N \ {x}
    BY ListFacts
  <2>2. g.next[n] = h.next[n] /\ g.prev[n] = h.prev[n]
    BY <1>1, <1>2, <2>1
  <2>3. CASE h.next[n] = NULL
    BY <2>2, <2>3 DEF Lists
  <2>4. CASE h.next[n] # NULL
    <3>1. Threads(h, n, L[n])
      BY <2>4 DEF Lists
    <3>2. Threads(g, n, L[n])
      BY <1>1, <2>1, <2>2, <3>1, ThreadsFrame
    <3>3. QED
      BY <2>2, <2>4, <3>2
  <2>5. QED
    BY <2>3, <2>4
<1>3. ASSUME x \in H PROVE g.next[x] # NULL /\ Threads(g, x, L[x])
  <2>1. L[x] = <<>> /\ Len(<<>>) = 0
    BY <1>3
  <2>2. Threads(g, x, <<>>)
    BY <1>1, <2>1 DEF Threads, Stop
  <2>3. QED
    BY <1>1, <2>1, <2>2
<1>4. \A n \in H : IF g.next[n] = NULL THEN L[n] = <<>> ELSE Threads(g, n, L[n])
  BY <1>2, <1>3
<1>5. g.next[x] # NULL
  BY <1>1
<1>6. StillMade(h, g, H)
  BY <1>1, <1>5 DEF StillMade, Lists
<1>7. QED
  BY <1>1, <1>4, <1>5, <1>6 DEF Lists, g

\* listx.h:119-121: an item is added behind the head.
LEMMA ListsFirst ==
  ASSUME NEW N, NULL \notin N, NEW H, NEW h, NEW L, Lists(h, N, H, L),
         NEW n \in H, h.next[n] # NULL,
         NEW x \in N \ H, \A m \in H : \A j \in 1..Len(L[m]) : L[m][j] # x
  PROVE  LET g == list_add(h, x, n)
         IN  Lists(g, N, H, [L EXCEPT ![n] = <<x>> \o L[n]]) /\ StillMade(h, g, H)
<1> DEFINE M == N \ H
<1>1. L[n] \in Seq(M) /\ Threads(h, n, L[n]) /\ Len(L[n]) \in Nat
  BY ListFacts DEF Lists
<1>2. x \in M
  OBVIOUS
<1>3. With(L[n], 0, x) = <<x>> \o L[n]
  <2>1. L[n] \in Seq(M)
    BY <1>1
  <2> HIDE DEF M
  <2>2. QED
    BY <2>1, <1>2, WithFirst
<1>4. 0 \in 0..Len(L[n])
  BY <1>1
<1>5. Stop(n, L[n], 0) = n /\ Stop(n, L[n], 0 + 1) = h.next[n]
  <2>1. Stop(n, L[n], 0) = n
    BY <1>1 DEF Stop
  <2>2. QED
    BY <1>1, <1>4, <2>1 DEF Threads
<1>6. AddBetween(h, x, Stop(n, L[n], 0), Stop(n, L[n], 0 + 1)) = list_add(h, x, n)
  BY <1>5 DEF list_add
<1> DEFINE g == AddBetween(h, x, Stop(n, L[n], 0), Stop(n, L[n], 0 + 1))
<1>7. Lists(g, N, H, [L EXCEPT ![n] = With(L[n], 0, x)]) /\ StillMade(h, g, H)
  BY <1>4, ListsWith
<1>8. QED
  BY <1>3, <1>6, <1>7

\* listx.h:131-133: an item is added before the head.
LEMMA ListsLast ==
  ASSUME NEW N, NULL \notin N, NEW H, NEW h, NEW L, Lists(h, N, H, L),
         NEW n \in H, h.next[n] # NULL,
         NEW x \in N \ H, \A m \in H : \A j \in 1..Len(L[m]) : L[m][j] # x
  PROVE  LET g == list_add_tail(h, x, n)
         IN  Lists(g, N, H, [L EXCEPT ![n] = Append(L[n], x)]) /\ StillMade(h, g, H)
<1> DEFINE M == N \ H
           k == Len(L[n])
<1>1. L[n] \in Seq(M) /\ Threads(h, n, L[n]) /\ k \in Nat
  BY ListFacts DEF Lists
<1>2. x \in M
  OBVIOUS
<1>3. With(L[n], k, x) = Append(L[n], x)
  <2>1. L[n] \in Seq(M)
    BY <1>1
  <2> HIDE DEF M
  <2>2. QED
    BY <2>1, <1>2, WithLast
<1>4. k \in 0..Len(L[n])
  BY <1>1
<1>5. Stop(n, L[n], k + 1) = n /\ Stop(n, L[n], k) = h.prev[n]
  <2>1. Stop(n, L[n], k + 1) = n
    BY <1>1 DEF Stop
  <2>2. h.prev[Stop(n, L[n], k + 1)] = Stop(n, L[n], k)
    BY <1>1, <1>4 DEF Threads
  <2>3. QED
    BY <2>1, <2>2
<1>6. AddBetween(h, x, Stop(n, L[n], k), Stop(n, L[n], k + 1)) = list_add_tail(h, x, n)
  BY <1>5 DEF list_add_tail
<1> HIDE DEF k
<1> DEFINE g == AddBetween(h, x, Stop(n, L[n], k), Stop(n, L[n], k + 1))
<1>7. Lists(g, N, H, [L EXCEPT ![n] = With(L[n], k, x)]) /\ StillMade(h, g, H)
  BY <1>4, ListsWith
<1>8. QED
  BY <1>3, <1>6, <1>7

\* What the pointers of a head say of its list.
LEMMA HeadFacts ==
  ASSUME NEW N, NULL \notin N, NEW H, NEW h, NEW L, Lists(h, N, H, L),
         NEW n \in H, h.next[n] # NULL
  PROVE  /\ list_empty(h, n) <=> L[n] = <<>>
         /\ L[n] # <<>> => 1 \in 1..Len(L[n]) /\ h.next[n] = L[n][1]
         /\ list_next(h, n) = IF L[n] = <<>> THEN NULL ELSE L[n][1]
<1>1. /\ Threads(h, n, L[n]) /\ Len(L[n]) \in Nat /\ L[n] \in Seq(N)
      /\ \A i \in 1..Len(L[n]) : L[n][i] \in N \ H
  BY ListFacts DEF Lists
<1>2. h.next[n] = Stop(n, L[n], 0 + 1)
  <2>1. 0 \in 0..Len(L[n]) /\ Stop(n, L[n], 0) = n
    BY <1>1 DEF Stop
  <2>2. QED
    BY <1>1, <2>1 DEF Threads
<1>3. L[n] # <<>> => 1 \in 1..Len(L[n]) /\ h.next[n] = L[n][1] /\ h.next[n] # n
  <2>1. L[n] # <<>> => Len(L[n]) > 0
    BY <1>1, EmptySeq
  <2>2. L[n] # <<>> => 1 \in 1..Len(L[n])
    BY <1>1, <2>1
  <2>3. QED
    BY <1>1, <1>2, <2>2 DEF Stop
<1>4. L[n] = <<>> => h.next[n] = n
  BY <1>2 DEF Stop
<1>5. QED
  BY <1>3, <1>4 DEF list_empty, list_next

\* list_for_each finds the items of every list.
LEMMA ListsWalked ==
  ASSUME NEW N, IsFiniteSet(N), NULL \notin N, NEW H, NEW h, NEW L, Lists(h, N, H, L),
         NEW n \in H
  PROVE  (IF h.next[n] # NULL THEN Entries(h, n) ELSE <<>>) = L[n]
<1>1. CASE h.next[n] = NULL
  BY <1>1 DEF Lists
<1>2. CASE h.next[n] # NULL
  <2>1. Threads(h, n, L[n]) /\ h \in Heap(N)
    BY <1>2 DEF Lists
  <2>2. n \in N /\ L[n] \in Seq(N \ {n}) /\ Distinct(L[n])
    BY ListFacts
  <2>3. Entries(h, n) = L[n]
    BY <2>1, <2>2, EntriesOfThreads
  <2>4. QED
    BY <1>2, <2>3
<1>3. QED
  BY <1>1, <1>2

\* Both directions lead through the same nodes, and the loop comes back.
LEMMA ListsLinked ==
  ASSUME NEW N, NULL \notin N, NEW H, NEW h, NEW L, Lists(h, N, H, L),
         NEW n \in H, h.next[n] # NULL
  PROVE  /\ Linked(h, {n} \cup Range(L[n]))
         /\ LET e == <<n>> \o L[n] IN h.next[e[Len(e)]] = n
<1> DEFINE s == L[n]
           M == {n} \cup Range(s)
<1>1. /\ Threads(h, n, s) /\ Len(s) \in Nat /\ s \in Seq(N) /\ n \in N
      /\ \A i \in 1..Len(s) : s[i] \in N
  BY ListFacts DEF Lists
<1> HIDE DEF s
<1>2. Range(s) = {s[i] : i \in 1..Len(s)}
  BY <1>1, RangeEquality
<1>3. \A i \in Int : Stop(n, s, i) \in M
  BY <1>2 DEF Stop
<1>4. \A x \in M : \E i \in 0..Len(s) : x = Stop(n, s, i)
  <2>1. 0 \in 0..Len(s) /\ n = Stop(n, s, 0)
    BY <1>1 DEF Stop
  <2>2. \A i \in 1..Len(s) : i \in 0..Len(s) /\ s[i] = Stop(n, s, i)
    BY <1>1 DEF Stop
  <2>3. QED
    BY <1>2, <2>1, <2>2
<1>5. \A x \in M : \E i \in 0..Len(s) : x = Stop(n, s, i + 1)
  <2>1. Len(s) \in 0..Len(s) /\ n = Stop(n, s, Len(s) + 1)
    BY <1>1 DEF Stop
  <2>2. \A i \in 1..Len(s) : i - 1 \in 0..Len(s) /\ s[i] = Stop(n, s, (i - 1) + 1)
    BY <1>1 DEF Stop
  <2>3. QED
    BY <1>2, <2>1, <2>2
<1>6. \A i \in 0..Len(s) : i \in Int /\ i + 1 \in Int
  BY <1>1
<1>7. Linked(h, M)
  <2> HIDE DEF M
  <2>1. ASSUME NEW x \in M PROVE h.next[x] \in M /\ h.prev[h.next[x]] = x
    <3>1. PICK i \in 0..Len(s) : x = Stop(n, s, i)
      BY <1>4
    <3>2. QED
      BY <1>1, <1>3, <1>6, <3>1 DEF Threads
  <2>2. ASSUME NEW x \in M PROVE h.prev[x] \in M /\ h.next[h.prev[x]] = x
    <3>1. PICK i \in 0..Len(s) : x = Stop(n, s, i + 1)
      BY <1>5
    <3>2. QED
      BY <1>1, <1>3, <1>6, <3>1 DEF Threads
  <2>3. QED
    BY <2>1, <2>2 DEF Linked
<1>8. LET e == <<n>> \o s IN h.next[e[Len(e)]] = n
  <2> DEFINE e == <<n>> \o s
  <2>1. <<n>> \in Seq(N) /\ Len(<<n>>) = 1 /\ <<n>>[1] = n
    BY <1>1
  <2>2. /\ Len(e) = 1 + Len(s)
        /\ \A i \in 1..(1 + Len(s)) : e[i] = IF i <= 1 THEN <<n>>[i] ELSE s[i - 1]
    BY <1>1, <2>1, ConcatProperties
  <2> HIDE DEF e
  <2>3. e[Len(e)] = Stop(n, s, Len(s))
    <3>1. CASE Len(s) = 0
      BY <1>1, <2>1, <2>2, <3>1 DEF Stop
    <3>2. CASE Len(s) # 0
      <4>1. /\ 1 + Len(s) \in 1..(1 + Len(s)) /\ ~(1 + Len(s) <= 1)
            /\ (1 + Len(s)) - 1 = Len(s) /\ Len(s) \in 1..Len(s)
        BY <1>1, <3>2
      <4>2. QED
        BY <2>2, <4>1 DEF Stop
    <3>3. QED
      BY <3>1, <3>2
  <2>4. Len(s) \in 0..Len(s) /\ Stop(n, s, Len(s) + 1) = n
    BY <1>1 DEF Stop
  <2>5. h.next[e[Len(e)]] = n
    BY <1>1, <2>3, <2>4 DEF Threads
  <2>6. QED
    BY <2>5 DEF e
<1>9. QED
  BY <1>7, <1>8 DEF s
-----------------------------------------------------------------------------
\* What is in a list after an item was added or taken out.
LEMMA RangeAdded ==
  ASSUME NEW M, NEW s \in Seq(M), NEW x \in M
  PROVE  Range(Append(s, x)) = Range(s) \cup {x} /\ Range(<<x>> \o s) = Range(s) \cup {x}
<1>1. <<x>> \in Seq(M) /\ Range(<<x>>) = {x}
  <2>1. DOMAIN <<x>> = {1} /\ <<x>>[1] = x /\ <<x>> \in Seq(M)
    OBVIOUS
  <2>2. QED
    BY <2>1 DEF Range
<1>2. Append(s, x) = s \o <<x>>
  BY AppendIsConcat
<1>3. Range(s \o <<x>>) = Range(s) \cup {x} /\ Range(<<x>> \o s) = {x} \cup Range(s)
  <2> DEFINE one == <<x>>
  <2>1. one \in Seq(M)
    BY <1>1
  <2>2. Range(one) = {x}
    BY <1>1
  <2> HIDE DEF one
  <2>3. Range(s \o one) = Range(s) \cup Range(one)
    BY ONLY <2>1, s \in Seq(M), RangeConcatenation
  <2>4. Range(one \o s) = Range(one) \cup Range(s)
    BY ONLY <2>1, s \in Seq(M), RangeConcatenation
  <2>5. QED
    BY <2>2, <2>3, <2>4 DEF one
<1>4. QED
  BY <1>2, <1>3

LEMMA RangeWithout ==
  ASSUME NEW M, NEW s \in Seq(M), Distinct(s), NEW k \in 1..Len(s)
  PROVE  Range(Without(s, k)) = Range(s) \ {s[k]}
<1> DEFINE t == Without(s, k)
<1>1. Len(s) \in Nat
  BY LenProperties
<1>2. /\ t \in Seq(M) /\ Len(t) = Len(s) - 1
      /\ \A i \in 1..(Len(s) - 1) : t[i] = IF i < k THEN s[i] ELSE s[i + 1]
  BY WithoutItems
<1> HIDE DEF t
<1>3. /\ Range(t) = {t[i] : i \in 1..(Len(s) - 1)}
      /\ Range(s) = {s[i] : i \in 1..Len(s)}
  BY <1>2, RangeEquality
<1>4. ASSUME NEW i \in 1..(Len(s) - 1) PROVE t[i] \in Range(s) \ {s[k]}
  <2>1. CASE i < k
    <3>1. i \in 1..Len(s) /\ i # k /\ t[i] = s[i]
      BY <1>1, <1>2, <2>1
    <3>2. QED
      BY <1>3, <3>1 DEF Distinct
  <2>2. CASE ~(i < k)
    <3>1. t[i] = s[i + 1]
      BY <1>2, <2>2
    <3>2. i + 1 \in 1..Len(s) /\ i + 1 # k
      BY <1>1, <2>2
    <3>3. QED
      BY <1>3, <3>1, <3>2 DEF Distinct
  <2>3. QED
    BY <2>1, <2>2
<1>5. ASSUME NEW j \in 1..Len(s), j # k PROVE s[j] \in Range(t)
  <2>1. CASE j < k
    <3>1. j \in 1..(Len(s) - 1) /\ t[j] = s[j]
      BY <1>1, <1>2, <2>1
    <3>2. QED
      BY <1>3, <3>1
  <2>2. CASE j > k
    <3>1. j - 1 \in 1..(Len(s) - 1) /\ ~(j - 1 < k) /\ (j - 1) + 1 = j
      BY <1>1, <2>2
    <3>2. t[j - 1] = s[j]
      BY <1>2, <3>1
    <3>3. QED
      BY <1>3, <3>1, <3>2
  <2>3. QED
    BY <1>5, <2>1, <2>2
<1>6. QED
  BY <1>3, <1>4, <1>5 DEF t

\* An item of a list is at a place of it.
LEMMA RangePlace ==
  ASSUME NEW M, NEW s \in Seq(M)
  PROVE  /\ \A x : x \in Range(s) <=> \E i \in 1..Len(s) : s[i] = x
         /\ s = <<>> <=> Range(s) = {}
<1>1. Range(s) = {s[i] : i \in 1..Len(s)} /\ Len(s) \in Nat
  BY RangeEquality, LenProperties
<1>2. s # <<>> => 1 \in 1..Len(s)
  BY <1>1, EmptySeq
<1>3. s = <<>> => Range(s) = {}
  BY <1>1
<1>4. QED
  BY <1>1, <1>2, <1>3
-----------------------------------------------------------------------------
\* The parts of a PCB are different nodes, and are no heads of queues.
LEMMA NodeFacts ==
  /\ NULL \notin Node /\ NULL \notin Pcb /\ Heads \subseteq Node /\ Node \ Heads = Links
  /\ pcbFree_h \in Heads /\ Queue \subseteq Heads
  /\ \A p \in Pcb : /\ p_list(p) \in Links /\ p_sib(p) \in Links /\ p_child(p) \in Heads
                    /\ p_child(p) \notin Queue \cup {pcbFree_h}
  /\ \A p, c \in Pcb : /\ p_list(p) # p_sib(c)
                       /\ p_list(p) = p_list(c) => p = c
                       /\ p_sib(p) = p_sib(c) => p = c
                       /\ p_child(p) = p_child(c) => p = c
<1>1. \A p, c \in Pcb : /\ p_list(p) # p_sib(c)
                        /\ p_list(p) = p_list(c) => p = c
                        /\ p_sib(p) = p_sib(c) => p = c
                        /\ p_child(p) = p_child(c) => p = c
                        /\ p_list(p) # p_child(c) /\ p_sib(p) # p_child(c)
                        /\ p_list(p) # pcbFree_h /\ p_sib(p) # pcbFree_h
                        /\ p_child(p) # pcbFree_h
  BY DEF p_list, p_sib, p_child, pcbFree_h
<1>2. Links \cap Heads = {}
  BY <1>1, PcbAssumption DEF Links, Heads
<1>3. \A p \in Pcb : p_child(p) \notin Queue \cup {pcbFree_h}
  BY <1>1, PcbAssumption
<1>4. QED
  <2>1. NULL \notin Node /\ NULL \notin Pcb
    BY PcbAssumption
  <2>2. /\ Heads \subseteq Node /\ Node \ Heads = Links
        /\ pcbFree_h \in Heads /\ Queue \subseteq Heads
    BY <1>2 DEF Node, Heads
  <2>3. \A p \in Pcb : p_list(p) \in Links /\ p_sib(p) \in Links /\ p_child(p) \in Heads
    BY DEF Links, Heads
  <2>4. QED
    BY <1>1, <1>3, <2>1, <2>2, <2>3

LEMMA NodeFinite == IsFiniteSet(Node)
<1> DEFINE A == {p_list(p) : p \in Pcb}
           B == {p_sib(p) : p \in Pcb}
           C == {p_child(p) : p \in Pcb}
<1>1. IsFiniteSet(Pcb)
  BY FS_Interval, PcbAssumption DEF Pcb
<1>2. IsFiniteSet(A)
  <2>1. [p \in Pcb |-> p_list(p)] \in Surjection(Pcb, A)
    BY DEF Surjection
  <2> HIDE DEF A
  <2>2. QED
    BY <1>1, <2>1, FS_Surjection
<1>3. IsFiniteSet(B)
  <2>1. [p \in Pcb |-> p_sib(p)] \in Surjection(Pcb, B)
    BY DEF Surjection
  <2> HIDE DEF B
  <2>2. QED
    BY <1>1, <2>1, FS_Surjection
<1>4. IsFiniteSet(C)
  <2>1. [p \in Pcb |-> p_child(p)] \in Surjection(Pcb, C)
    BY DEF Surjection
  <2> HIDE DEF C
  <2>2. QED
    BY <1>1, <2>1, FS_Surjection
<1>5. IsFiniteSet(Queue \cup {pcbFree_h})
  BY PcbAssumption, FS_AddElement
<1> HIDE DEF A, B, C
<1>6. IsFiniteSet(A \cup B) /\ IsFiniteSet((Queue \cup {pcbFree_h}) \cup C)
  BY <1>2, <1>3, <1>4, <1>5, FS_Union
<1>7. IsFiniteSet(((Queue \cup {pcbFree_h}) \cup C) \cup (A \cup B))
  BY <1>6, FS_Union
<1>8. QED
  BY <1>7 DEF Node, Heads, Links, A, B, C

\* The lists L of a heap and the parents that go with them: the queues and the
\* pool link PCBs by p_list, the lists of children by p_sib and as p_parent has it;
\* a free PCB has neither parent nor children, any other can have children.
PcbOK(h, L, par) ==
  /\ Lists(h, Node, Heads, L)
  /\ par \in [Pcb -> Pcb \cup {NULL}]
  /\ \A q \in Queue \cup {pcbFree_h} :
       h.next[q] # NULL /\ \A p \in Pcb : p_sib(p) \notin Range(L[q])
  /\ \A p \in Pcb : Range(L[p_child(p)]) = {p_sib(c) : c \in {x \in Pcb : par[x] = p}}
  /\ \A p \in Pcb : p_list(p) \in Range(L[pcbFree_h]) => par[p] = NULL /\ L[p_child(p)] = <<>>
  /\ \A p \in Pcb : p_list(p) \notin Range(L[pcbFree_h]) => h.next[p_child(p)] # NULL

\* The same of the state.
listsNow == [n \in Heads |-> ListAt(n)]
PcbInv   == PcbOK(heap, listsNow, p_parent)

\* The loops over the lists of a heap find L.
LEMMA PcbView ==
  ASSUME NEW h, NEW L, NEW par, PcbOK(h, L, par)
  PROVE  L = [n \in Heads |-> IF h.next[n] # NULL THEN Entries(h, n) ELSE <<>>]
<1>1. \A n \in Heads : (IF h.next[n] # NULL THEN Entries(h, n) ELSE <<>>) = L[n]
  <2> SUFFICES ASSUME NEW n \in Heads
               PROVE  (IF h.next[n] # NULL THEN Entries(h, n) ELSE <<>>) = L[n]
    OBVIOUS
  <2>1. Lists(h, Node, Heads, L)
    BY DEF PcbOK
  <2>2. IsFiniteSet(Node) /\ NULL \notin Node
    BY NodeFacts, NodeFinite
  <2>3. QED
    BY ONLY <2>1, <2>2, n \in Heads, ListsWalked
<1>2. L \in [Heads -> Seq(Node \ Heads)]
  BY DEF PcbOK, Lists
<1>3. QED
  BY <1>1, <1>2
\* What is known of a list of PCBs.
LEMMA PcbListFacts ==
  ASSUME NEW h, NEW L, NEW par, PcbOK(h, L, par), NEW n \in Heads
  PROVE  /\ L[n] \in Seq(Links) /\ L[n] \in Seq(Node) /\ Distinct(L[n]) /\ Len(L[n]) \in Nat
         /\ \A x : x \in Range(L[n]) <=> \E i \in 1..Len(L[n]) : L[n][i] = x
         /\ L[n] = <<>> <=> Range(L[n]) = {}
         /\ Range(L[n]) \subseteq Links
<1>1. Lists(h, Node, Heads, L)
  BY DEF PcbOK
<1>2. /\ L[n] \in Seq(Node \ Heads) /\ L[n] \in Seq(Node) /\ Distinct(L[n])
      /\ Len(L[n]) \in Nat
  BY <1>1, ListFacts
<1>3. L[n] \in Seq(Links)
  BY <1>2, NodeFacts
<1>4. /\ \A x : x \in Range(L[n]) <=> \E i \in 1..Len(L[n]) : L[n][i] = x
      /\ L[n] = <<>> <=> Range(L[n]) = {}
  BY <1>3, RangePlace
<1>5. Range(L[n]) \subseteq Links
  BY <1>3, RangeOfSeq
<1>6. QED
  BY <1>2, <1>3, <1>4, <1>5

\* A PCB that is neither free nor queued is linked by p_list nowhere, and one
\* without a parent is linked by p_sib nowhere.
LEMMA PcbUnlinked ==
  ASSUME NEW h, NEW L, NEW par, PcbOK(h, L, par), NEW p \in Pcb
  PROVE  /\ (/\ p_list(p) \notin Range(L[pcbFree_h])
             /\ \A q \in Queue : p_list(p) \notin Range(L[q]))
            => \A m \in Heads : \A j \in 1..Len(L[m]) : L[m][j] # p_list(p)
         /\ par[p] = NULL
            => \A m \in Heads : \A j \in 1..Len(L[m]) : L[m][j] # p_sib(p)
<1>1. \A m \in Heads : m \in Queue \/ m = pcbFree_h \/ \E c \in Pcb : m = p_child(c)
  BY DEF Heads
<1>2. ASSUME NEW m \in Heads, NEW j \in 1..Len(L[m]) PROVE L[m][j] \in Range(L[m])
  <2>1. \A x : x \in Range(L[m]) <=> \E i \in 1..Len(L[m]) : L[m][i] = x
    BY PcbListFacts
  <2>2. QED
    BY <2>1
<1>3. ASSUME NEW c \in Pcb PROVE p_list(p) \notin Range(L[p_child(c)])
  <2>1. Range(L[p_child(c)]) = {p_sib(b) : b \in {x \in Pcb : par[x] = c}}
    BY DEF PcbOK
  <2>2. \A b \in Pcb : p_sib(b) # p_list(p)
    BY NodeFacts
  <2>3. QED
    BY <2>1, <2>2
<1>4. ASSUME NEW c \in Pcb, par[p] = NULL PROVE p_sib(p) \notin Range(L[p_child(c)])
  <2>1. \A x \in Pcb : p_sib(x) = p_sib(p) => x = p
    BY NodeFacts
  <2>2. par[p] # c
    BY <1>4, NodeFacts
  <2>3. QED
    BY <2>1, <2>2 DEF PcbOK
<1>5. \A q \in Queue \cup {pcbFree_h} : p_sib(p) \notin Range(L[q])
  BY DEF PcbOK
<1>6. ASSUME NEW m \in Heads, NEW j \in 1..Len(L[m]), L[m][j] = p_list(p)
      PROVE  p_list(p) \in Range(L[pcbFree_h]) \/ \E q \in Queue : p_list(p) \in Range(L[q])
  BY <1>1, <1>2, <1>3, <1>6
<1>7. ASSUME NEW m \in Heads, NEW j \in 1..Len(L[m]), L[m][j] = p_sib(p)
      PROVE  par[p] # NULL
  BY <1>1, <1>2, <1>4, <1>5, <1>7
<1>8. QED
  BY <1>6, <1>7

\* One list gains an item at an end, or loses one.
Moved(L, K) ==
  \/ \E l \in Heads, x \in Links :
       /\ \A k \in Heads : x \notin Range(L[k])
       /\ K \in {[L EXCEPT ![l] = Append(L[l], x)], [L EXCEPT ![l] = <<x>> \o L[l]]}
  \/ \E l \in Heads : \E i \in 1..Len(L[l]) : K = [L EXCEPT ![l] = Without(L[l], i)]

Reaches(L, h, par) == \E K : PcbOK(h, K, par) /\ Moved(L, K)

\* A queue or the pool changes by an item, p_list of a PCB.
LEMMA QueueMoved ==
  ASSUME NEW h, NEW L, NEW par, PcbOK(h, L, par),
         NEW q \in Queue \cup {pcbFree_h}, NEW p \in Pcb, NEW g, NEW t,
         Lists(g, Node, Heads, [L EXCEPT ![q] = t]), StillMade(h, g, Heads),
         Range(t) \subseteq Range(L[q]) \cup {p_list(p)},
         q = pcbFree_h => \A c \in Pcb :
           /\ p_list(c) \in Range(t) => par[c] = NULL /\ L[p_child(c)] = <<>>
           /\ p_list(c) \notin Range(t) => g.next[p_child(c)] # NULL
  PROVE  PcbOK(g, [L EXCEPT ![q] = t], par)
<1> DEFINE K == [L EXCEPT ![q] = t]
<1>1. q \in Heads /\ \A m \in Queue \cup {pcbFree_h} : m \in Heads
  BY NodeFacts
<1>2. K[q] = t /\ \A m \in Heads \ {q} : K[m] = L[m]
  BY <1>1 DEF PcbOK, Lists
<1> HIDE DEF K
<1>3. ASSUME NEW m \in Queue \cup {pcbFree_h}
      PROVE  g.next[m] # NULL /\ \A c \in Pcb : p_sib(c) \notin Range(K[m])
  <2>1. h.next[m] # NULL /\ \A c \in Pcb : p_sib(c) \notin Range(L[m])
    BY DEF PcbOK
  <2>2. \A c \in Pcb : p_sib(c) # p_list(p)
    BY NodeFacts
  <2>3. QED
    BY <1>1, <1>2, <2>1, <2>2 DEF StillMade
<1>4. ASSUME NEW c \in Pcb
      PROVE  /\ Range(K[p_child(c)]) = {p_sib(b) : b \in {y \in Pcb : par[y] = c}}
             /\ p_list(c) \in Range(K[pcbFree_h]) => par[c] = NULL /\ K[p_child(c)] = <<>>
             /\ p_list(c) \notin Range(K[pcbFree_h]) => g.next[p_child(c)] # NULL
  <2>1. p_child(c) \in Heads /\ p_child(c) # q /\ pcbFree_h \in Heads
    BY NodeFacts
  <2>2. K[p_child(c)] = L[p_child(c)]
    BY <1>2, <2>1
  <2>3. /\ Range(L[p_child(c)]) = {p_sib(b) : b \in {y \in Pcb : par[y] = c}}
        /\ p_list(c) \in Range(L[pcbFree_h]) => par[c] = NULL /\ L[p_child(c)] = <<>>
        /\ p_list(c) \notin Range(L[pcbFree_h]) => h.next[p_child(c)] # NULL
    BY DEF PcbOK
  <2>4. h.next[p_child(c)] # NULL => g.next[p_child(c)] # NULL
    BY <2>1 DEF StillMade
  <2>5. CASE q = pcbFree_h
    BY <1>2, <2>2, <2>3, <2>5
  <2>6. CASE q # pcbFree_h
    <3>1. K[pcbFree_h] = L[pcbFree_h]
      BY <1>2, <2>1, <2>6
    <3>2. QED
      BY <2>2, <2>3, <2>4, <3>1
  <2>7. QED
    BY <2>5, <2>6
<1>5. par \in [Pcb -> Pcb \cup {NULL}] /\ Lists(g, Node, Heads, K)
  BY DEF PcbOK, K
<1>6. PcbOK(g, K, par)
  BY <1>3, <1>4, <1>5 DEF PcbOK
<1>7. QED
  BY <1>6 DEF K

\* The children of prnt change by one, p, and its parent with them.
LEMMA ChildMoved ==
  ASSUME NEW h, NEW L, NEW par, PcbOK(h, L, par),
         NEW prnt \in Pcb, NEW p \in Pcb, NEW new \in {prnt, NULL}, NEW g, NEW t,
         Lists(g, Node, Heads, [L EXCEPT ![p_child(prnt)] = t]), StillMade(h, g, Heads),
         new = prnt => /\ par[p] = NULL
                       /\ Range(t) = Range(L[p_child(prnt)]) \cup {p_sib(p)}
                       /\ p_list(p) \notin Range(L[pcbFree_h])
                       /\ p_list(prnt) \notin Range(L[pcbFree_h]),
         new = NULL => /\ par[p] = prnt
                       /\ Range(t) = Range(L[p_child(prnt)]) \ {p_sib(p)}
  PROVE  PcbOK(g, [L EXCEPT ![p_child(prnt)] = t], [par EXCEPT ![p] = new])
<1> DEFINE n == p_child(prnt)
           K == [L EXCEPT ![n] = t]
           to == [par EXCEPT ![p] = new]
<1>1. /\ n \in Heads /\ n \notin Queue \cup {pcbFree_h} /\ pcbFree_h \in Heads
      /\ \A m \in Queue \cup {pcbFree_h} : m \in Heads
  BY NodeFacts
<1>2. K[n] = t /\ \A m \in Heads \ {n} : K[m] = L[m]
  BY <1>1 DEF PcbOK, Lists
<1>3. par \in [Pcb -> Pcb \cup {NULL}] /\ NULL \notin Pcb
  BY NodeFacts DEF PcbOK
<1>4. /\ to \in [Pcb -> Pcb \cup {NULL}]
      /\ to[p] = new /\ \A c \in Pcb \ {p} : to[c] = par[c]
  BY <1>3
<1> HIDE DEF K, to
<1>5. ASSUME NEW m \in Queue \cup {pcbFree_h}
      PROVE  g.next[m] # NULL /\ \A c \in Pcb : p_sib(c) \notin Range(K[m])
  <2>1. h.next[m] # NULL /\ \A c \in Pcb : p_sib(c) \notin Range(L[m])
    BY DEF PcbOK
  <2>2. K[m] = L[m]
    BY <1>1, <1>2
  <2>3. QED
    BY <1>1, <2>1, <2>2 DEF StillMade
<1>6. \A c, b \in Pcb : p_sib(b) = p_sib(c) => b = c
  BY NodeFacts
<1>7. ASSUME NEW c \in Pcb
      PROVE  Range(K[p_child(c)]) = {p_sib(b) : b \in {y \in Pcb : to[y] = c}}
  <2>1. p_child(c) \in Heads /\ (p_child(c) = n => c = prnt)
    BY NodeFacts
  <2>2. Range(L[p_child(c)]) = {p_sib(b) : b \in {y \in Pcb : par[y] = c}}
    BY DEF PcbOK
  <2>3. CASE c # prnt
    <3>1. K[p_child(c)] = L[p_child(c)]
      BY <1>2, <2>1, <2>3
    <3>2. \A y \in Pcb : to[y] = c <=> par[y] = c
      BY <1>3, <1>4, <2>3
    <3>3. QED
      BY <2>2, <3>1, <3>2
  <2>4. CASE c = prnt /\ new = prnt
    <3>1. Range(K[p_child(c)]) = Range(L[p_child(c)]) \cup {p_sib(p)}
      BY <1>2, <2>4
    <3>2. {y \in Pcb : to[y] = c} = {y \in Pcb : par[y] = c} \cup {p}
      BY <1>3, <1>4, <2>4
    <3>3. QED
      BY <2>2, <3>1, <3>2
  <2>5. CASE c = prnt /\ new = NULL
    <3>1. Range(K[p_child(c)]) = Range(L[p_child(c)]) \ {p_sib(p)}
      BY <1>2, <2>5
    <3>2. {y \in Pcb : to[y] = c} = {y \in Pcb : par[y] = c} \ {p}
      BY <1>3, <1>4, <2>5
    <3>3. QED
      BY <1>6, <2>2, <3>1, <3>2
  <2>6. QED
    BY <2>3, <2>4, <2>5
<1>8. ASSUME NEW c \in Pcb
      PROVE  /\ p_list(c) \in Range(K[pcbFree_h]) => to[c] = NULL /\ K[p_child(c)] = <<>>
             /\ p_list(c) \notin Range(K[pcbFree_h]) => g.next[p_child(c)] # NULL
  <2>1. /\ p_child(c) \in Heads /\ (p_child(c) = n => c = prnt)
        /\ K[pcbFree_h] = L[pcbFree_h]
    BY <1>1, <1>2, NodeFacts
  <2>2. /\ p_list(c) \in Range(L[pcbFree_h]) => par[c] = NULL /\ L[p_child(c)] = <<>>
        /\ p_list(c) \notin Range(L[pcbFree_h]) => h.next[p_child(c)] # NULL
    BY DEF PcbOK
  <2>3. h.next[p_child(c)] # NULL => g.next[p_child(c)] # NULL
    BY <2>1 DEF StillMade
  <2>4. ASSUME p_list(c) \in Range(L[pcbFree_h]) PROVE to[c] = NULL /\ c # prnt
    <3>1. CASE new = prnt
      BY <1>4, <2>2, <2>4, <3>1
    <3>2. CASE new = NULL
      <4>1. c # prnt
        <5>1. p_sib(p) \in Range(L[n])
          BY <3>2 DEF PcbOK
        <5>2. L[n] # <<>>
          BY <1>1, <5>1, PcbListFacts
        <5>3. QED
          BY <2>2, <2>4, <5>2
      <4>2. QED
        BY <1>4, <2>2, <2>4, <3>2, <4>1
    <3>3. QED
      BY <3>1, <3>2
  <2>5. QED
    BY <1>2, <2>1, <2>2, <2>3, <2>4
<1>9. Lists(g, Node, Heads, K)
  BY DEF K
<1>10. PcbOK(g, K, to)
  BY <1>4, <1>5, <1>7, <1>8, <1>9 DEF PcbOK
<1>11. QED
  BY <1>10 DEF K, to
\* An item that is linked nowhere joins a list, or an item leaves one.
LEMMA JoinIsMove ==
  ASSUME NEW h, NEW L, NEW par, PcbOK(h, L, par), NEW l \in Heads, NEW x \in Links,
         \A m \in Heads : \A j \in 1..Len(L[m]) : L[m][j] # x
  PROVE  /\ Moved(L, [L EXCEPT ![l] = Append(L[l], x)])
         /\ Moved(L, [L EXCEPT ![l] = <<x>> \o L[l]])
<1>1. ASSUME NEW k \in Heads PROVE x \notin Range(L[k])
  <2>1. x \in Range(L[k]) <=> \E i \in 1..Len(L[k]) : L[k][i] = x
    BY PcbListFacts
  <2>2. QED
    BY <2>1
<1>2. QED
  BY <1>1 DEF Moved

\* pcb.c:16-18, freePcb.
LEMMA FreePcbStep ==
  ASSUME NEW h, NEW L, NEW par, PcbOK(h, L, par), NEW p \in Pcb,
         p_list(p) \notin Range(L[pcbFree_h]), \A q \in Queue : p_list(p) \notin Range(L[q]),
         par[p] = NULL, list_empty(h, p_child(p))
  PROVE  Reaches(L, list_add(h, p_list(p), pcbFree_h), par)
<1> DEFINE n == pcbFree_h
           x == p_list(p)
           g == list_add(h, x, n)
           t == <<x>> \o L[n]
           K == [L EXCEPT ![n] = t]
<1>1. Lists(h, Node, Heads, L) /\ h.next[n] # NULL
  BY DEF PcbOK
<1>2. /\ n \in Heads /\ x \in Links /\ NULL \notin Node
      /\ p_child(p) \in Heads /\ p_child(p) \in Node
  BY NodeFacts
<1>3. \A m \in Heads : \A j \in 1..Len(L[m]) : L[m][j] # x
  BY PcbUnlinked
<1>4. x \in Node \ Heads
  BY <1>2, NodeFacts
<1>5. Lists(g, Node, Heads, K) /\ StillMade(h, g, Heads)
  <2>1. Lists(h, Node, Heads, L)
    BY <1>1
  <2>2. h.next[n] # NULL
    BY <1>1
  <2>3. n \in Heads
    BY <1>2
  <2>4. NULL \notin Node
    BY <1>2
  <2> HIDE DEF x, n
  <2>5. QED
    BY ONLY <2>1, <2>2, <2>3, <2>4, <1>3, <1>4, ListsFirst
<1>6. Range(t) = Range(L[n]) \cup {x}
  <2>1. n \in Heads
    BY <1>2
  <2>2. L[n] \in Seq(Links)
    BY <2>1, PcbListFacts
  <2>3. x \in Links
    BY <1>2
  <2> HIDE DEF x, n
  <2>4. QED
    BY ONLY <2>2, <2>3, RangeAdded
<1>7. h.next[p_child(p)] # NULL /\ L[p_child(p)] = <<>>
  <2>1. h.next[p_child(p)] # NULL
    BY <1>2 DEF list_empty
  <2>2. QED
    BY <1>1, <1>2, <2>1, HeadFacts
<1>8. ASSUME NEW c \in Pcb
      PROVE  /\ p_list(c) \in Range(t) => par[c] = NULL /\ L[p_child(c)] = <<>>
             /\ p_list(c) \notin Range(t) => g.next[p_child(c)] # NULL
  <2>1. p_list(c) = x => c = p
    BY NodeFacts
  <2>2. p_list(c) \in Range(t) => p_list(c) \in Range(L[n]) \/ c = p
    BY <1>6, <2>1
  <2>3. p_list(c) \notin Range(t) => h.next[p_child(c)] # NULL
    BY <1>6 DEF PcbOK
  <2>4. h.next[p_child(c)] # NULL => g.next[p_child(c)] # NULL
    BY <1>5, NodeFacts DEF StillMade
  <2> HIDE DEF t, g
  <2>5. QED
    BY <1>7, <2>2, <2>3, <2>4 DEF PcbOK
<1>9. PcbOK(g, K, par)
  <2>1. n \in Queue \cup {pcbFree_h} /\ Range(t) \subseteq Range(L[n]) \cup {p_list(p)}
    BY <1>6
  <2>2. Lists(g, Node, Heads, [L EXCEPT ![n] = t])
    BY <1>5
  <2> HIDE DEF t, g
  <2>3. QED
    BY <1>5, <1>8, <2>1, <2>2, QueueMoved DEF n
<1>10. Moved(L, K)
  BY <1>2, <1>3, JoinIsMove
<1>11. QED
  BY <1>9, <1>10 DEF Reaches

\* pcb.c:68-70, insertProcQ.
LEMMA InsertProcQStep ==
  ASSUME NEW h, NEW L, NEW par, PcbOK(h, L, par), NEW p \in Pcb, NEW q \in Queue,
         p_list(p) \notin Range(L[pcbFree_h]), \A m \in Queue : p_list(p) \notin Range(L[m])
  PROVE  Reaches(L, list_add_tail(h, p_list(p), q), par)
<1> DEFINE x == p_list(p)
           g == list_add_tail(h, x, q)
           t == Append(L[q], x)
           K == [L EXCEPT ![q] = t]
<1>1. Lists(h, Node, Heads, L) /\ h.next[q] # NULL
  BY DEF PcbOK
<1>2. q \in Heads /\ x \in Links /\ NULL \notin Node /\ q # pcbFree_h
  BY NodeFacts, PcbAssumption
<1>3. \A m \in Heads : \A j \in 1..Len(L[m]) : L[m][j] # x
  BY PcbUnlinked
<1>4. x \in Node \ Heads
  BY <1>2, NodeFacts
<1>5. Lists(g, Node, Heads, K) /\ StillMade(h, g, Heads)
  <2>1. Lists(h, Node, Heads, L)
    BY <1>1
  <2>2. h.next[q] # NULL
    BY <1>1
  <2>3. q \in Heads
    BY <1>2
  <2>4. NULL \notin Node
    BY <1>2
  <2> HIDE DEF x
  <2>5. QED
    BY ONLY <2>1, <2>2, <2>3, <2>4, <1>3, <1>4, ListsLast
<1>6. Range(t) = Range(L[q]) \cup {x}
  <2> DEFINE s == L[q]
  <2>1. q \in Heads
    BY <1>2
  <2>2. s \in Seq(Links)
    BY <2>1, PcbListFacts
  <2>3. x \in Links
    BY <1>2
  <2> HIDE DEF x, s
  <2>4. Range(Append(s, x)) = Range(s) \cup {x} /\ Range(<<x>> \o s) = Range(s) \cup {x}
    BY ONLY <2>2, <2>3, RangeAdded
  <2>5. QED
    BY <2>4 DEF s
<1>7. PcbOK(g, K, par)
  <2>1. Range(t) \subseteq Range(L[q]) \cup {p_list(p)}
    BY <1>6
  <2>2. Lists(g, Node, Heads, [L EXCEPT ![q] = t])
    BY <1>5
  <2> HIDE DEF t, g
  <2>3. QED
    BY <1>2, <1>5, <2>1, <2>2, QueueMoved
<1>8. Moved(L, K)
  BY <1>2, <1>3, JoinIsMove
<1>9. QED
  BY <1>7, <1>8 DEF Reaches

\* What taking the item at k out of the list of n does.
TakenOut(h, L, n, x, k) ==
  LET t == Without(L[n], k)
      K == [L EXCEPT ![n] = t]
      g == list_del(h, x)
  IN  /\ L[n][k] = x
      /\ Lists(g, Node, Heads, K) /\ StillMade(h, g, Heads) /\ Moved(L, K)
      /\ Range(t) = Range(L[n]) \ {x}
      /\ \A m \in Heads : \A j \in 1..Len(K[m]) : K[m][j] # x

\* It can be done to any item.
LEMMA TakeOut ==
  ASSUME NEW h, NEW L, NEW par, PcbOK(h, L, par), NEW n \in Heads, NEW x \in Range(L[n])
  PROVE  \E k \in 1..Len(L[n]) : TakenOut(h, L, n, x, k)
<1>1. PICK k \in 1..Len(L[n]) : L[n][k] = x
  BY PcbListFacts
<1> DEFINE t == Without(L[n], k)
           K == [L EXCEPT ![n] = t]
           g == list_del(h, x)
<1>2. Lists(g, Node, Heads, K) /\ StillMade(h, g, Heads)
  <2>1. Lists(h, Node, Heads, L) /\ NULL \notin Node
    BY NodeFacts DEF PcbOK
  <2>2. QED
    BY <1>1, <2>1, ListsWithout
<1>3. Moved(L, K)
  BY DEF Moved
<1>4. Range(t) = Range(L[n]) \ {x}
  <2>1. L[n] \in Seq(Links) /\ Distinct(L[n])
    BY PcbListFacts
  <2>2. QED
    BY <1>1, <2>1, RangeWithout
<1>5. ASSUME NEW m \in Heads, NEW j \in 1..Len(K[m]) PROVE K[m][j] # x
  <2>1. K[n] = t /\ \A i \in Heads \ {n} : K[i] = L[i]
    BY DEF PcbOK, Lists
  <2>2. CASE m = n
    <3>1. K[m] \in Seq(Node)
      <4>1. Lists(g, Node, Heads, K)
        BY <1>2
      <4> HIDE DEF g, K
      <4>2. QED
        BY <4>1, ListFacts
    <3>2. K[m][j] \in Range(K[m])
      BY <3>1, RangePlace
    <3>3. QED
      BY <1>4, <2>1, <2>2, <3>2
  <2>3. CASE m # n
    BY <1>1, <2>1, <2>3 DEF PcbOK, Lists, Separate
  <2>4. QED
    BY <2>2, <2>3
<1>6. TakenOut(h, L, n, x, k)
  BY <1>1, <1>2, <1>3, <1>4, <1>5 DEF TakenOut
<1>7. QED
  BY <1>6

\* pcb.c:81-102, removeProcQ and outProcQ.
LEMMA TakeFromQueueStep ==
  ASSUME NEW h, NEW L, NEW par, PcbOK(h, L, par), NEW q \in Queue, NEW x \in Range(L[q])
  PROVE  Reaches(L, list_del(h, x), par)
<1> DEFINE g == list_del(h, x)
<1>1. q \in Heads /\ q # pcbFree_h
  BY NodeFacts, PcbAssumption
<1>2. PICK k \in 1..Len(L[q]) : TakenOut(h, L, q, x, k)
  <2>1. q \in Heads
    BY <1>1
  <2>2. QED
    BY <2>1, TakeOut
<1> DEFINE t == Without(L[q], k)
           K == [L EXCEPT ![q] = t]
<1>3. PcbOK(g, K, par)
  <2>1. PICK p \in Pcb : TRUE
    BY PcbAssumption DEF Pcb
  <2>2. Range(t) \subseteq Range(L[q]) \cup {p_list(p)}
    BY <1>2 DEF TakenOut
  <2>3. Lists(g, Node, Heads, [L EXCEPT ![q] = t]) /\ StillMade(h, g, Heads)
    BY <1>2 DEF TakenOut
  <2> HIDE DEF t, g
  <2>4. QED
    BY <1>1, <2>2, <2>3, QueueMoved
<1>4. Moved(L, K)
  BY <1>2 DEF TakenOut
<1>5. QED
  BY <1>3, <1>4 DEF Reaches
\* pcb.c:22-34, allocPcb.
LEMMA AllocPcbStep ==
  ASSUME NEW h, NEW L, NEW par, PcbOK(h, L, par), NEW p \in Pcb,
         list_next(h, pcbFree_h) = p_list(p)
  PROVE  LET taken == list_del(h, p_list(p))
             sib   == INIT_LIST_HEAD(INIT_LIST_HEAD(taken, p_list(p)), p_sib(p))
         IN  Reaches(L, INIT_LIST_HEAD(sib, p_child(p)), [par EXCEPT ![p] = NULL])
<1> DEFINE n == pcbFree_h
           x == p_list(p)
           taken == list_del(h, x)
           alone == INIT_LIST_HEAD(taken, x)
           sib == INIT_LIST_HEAD(alone, p_sib(p))
           g == INIT_LIST_HEAD(sib, p_child(p))
<1>1. Lists(h, Node, Heads, L) /\ h.next[n] # NULL
  BY DEF PcbOK
<1>2. /\ n \in Heads /\ x \in Links /\ NULL \notin Node /\ x \in Node \ Heads
      /\ p_child(p) \in Heads /\ p_child(p) \in Node /\ p_child(p) # n
      /\ p_sib(p) \in Node \ Heads
  BY NodeFacts
<1>3. x \in Range(L[n])
  <2>1. list_next(h, n) = IF L[n] = <<>> THEN NULL ELSE L[n][1]
    BY <1>1, <1>2, HeadFacts
  <2>2. L[n] # <<>> => 1 \in 1..Len(L[n])
    BY <1>1, <1>2, HeadFacts
  <2>3. L[n] # <<>> /\ L[n][1] = x
    BY <1>2, <2>1
  <2>4. L[n] \in Seq(Links)
    BY <1>2, PcbListFacts
  <2>5. QED
    BY <2>2, <2>3, <2>4, RangePlace
<1>4. PICK k \in 1..Len(L[n]) : TakenOut(h, L, n, x, k)
  <2>1. n \in Heads
    BY <1>2
  <2> HIDE DEF n, x
  <2>2. QED
    BY <1>3, <2>1, TakeOut
<1> DEFINE t == Without(L[n], k)
           K == [L EXCEPT ![n] = t]
<1>5. /\ Lists(taken, Node, Heads, K) /\ StillMade(h, taken, Heads) /\ Moved(L, K)
      /\ Range(t) = Range(L[n]) \ {x}
      /\ \A m \in Heads : \A j \in 1..Len(K[m]) : K[m][j] # x
  BY <1>4 DEF TakenOut
<1>6. K[n] = t /\ \A m \in Heads \ {n} : K[m] = L[m]
  BY <1>1, <1>2 DEF Lists
<1>7. par[p] = NULL /\ L[p_child(p)] = <<>>
  BY <1>3 DEF PcbOK
<1>8. \A m \in Heads : \A j \in 1..Len(K[m]) : K[m][j] # p_sib(p)
  <2>1. ASSUME NEW m \in Heads PROVE p_sib(p) \notin Range(L[m])
    <3>1. \A j \in 1..Len(L[m]) : L[m][j] # p_sib(p)
      BY <1>7, PcbUnlinked
    <3>2. p_sib(p) \in Range(L[m]) <=> \E j \in 1..Len(L[m]) : L[m][j] = p_sib(p)
      BY PcbListFacts
    <3>3. QED
      BY <3>1, <3>2
  <2>2. ASSUME NEW m \in Heads PROVE p_sib(p) \notin Range(K[m])
    BY <1>5, <1>6, <2>1
  <2>3. ASSUME NEW m \in Heads, NEW j \in 1..Len(K[m]) PROVE K[m][j] \in Range(K[m])
    <3>1. Lists(taken, Node, Heads, K)
      BY <1>5
    <3> HIDE DEF taken, K
    <3>2. K[m] \in Seq(Node)
      BY <3>1, ListFacts
    <3>3. QED
      BY <3>2, RangePlace
  <2>4. QED
    BY <2>2, <2>3
<1>9. K[p_child(p)] = <<>>
  BY <1>2, <1>6, <1>7
<1> HIDE DEF K
<1>10. Lists(alone, Node, Heads, K) /\ StillMade(taken, alone, Heads)
  <2>1. Lists(taken, Node, Heads, K) /\ x \in Node /\ NULL \notin Node /\ x \notin Heads
    BY <1>2, <1>5
  <2> HIDE DEF taken, x
  <2>2. QED
    BY <1>5, <2>1, ListsInitialised
<1>11. Lists(sib, Node, Heads, K) /\ StillMade(alone, sib, Heads)
  <2>1. p_sib(p) \in Node /\ NULL \notin Node /\ p_sib(p) \notin Heads
    BY <1>2
  <2> HIDE DEF alone
  <2>2. QED
    BY <1>8, <1>10, <2>1, ListsInitialised
<1>12. /\ Lists(g, Node, Heads, K) /\ StillMade(sib, g, Heads)
       /\ g.next[p_child(p)] # NULL
  <2>1. p_child(p) \in Node /\ NULL \notin Node
    BY <1>2
  <2>2. \A m \in Heads : \A j \in 1..Len(K[m]) : K[m][j] # p_child(p)
    <3>1. Lists(sib, Node, Heads, K)
      BY <1>11
    <3> HIDE DEF sib
    <3>2. \A m \in Heads : \A j \in 1..Len(K[m]) : K[m][j] \in Node \ Heads
      BY <3>1, ListFacts
    <3>3. QED
      BY <1>2, <3>2
  <2> HIDE DEF sib
  <2>3. QED
    BY <1>9, <1>11, <2>1, <2>2, ListsInitialised
<1>13. StillMade(h, g, Heads)
  <2> HIDE DEF taken, alone, sib, g
  <2>1. QED
    BY <1>5, <1>10, <1>11, <1>12 DEF StillMade
<1>14. ASSUME NEW c \in Pcb
       PROVE  /\ p_list(c) \in Range(t) => par[c] = NULL /\ L[p_child(c)] = <<>>
              /\ p_list(c) \notin Range(t) => g.next[p_child(c)] # NULL
  <2>1. p_list(c) = x => c = p
    BY NodeFacts
  <2>2. /\ p_list(c) \in Range(L[n]) => par[c] = NULL /\ L[p_child(c)] = <<>>
        /\ p_list(c) \notin Range(L[n]) => h.next[p_child(c)] # NULL
    BY DEF PcbOK
  <2>3. p_child(c) \in Heads
    BY NodeFacts
  <2> HIDE DEF t, g
  <2>4. QED
    BY <1>5, <1>12, <1>13, <2>1, <2>2, <2>3 DEF StillMade
<1>15. PcbOK(g, K, par)
  <2>1. n \in Queue \cup {pcbFree_h} /\ Range(t) \subseteq Range(L[n]) \cup {p_list(p)}
    BY <1>5
  <2>2. Lists(g, Node, Heads, [L EXCEPT ![n] = t])
    BY <1>12 DEF K
  <2> HIDE DEF t, g
  <2>3. QED
    BY <1>13, <1>14, <2>1, <2>2, QueueMoved DEF n, K
<1>16. [par EXCEPT ![p] = NULL] = par
  BY <1>7 DEF PcbOK
<1>17. Reaches(L, g, par)
  BY <1>5, <1>15 DEF Reaches
<1>18. QED
  BY <1>16, <1>17

\* pcb.c:110-116, insertChild.
LEMMA InsertChildStep ==
  ASSUME NEW h, NEW L, NEW par, PcbOK(h, L, par), NEW p \in Pcb, NEW prnt \in Pcb,
         p_list(p) \notin Range(L[pcbFree_h]), p_list(prnt) \notin Range(L[pcbFree_h]),
         par[p] = NULL
  PROVE  Reaches(L, list_add_tail(h, p_sib(p), p_child(prnt)), [par EXCEPT ![p] = prnt])
<1> DEFINE x == p_sib(p)
           n == p_child(prnt)
           g == list_add_tail(h, x, n)
           t == Append(L[n], x)
           K == [L EXCEPT ![n] = t]
<1>1. Lists(h, Node, Heads, L) /\ h.next[n] # NULL
  BY DEF PcbOK
<1>2. n \in Heads /\ x \in Links /\ NULL \notin Node
  BY NodeFacts
<1>3. \A m \in Heads : \A j \in 1..Len(L[m]) : L[m][j] # x
  BY PcbUnlinked
<1>4. x \in Node \ Heads
  BY <1>2, NodeFacts
<1>5. Lists(g, Node, Heads, K) /\ StillMade(h, g, Heads)
  <2>1. Lists(h, Node, Heads, L)
    BY <1>1
  <2>2. h.next[n] # NULL
    BY <1>1
  <2>3. n \in Heads
    BY <1>2
  <2>4. NULL \notin Node
    BY <1>2
  <2> HIDE DEF x, n
  <2>5. QED
    BY ONLY <2>1, <2>2, <2>3, <2>4, <1>3, <1>4, ListsLast
<1>6. Range(t) = Range(L[n]) \cup {x}
  <2> DEFINE s == L[n]
  <2>1. n \in Heads
    BY <1>2
  <2>2. s \in Seq(Links)
    BY <2>1, PcbListFacts
  <2>3. x \in Links
    BY <1>2
  <2> HIDE DEF x, s
  <2>4. Range(Append(s, x)) = Range(s) \cup {x} /\ Range(<<x>> \o s) = Range(s) \cup {x}
    BY ONLY <2>2, <2>3, RangeAdded
  <2>5. QED
    BY <2>4 DEF s
<1>7. PcbOK(g, K, [par EXCEPT ![p] = prnt])
  <2>1. prnt \in {prnt, NULL} /\ prnt # NULL
    BY NodeFacts
  <2>2. Lists(g, Node, Heads, [L EXCEPT ![p_child(prnt)] = t]) /\ StillMade(h, g, Heads)
    BY <1>5
  <2>3. Range(t) = Range(L[p_child(prnt)]) \cup {p_sib(p)}
    BY <1>6
  <2> HIDE DEF t, g
  <2>4. QED
    BY <2>1, <2>2, <2>3, ChildMoved
<1>8. Moved(L, K)
  BY <1>2, <1>3, JoinIsMove
<1>9. QED
  BY <1>7, <1>8 DEF Reaches
\* A child leaves the list of its parent and stands alone.
LEMMA TakeChildStep ==
  ASSUME NEW h, NEW L, NEW par, PcbOK(h, L, par), NEW p \in Pcb, NEW c \in Pcb,
         p_sib(c) \in Range(L[p_child(p)])
  PROVE  Reaches(L, INIT_LIST_HEAD(list_del(h, p_sib(c)), p_sib(c)),
                 [par EXCEPT ![c] = NULL])
<1> DEFINE n == p_child(p)
           x == p_sib(c)
           cut == list_del(h, x)
           g == INIT_LIST_HEAD(cut, x)
<1>1. n \in Heads /\ x \in Node /\ x \notin Heads /\ NULL \notin Node
  BY NodeFacts
<1>2. PICK k \in 1..Len(L[n]) : TakenOut(h, L, n, x, k)
  <2>1. n \in Heads /\ x \in Range(L[n])
    BY <1>1
  <2> HIDE DEF n, x
  <2>2. QED
    BY <2>1, TakeOut
<1> DEFINE t == Without(L[n], k)
           K == [L EXCEPT ![n] = t]
<1>3. /\ Lists(cut, Node, Heads, K) /\ StillMade(h, cut, Heads) /\ Moved(L, K)
      /\ Range(t) = Range(L[n]) \ {x}
      /\ \A m \in Heads : \A j \in 1..Len(K[m]) : K[m][j] # x
  BY <1>2 DEF TakenOut
<1>4. Lists(g, Node, Heads, K) /\ StillMade(cut, g, Heads)
  <2> HIDE DEF cut, K, x
  <2>1. QED
    BY <1>1, <1>3, ListsInitialised
<1>5. StillMade(h, g, Heads)
  <2> HIDE DEF cut, g
  <2>1. QED
    BY <1>3, <1>4 DEF StillMade
<1>6. par[c] = p
  <2>1. PICK b \in Pcb : par[b] = p /\ p_sib(b) = p_sib(c)
    BY DEF PcbOK
  <2>2. QED
    BY <2>1, NodeFacts
<1>7. PcbOK(g, K, [par EXCEPT ![c] = NULL])
  <2>1. NULL \in {p, NULL} /\ NULL # p
    BY NodeFacts
  <2>2. Lists(g, Node, Heads, [L EXCEPT ![p_child(p)] = t])
    BY <1>4
  <2>3. Range(t) = Range(L[p_child(p)]) \ {p_sib(c)}
    BY <1>3
  <2> HIDE DEF t, g
  <2>4. QED
    BY <1>5, <1>6, <2>1, <2>2, <2>3, ChildMoved
<1>8. QED
  BY <1>3, <1>7 DEF Reaches

\* pcb.c:121-135, removeChild.
LEMMA RemoveChildStep ==
  ASSUME NEW h, NEW L, NEW par, PcbOK(h, L, par), NEW p \in Pcb, NEW c \in Pcb,
         list_next(h, p_child(p)) = p_sib(c)
  PROVE  LET moved == [h EXCEPT !.next[p_child(p)] = h.next[p_sib(c)]]
         IN  Reaches(L, INIT_LIST_HEAD(list_del(moved, p_sib(c)), p_sib(c)),
                     [par EXCEPT ![c] = NULL])
<1> DEFINE n == p_child(p)
           x == p_sib(c)
           M == {n} \cup Range(L[n])
<1>1. Lists(h, Node, Heads, L) /\ h \in Heap(Node)
  BY DEF PcbOK, Lists
<1>2. n \in Heads /\ n \in Node /\ x \in Node /\ NULL \notin Node
  BY NodeFacts
<1>3. h.next[n] = x /\ h.next[n] # n /\ h.next[n] # NULL
  BY <1>2 DEF list_next, list_empty
<1>4. x \in Range(L[n])
  <2>1. L[n] # <<>> => 1 \in 1..Len(L[n]) /\ h.next[n] = L[n][1]
    BY <1>1, <1>2, <1>3, HeadFacts
  <2>2. list_empty(h, n) <=> L[n] = <<>>
    BY <1>1, <1>2, <1>3, HeadFacts
  <2>3. L[n] \in Seq(Links)
    BY <1>2, PcbListFacts
  <2>4. QED
    BY <1>3, <2>1, <2>2, <2>3, RangePlace DEF list_empty
<1>5. Linked(h, M) /\ M \subseteq Node
  <2>1. Linked(h, M)
    BY <1>1, <1>2, <1>3, ListsLinked
  <2>2. Range(L[n]) \subseteq Links
    BY <1>2, PcbListFacts
  <2>3. QED
    BY <1>2, <2>1, <2>2, NodeFacts
<1>6. list_del([h EXCEPT !.next[n] = h.next[x]], x) = list_del(h, x)
  <2>1. n \in M /\ M \in SUBSET Node
    BY <1>5
  <2> HIDE DEF n, M, x
  <2>2. list_del([h EXCEPT !.next[n] = h.next[h.next[n]]], h.next[n]) = list_del(h, h.next[n])
    BY <1>1, <1>3, <1>5, <2>1, MoveIsRedundant
  <2>3. QED
    BY <1>3, <2>2
<1>7. Reaches(L, INIT_LIST_HEAD(list_del(h, x), x), [par EXCEPT ![c] = NULL])
  BY <1>4, TakeChildStep
<1>8. QED
  BY <1>6, <1>7

\* pcb.c:139-153, outChild.
LEMMA OutChildStep ==
  ASSUME NEW h, NEW L, NEW par, PcbOK(h, L, par), NEW p \in Pcb, par[p] # NULL,
         NEW next_sib
  PROVE  LET child   == p_child(par[p])
             cut     == list_del(h, p_sib(p))
             patched == IF cut.next[child] = p_sib(p)
                          THEN [cut EXCEPT !.next[child] = next_sib] ELSE cut
         IN  Reaches(L, INIT_LIST_HEAD(patched, p_sib(p)), [par EXCEPT ![p] = NULL])
<1> DEFINE n == p_child(par[p])
           x == p_sib(p)
           M == {n} \cup Range(L[n])
<1>1. Lists(h, Node, Heads, L) /\ h \in Heap(Node) /\ par[p] \in Pcb
  BY DEF PcbOK, Lists
<1>2. n \in Heads /\ n \in Node /\ x \in Node /\ x # n /\ NULL \notin Node
  BY <1>1, NodeFacts
<1>3. x \in Range(L[n])
  BY <1>1 DEF PcbOK
<1>4. h.next[n] # NULL
  <2>1. L[n] # <<>>
    BY <1>2, <1>3, PcbListFacts
  <2>2. QED
    BY <1>1, <1>2, <2>1 DEF Lists
<1>5. Linked(h, M) /\ M \subseteq Node
  <2>1. Linked(h, M)
    BY <1>1, <1>2, <1>4, ListsLinked
  <2>2. Range(L[n]) \subseteq Links
    BY <1>2, PcbListFacts
  <2>3. QED
    BY <1>2, <2>1, <2>2, NodeFacts
<1>6. list_del(h, x).next[n] # x
  <2>1. n \in M /\ x \in M /\ M \in SUBSET Node
    BY <1>3, <1>5
  <2> HIDE DEF n, M, x
  <2>2. QED
    BY <1>1, <1>2, <1>5, <2>1, PatchNeverApplies
<1>7. Reaches(L, INIT_LIST_HEAD(list_del(h, x), x), [par EXCEPT ![p] = NULL])
  BY <1>1, <1>3, TakeChildStep
<1>8. QED
  BY <1>6, <1>7
\* Every step of pcb.c moves one item.
LEMMA PcbSteps == PcbInv /\ PcbNext => Reaches(listsNow, heap', p_parent')
<1> SUFFICES ASSUME PcbInv, PcbNext PROVE Reaches(listsNow, heap', p_parent')
  OBVIOUS
<1> DEFINE L == listsNow
<1>1. PcbOK(heap, L, p_parent)
  BY DEF PcbInv
<1>2. \A n \in Heads : L[n] = ListAt(n)
  BY DEF listsNow
<1>3. /\ \A p \in Pcb : Free(p) <=> p_list(p) \in Range(L[pcbFree_h])
      /\ \A p \in Pcb : Queued(p) <=> \E q \in Queue : p_list(p) \in Range(L[q])
      /\ \A p \in Pcb, q \in Queue : IsIn(p_list(p), q) => p_list(p) \in Range(L[q])
  BY <1>2, NodeFacts DEF Free, Queued, IsIn
<1>4. PICK p \in Pcb :
        \/ freePcb(p) \/ allocPcb(p)
        \/ removeChild(p) \/ outChild(p)
        \/ \E q \in Queue : insertProcQ(q, p) \/ outProcQ(q, p) \/ removeProcQ(q)
        \/ \E prnt \in Pcb : insertChild(prnt, p)
  BY DEF PcbNext
<1> HIDE DEF L
<1>5. CASE freePcb(p)
  <2>1. /\ p_list(p) \notin Range(L[pcbFree_h])
        /\ \A q \in Queue : p_list(p) \notin Range(L[q])
    BY <1>3, <1>5 DEF freePcb
  <2>2. /\ p_parent[p] = NULL /\ list_empty(heap, p_child(p))
        /\ heap' = list_add(heap, p_list(p), pcbFree_h) /\ p_parent' = p_parent
    BY <1>5 DEF freePcb
  <2>3. Reaches(L, list_add(heap, p_list(p), pcbFree_h), p_parent)
    BY <1>1, <2>1, <2>2, FreePcbStep
  <2>4. QED
    BY <2>2, <2>3 DEF L
<1>6. CASE allocPcb(p)
  BY <1>1, <1>6, AllocPcbStep DEF allocPcb, L
<1>7. CASE removeChild(p)
  <2>1. PICK c \in Pcb :
          /\ list_next(heap, p_child(p)) = p_sib(c)
          /\ heap' = INIT_LIST_HEAD(list_del([heap EXCEPT !.next[p_child(p)] = heap.next[p_sib(c)]],
                                             p_sib(c)), p_sib(c))
          /\ p_parent' = [p_parent EXCEPT ![c] = NULL]
    BY <1>7 DEF removeChild
  <2>2. QED
    BY <1>1, <2>1, RemoveChildStep DEF L
<1>8. CASE outChild(p)
  BY <1>1, <1>8, OutChildStep DEF outChild, L
<1>9. ASSUME NEW q \in Queue, insertProcQ(q, p)
      PROVE  Reaches(L, heap', p_parent')
  <2>1. /\ p_list(p) \notin Range(L[pcbFree_h])
        /\ \A m \in Queue : p_list(p) \notin Range(L[m])
    BY <1>3, <1>9 DEF insertProcQ
  <2>2. heap' = list_add_tail(heap, p_list(p), q) /\ p_parent' = p_parent
    BY <1>9 DEF insertProcQ
  <2>3. Reaches(L, list_add_tail(heap, p_list(p), q), p_parent)
    BY <1>1, <2>1, InsertProcQStep
  <2>4. QED
    BY <2>2, <2>3
<1>10. ASSUME NEW q \in Queue, outProcQ(q, p)
       PROVE  Reaches(L, heap', p_parent')
  <2>1. p_list(p) \in Range(L[q])
    BY <1>3, <1>10 DEF outProcQ
  <2>2. heap' = list_del(heap, p_list(p)) /\ p_parent' = p_parent
    BY <1>10 DEF outProcQ
  <2>3. Reaches(L, list_del(heap, p_list(p)), p_parent)
    BY <1>1, <2>1, TakeFromQueueStep
  <2>4. QED
    BY <2>2, <2>3
<1>11. ASSUME NEW q \in Queue, removeProcQ(q)
       PROVE  Reaches(L, heap', p_parent')
  <2>1. Lists(heap, Node, Heads, L) /\ heap.next[q] # NULL /\ q \in Heads /\ NULL \notin Node
    BY <1>1, NodeFacts DEF PcbOK
  <2>2. /\ ~list_empty(heap, q)
        /\ heap' = list_del(heap, heap.next[q]) /\ p_parent' = p_parent
    BY <1>11 DEF removeProcQ
  <2>3. heap.next[q] \in Range(L[q])
    <3>1. list_empty(heap, q) <=> L[q] = <<>>
      BY <2>1, HeadFacts
    <3>2. L[q] # <<>> => 1 \in 1..Len(L[q]) /\ heap.next[q] = L[q][1]
      BY <2>1, HeadFacts
    <3>3. L[q] \in Seq(Links)
      BY <1>1, <2>1, PcbListFacts
    <3>4. QED
      BY <2>2, <3>1, <3>2, <3>3, RangePlace
  <2>4. Reaches(L, list_del(heap, heap.next[q]), p_parent)
    BY <1>1, <2>3, TakeFromQueueStep
  <2>5. QED
    BY <2>2, <2>4
<1>12. ASSUME NEW prnt \in Pcb, insertChild(prnt, p)
       PROVE  Reaches(L, heap', p_parent')
  <2>1. p_list(p) \notin Range(L[pcbFree_h]) /\ p_list(prnt) \notin Range(L[pcbFree_h])
    BY <1>3, <1>12 DEF insertChild
  <2>2. /\ p_parent[p] = NULL
        /\ heap' = list_add_tail(heap, p_sib(p), p_child(prnt))
        /\ p_parent' = [p_parent EXCEPT ![p] = prnt]
    BY <1>12 DEF insertChild
  <2>3. Reaches(L, list_add_tail(heap, p_sib(p), p_child(prnt)), [p_parent EXCEPT ![p] = prnt])
    BY <1>1, <2>1, <2>2, InsertChildStep
  <2>4. QED
    BY <2>2, <2>3
<1>13. QED
  BY <1>4, <1>5, <1>6, <1>7, <1>8, <1>9, <1>10, <1>11, <1>12 DEF L

\* The lists after a step are those it leads to.
LEMMA PcbReached ==
  ASSUME PcbInv, Reaches(listsNow, heap', p_parent')
  PROVE  PcbInv' /\ Moved(listsNow, listsNow')
<1>1. PICK K : PcbOK(heap', K, p_parent') /\ Moved(listsNow, K)
  BY DEF Reaches
<1>2. K = [n \in Heads |-> IF heap'.next[n] # NULL THEN Entries(heap', n) ELSE <<>>]
  BY <1>1, PcbView
<1>3. listsNow' = K
  <2>1. listsNow' = [n \in Heads |-> (ListAt(n))']
    BY DEF listsNow
  <2>2. \A n \in Heads :
          (ListAt(n))' = IF heap'.next[n] # NULL THEN Entries(heap', n) ELSE <<>>
    BY DEF ListAt, Made
  <2>3. QED
    BY <1>2, <2>1, <2>2
<1>4. PcbInv'
  BY <1>1, <1>3 DEF PcbInv
<1>5. QED
  BY <1>1, <1>3, <1>4
-----------------------------------------------------------------------------
\* initPcbs and initMsgs alike: f is the heap before and after each element of a
\* pool is added to the free list, beginning with none.
Adds(f, size, item, free, zero) ==
  f = [i \in 0..size |-> IF i = 0 THEN zero ELSE list_add(f[i - 1], item[i], free)]

\* Step by step.
LEMMA AddsSteps ==
  ASSUME NEW size \in Nat, NEW item, NEW free, NEW zero,
         NEW f, Adds(f, size, item, free, zero)
  PROVE  f[0] = zero /\ \A i \in 1..size : f[i] = list_add(f[i - 1], item[i], free)
<1> DEFINE body == [i \in 0..size |-> IF i = 0 THEN zero
                                      ELSE list_add(f[i - 1], item[i], free)]
<1>1. f = body
  BY DEF Adds
<1>2. body[0] = zero
  OBVIOUS
<1>3. ASSUME NEW i \in 1..size PROVE body[i] = list_add(f[i - 1], item[i], free)
  OBVIOUS
<1> HIDE DEF body
<1>4. QED
  BY <1>1, <1>2, <1>3

\* The items in the order of a list to whose head each was added.
Reversed(item, size) == [i \in 1..size |-> item[(size + 1) - i]]

\* list_add never leaves the heap, not even to a list that was not made.
LEMMA AddInHeap ==
  ASSUME NEW N, NEW h \in Heap(N), NEW x \in N, NEW n \in N
  PROVE  list_add(h, x, n) \in Heap(N)
<1>1. h.next[n] \in N \cup {NULL}
  BY DEF Heap
<1>2. QED
  BY <1>1 DEF list_add, AddBetween, Heap

\* There is such a sequence of heaps.
LEMMA AddsExist ==
  ASSUME NEW N, NEW size \in Nat, NEW item \in [1..size -> N], NEW free \in N,
         NEW zero \in Heap(N)
  PROVE  \E f : Adds(f, size, item, free, zero)
<1> DEFINE X == Heap(N)
           up(i, h) == IF i + 1 \in 1..size THEN list_add(h, item[i + 1], free) ELSE h
           step == [i \in Nat |-> [h \in X |-> up(i, h)]]
           body(g) == [i \in 0..size |->
                         IF i = 0 THEN zero ELSE list_add(g[i - 1], item[i], free)]
<1>1. step \in [Nat -> [X -> X]]
  <2> SUFFICES ASSUME NEW i \in Nat, NEW h \in X PROVE up(i, h) \in X
    OBVIOUS
  <2>1. QED
    BY AddInHeap
<1>2. PICK F \in [Nat -> X] : Recurs(F, zero, step)
  <2>1. zero \in X
    OBVIOUS
  <2> HIDE DEF step, X
  <2>2. QED
    BY ONLY <1>1, <2>1, Recursion
<1>3. F[0] = zero /\ \A i \in Nat : F[i + 1] = up(i, F[i])
  <2>1. \A i \in Nat : F[i] \in X /\ F[i + 1] = step[i][F[i]]
    <3> HIDE DEF X, step
    <3>1. QED
      BY <1>2 DEF Recurs
  <2>2. \A i \in Nat : step[i][F[i]] = up(i, F[i])
    <3> HIDE DEF X, up
    <3>1. QED
      BY <2>1
  <2>3. QED
    BY <1>2, <2>1, <2>2 DEF Recurs
<1> DEFINE G == [i \in 0..size |-> F[i]]
<1>4. G = body(G)
  <2>1. ASSUME NEW i \in 0..size
        PROVE  F[i] = IF i = 0 THEN zero ELSE list_add(G[i - 1], item[i], free)
    <3>1. CASE i = 0
      BY <3>1, <1>3
    <3>2. CASE i # 0
      <4>1. i - 1 \in Nat /\ i - 1 \in 0..size /\ (i - 1) + 1 = i /\ i \in 1..size
        BY <3>2
      <4>2. F[i] = list_add(F[i - 1], item[i], free)
        BY <4>1, <1>3
      <4>3. QED
        BY <3>2, <4>1, <4>2
    <3>3. QED
      BY <3>1, <3>2
  <2>2. QED
    BY <2>1
<1>5. Adds(G, size, item, free, zero)
  <2> HIDE DEF G
  <2>1. QED
    BY <1>4 DEF Adds
<1>6. QED
  <2> HIDE DEF G
  <2>1. QED
    BY <1>5

\* The list before and after an item more is added at its head.
OneMore(M, item, i) ==
  /\ Reversed(item, i) \in Seq(M) /\ Reversed(item, i + 1) \in Seq(M)
  /\ Reversed(item, i + 1) = <<item[i + 1]>> \o Reversed(item, i)
  /\ Range(Reversed(item, i)) = {item[j] : j \in 1..i}

LEMMA ReversedGrows ==
  ASSUME NEW M, NEW size \in Nat, NEW item \in [1..size -> M], NEW i \in 0..(size - 1)
  PROVE  OneMore(M, item, i)
<1> DEFINE s == Reversed(item, i)
           t == Reversed(item, i + 1)
           one == <<item[i + 1]>>
<1>1. s \in [1..i -> M] /\ t \in [1..(i + 1) -> M]
  BY DEF Reversed
<1>2. s \in Seq(M) /\ t \in Seq(M) /\ i \in Nat /\ i + 1 \in Nat
  BY <1>1, SeqDef
<1>3. Len(s) = i /\ Len(t) = i + 1
  BY <1>1, <1>2, LenProperties
<1>4. one \in Seq(M) /\ Len(one) = 1 /\ one[1] = item[i + 1]
  BY EmptySeq
<1>5. /\ \A j \in 1..i : s[j] = item[(i + 1) - j]
      /\ \A j \in 1..(i + 1) : t[j] = item[((i + 1) + 1) - j]
  BY DEF Reversed
<1> HIDE DEF s, t, one
<1>6. /\ one \o s \in Seq(M) /\ Len(one \o s) = Len(one) + Len(s)
      /\ \A j \in 1..(Len(one) + Len(s)) :
           (one \o s)[j] = IF j <= Len(one) THEN one[j] ELSE s[j - Len(one)]
  BY <1>2, <1>4, ConcatProperties
<1>7. ASSUME NEW j \in 1..(i + 1) PROVE t[j] = (one \o s)[j]
  <2>1. j \in 1..(Len(one) + Len(s))
    BY <1>3, <1>4
  <2>2. CASE j = 1
    <3>1. t[1] = item[i + 1]
      <4>1. ((i + 1) + 1) - 1 = i + 1 /\ 1 \in 1..(i + 1)
        OBVIOUS
      <4>2. QED
        BY <1>5, <4>1
    <3>2. (one \o s)[1] = item[i + 1]
      BY <1>4, <1>6, <2>1, <2>2
    <3>3. QED
      BY <2>2, <3>1, <3>2
  <2>3. CASE j # 1
    <3>1. j - 1 \in 1..i /\ (i + 1) - (j - 1) = ((i + 1) + 1) - j /\ ~(j <= 1)
      BY <2>3
    <3>2. (one \o s)[j] = s[j - 1]
      BY <1>4, <1>6, <2>1, <3>1
    <3>3. QED
      BY <1>5, <3>1, <3>2
  <2>4. QED
    BY <2>2, <2>3
<1>8. t = one \o s
  <2> DEFINE u == one \o s
  <2>1. u \in Seq(M)
    BY <1>6
  <2>2. t \in Seq(M)
    BY <1>2
  <2>3. Len(t) = Len(u)
    BY <1>3, <1>4, <1>6
  <2>4. \A j \in 1..Len(t) : t[j] = u[j]
    BY <1>3, <1>7
  <2> HIDE DEF u
  <2>5. t = u
    BY ONLY <2>1, <2>2, <2>3, <2>4, SeqEqual
  <2>6. QED
    BY <2>5 DEF u
<1>9. Range(s) = {item[j] : j \in 1..i}
  <2>1. Range(s) = {s[j] : j \in 1..i}
    BY <1>2, <1>3, RangeEquality
  <2>2. \A j \in 1..i : (i + 1) - j \in 1..i /\ s[j] = item[(i + 1) - j]
    BY <1>5
  <2>3. \A j \in 1..i : (i + 1) - j \in 1..i /\ s[(i + 1) - j] = item[j]
    BY <1>5
  <2>4. QED
    BY <2>1, <2>2, <2>3
<1>10. QED
  BY <1>2, <1>8, <1>9 DEF OneMore, s, t, one

\* A pool is filled: every item is in the free list, the last one first.
LEMMA PoolFilled ==
  ASSUME NEW N, NULL \notin N, NEW H \in SUBSET N, NEW size \in Nat,
         NEW item \in [1..size -> N \ H],
         \A i, j \in 1..size : item[i] = item[j] => i = j,
         NEW free \in H, NEW zero,
         Lists(zero, N, H, [n \in H |-> <<>>]), zero.next[free] # NULL,
         NEW f, Adds(f, size, item, free, zero)
  PROVE  /\ Lists(f[size], N, H, [n \in H |-> IF n = free THEN Reversed(item, size) ELSE <<>>])
         /\ StillMade(zero, f[size], H)
<1> DEFINE M == N \ H
           All(i) == [n \in H |-> IF n = free THEN Reversed(item, i) ELSE <<>>]
           T == {i \in 0..size : Lists(f[i], N, H, All(i)) /\ StillMade(zero, f[i], H)}
<1>1. 0 \in T
  <2>1. Reversed(item, 0) = <<>>
    <3>1. Reversed(item, 0) \in [1..0 -> {}] /\ 1..0 = {}
      BY DEF Reversed
    <3>2. Reversed(item, 0) = [i \in {} |-> i]
      BY <3>1
    <3>3. QED
      BY <3>2
  <2>2. All(0) = [n \in H |-> <<>>]
    BY <2>1
  <2>3. f[0] = zero
    BY AddsSteps
  <2>4. StillMade(zero, zero, H)
    BY DEF StillMade
  <2> HIDE DEF All
  <2>5. QED
    BY <2>2, <2>3, <2>4
<1>2. ASSUME NEW i \in 0..(size - 1), i \in T PROVE i + 1 \in T
  <2> DEFINE h == f[i]
             x == item[i + 1]
             L == All(i)
  <2>1. i + 1 \in 1..size /\ (i + 1) - 1 = i /\ i + 1 \in 0..size /\ 1..i \subseteq 1..size
    OBVIOUS
  <2>2. f[i + 1] = list_add(h, x, free)
    <3>1. f[i + 1] = list_add(f[(i + 1) - 1], item[i + 1], free)
      BY <2>1, AddsSteps
    <3>2. QED
      BY <2>1, <3>1
  <2>3. Lists(h, N, H, L) /\ StillMade(zero, h, H)
    BY <1>2
  <2>4. x \in N \ H
    BY <2>1
  <2>5. item \in [1..size -> M]
    OBVIOUS
  <2>6. /\ Reversed(item, i) \in Seq(M) /\ Reversed(item, i + 1) \in Seq(M)
        /\ Reversed(item, i + 1) = <<item[i + 1]>> \o Reversed(item, i)
        /\ Range(Reversed(item, i)) = {item[j] : j \in 1..i}
    <3>1. size \in Nat /\ i \in 0..(size - 1)
      OBVIOUS
    <3> HIDE DEF M
    <3>2. OneMore(M, item, i)
      BY <2>5, <3>1, ReversedGrows
    <3>3. QED
      BY <3>2 DEF OneMore
  <2>7. h.next[free] # NULL
    BY <2>3 DEF StillMade
  <2>8. /\ L[free] = Reversed(item, i)
        /\ \A m \in H \ {free} : L[m] = <<>>
    OBVIOUS
  <2>9. \A m \in H : \A j \in 1..Len(L[m]) : L[m][j] # x
    <3>1. \A j \in 1..i : item[j] # x
      BY <2>1
    <3>2. \A j \in 1..Len(L[free]) : L[free][j] # x
      <4>1. x \notin Range(L[free])
        BY <2>6, <2>8, <3>1
      <4>2. L[free] \in Seq(M)
        BY <2>6, <2>8
      <4> HIDE DEF L, x, M
      <4>3. \A y : y \in Range(L[free]) <=> \E j \in 1..Len(L[free]) : L[free][j] = y
        BY <4>2, RangePlace
      <4>4. QED
        BY <4>1, <4>3
    <3>3. \A m \in H \ {free} : Len(L[m]) = 0
      BY <2>8
    <3> HIDE DEF L, x
    <3>4. QED
      BY <3>2, <3>3
  <2>10. /\ Lists(list_add(h, x, free), N, H, [L EXCEPT ![free] = <<x>> \o L[free]])
         /\ StillMade(h, list_add(h, x, free), H)
    <3>1. Lists(h, N, H, L)
      BY <2>3
    <3> HIDE DEF h, L, x
    <3>2. QED
      BY ONLY <3>1, <2>4, <2>7, <2>9, NULL \notin N, free \in H, ListsFirst
  <2>11. [L EXCEPT ![free] = <<x>> \o L[free]] = All(i + 1)
    BY <2>6
  <2>12. StillMade(zero, f[i + 1], H)
    BY <2>2, <2>3, <2>10 DEF StillMade
  <2> HIDE DEF All
  <2>13. QED
    BY <2>1, <2>2, <2>10, <2>11, <2>12
<1>3. 0..size \subseteq T
  <2>1. 0 \in Int /\ size \in Int
    OBVIOUS
  <2> HIDE DEF T
  <2>2. QED
    BY ONLY <1>1, <1>2, <2>1, IntervalInduction
<1>4. size \in T
  <2>1. size \in 0..size
    OBVIOUS
  <2> HIDE DEF T
  <2>2. QED
    BY <1>3, <2>1
<1>5. QED
  BY <1>4
\* pcb.c:9-13: at first every PCB is in the pool, and every queue is empty.
LEMMA PcbInitOK == PcbInit => PcbInv /\ listsNow = AllFree
<1> SUFFICES ASSUME PcbInit PROVE PcbInv /\ listsNow = AllFree
  OBVIOUS
<1> DEFINE item == [i \in Pcb |-> p_list(i)]
           free == pcbFree_h
           None == [n \in Heads |-> <<>>]
           field == [n \in Node |-> IF n \in Queue \cup {free} THEN n ELSE NULL]
           body(g) == [i \in 0..MAXPROC |-> IF i = 0 THEN zeroed
                          ELSE list_add(g[i - 1], p_list(i), free)]
           f == CHOOSE g : g = body(g)
           L == [n \in Heads |-> IF n = free THEN Reversed(item, MAXPROC) ELSE <<>>]
<1>1. /\ MAXPROC \in Nat /\ Pcb = 1..MAXPROC /\ NULL \notin Node /\ Heads \subseteq Node
      /\ free \in Heads /\ free \in Node /\ Node \ Heads = Links /\ Queue \subseteq Heads
  BY NodeFacts, PcbAssumption DEF Pcb
<1>2. item \in [1..MAXPROC -> Node \ Heads]
  BY <1>1, NodeFacts
<1>3. \A i, j \in 1..MAXPROC : item[i] = item[j] => i = j
  BY <1>1, NodeFacts
<1>4. /\ zeroed \in Heap(Node)
      /\ \A n \in Queue \cup {free} : zeroed.next[n] = n /\ zeroed.prev[n] = n
      /\ \A n \in Node \ (Queue \cup {free}) : zeroed.next[n] = NULL
  <2>1. zeroed = [next |-> field, prev |-> field]
    BY DEF zeroed
  <2>2. field \in [Node -> Node \cup {NULL}]
    OBVIOUS
  <2>3. /\ \A n \in Queue \cup {free} : field[n] = n
        /\ \A n \in Node \ (Queue \cup {free}) : field[n] = NULL
    BY <1>1
  <2> HIDE DEF field
  <2>4. QED
    BY <2>1, <2>2, <2>3 DEF Heap
<1>5. Lists(zeroed, Node, Heads, None)
  <2>1. None \in [Heads -> Seq(Node \ Heads)]
    BY EmptySeq
  <2>2. ASSUME NEW n \in Heads
        PROVE  IF zeroed.next[n] = NULL THEN None[n] = <<>> ELSE Threads(zeroed, n, None[n])
    <3>1. None[n] = <<>> /\ Len(<<>>) = 0
      OBVIOUS
    <3>2. CASE n \in Queue \cup {free}
      <4>1. Threads(zeroed, n, <<>>)
        BY <1>4, <3>1, <3>2 DEF Threads, Stop
      <4>2. QED
        BY <1>1, <1>4, <3>1, <3>2, <4>1
    <3>3. CASE n \notin Queue \cup {free}
      BY <1>1, <1>4, <3>1, <3>3
    <3>4. QED
      BY <3>2, <3>3
  <2>3. Separate(Heads, None)
    <3>1. \A n \in Heads : Len(None[n]) = 0
      OBVIOUS
    <3> HIDE DEF None
    <3>2. QED
      BY <3>1 DEF Separate
  <2> HIDE DEF None
  <2>4. QED
    BY <1>1, <1>4, <2>1, <2>2, <2>3 DEF Lists
<1>6. \A g : Adds(g, MAXPROC, item, free, zeroed) <=> g = body(g)
  <2> SUFFICES ASSUME NEW g
               PROVE  [i \in 0..MAXPROC |-> IF i = 0 THEN zeroed
                          ELSE list_add(g[i - 1], item[i], free)] = body(g)
    BY DEF Adds
  <2>1. \A i \in 0..MAXPROC : i # 0 => item[i] = p_list(i)
    BY <1>1
  <2> HIDE DEF item
  <2>2. QED
    BY <2>1
<1>7. Adds(f, MAXPROC, item, free, zeroed)
  <2>1. \E g : Adds(g, MAXPROC, item, free, zeroed)
    <3>1. item \in [1..MAXPROC -> Node]
      BY <1>2
    <3> HIDE DEF item, free
    <3>2. QED
      BY <1>1, <1>4, <3>1, AddsExist
  <2>2. \E g : g = body(g)
    <3> HIDE DEF body
    <3>1. QED
      BY <1>6, <2>1
  <2>3. f = body(f)
    <3> HIDE DEF body
    <3>1. QED
      BY <2>2
  <2> HIDE DEF body, f
  <2>4. QED
    BY <1>6, <2>3
<1>8. heap = f[MAXPROC]
  BY DEF PcbInit, initPcbs
<1>9. Lists(heap, Node, Heads, L) /\ StillMade(zeroed, heap, Heads)
  <2>1. /\ Lists(f[MAXPROC], Node, Heads, L)
        /\ StillMade(zeroed, f[MAXPROC], Heads)
    <3>1. zeroed.next[free] # NULL
      BY <1>1, <1>4
    <3>2. MAXPROC \in Nat /\ NULL \notin Node /\ Heads \in SUBSET Node /\ free \in Heads
      BY <1>1
    <3> HIDE DEF item, free, f
    <3>3. QED
      BY <1>2, <1>3, <1>5, <1>7, <3>1, <3>2, PoolFilled
  <2>2. QED
    BY <1>8, <2>1
<1>10. L = AllFree
  <2>1. Reversed(item, MAXPROC) = [i \in Pcb |-> p_list(MAXPROC + 1 - i)]
    <3>1. \A i \in 1..MAXPROC : (MAXPROC + 1) - i \in 1..MAXPROC
      BY <1>1
    <3>2. \A i \in 1..MAXPROC : item[(MAXPROC + 1) - i] = p_list(MAXPROC + 1 - i)
      BY <1>1, <3>1
    <3> HIDE DEF item
    <3>3. QED
      BY <1>1, <3>2 DEF Reversed
  <2>2. QED
    BY <2>1 DEF AllFree
<1>11. Range(L[free]) = {p_list(i) : i \in Pcb} /\ \A n \in Heads \ {free} : L[n] = <<>>
  <2>1. L[free] = [i \in Pcb |-> p_list(MAXPROC + 1 - i)]
    BY <1>1, <1>10 DEF AllFree
  <2>2. Range(L[free]) = {p_list(MAXPROC + 1 - i) : i \in Pcb}
    BY <2>1 DEF Range
  <2>3. \A i \in Pcb : MAXPROC + 1 - i \in Pcb /\ MAXPROC + 1 - (MAXPROC + 1 - i) = i
    BY <1>1
  <2>4. {p_list(MAXPROC + 1 - i) : i \in Pcb} = {p_list(i) : i \in Pcb}
    BY <2>3
  <2>5. QED
    BY <2>2, <2>4
<1>12. p_parent = [p \in Pcb |-> NULL]
  BY DEF PcbInit
<1>13. PcbOK(heap, L, p_parent)
  <2>1. ASSUME NEW q \in Queue \cup {free}
        PROVE  heap.next[q] # NULL /\ \A p \in Pcb : p_sib(p) \notin Range(L[q])
    <3>1. q \in Heads /\ zeroed.next[q] # NULL
      BY <1>1, <1>4
    <3>2. heap.next[q] # NULL
      BY <1>9, <3>1 DEF StillMade
    <3>3. \A p, c \in Pcb : p_sib(p) # p_list(c)
      BY NodeFacts
    <3>4. q # free => L[q] = <<>> /\ Range(<<>>) = {}
      BY <1>11, <3>1 DEF Range
    <3> HIDE DEF L
    <3>5. QED
      BY <1>11, <3>2, <3>3, <3>4
  <2>2. ASSUME NEW p \in Pcb
        PROVE  /\ L[p_child(p)] = <<>>
               /\ Range(L[p_child(p)]) = {p_sib(c) : c \in {x \in Pcb : p_parent[x] = p}}
               /\ p_list(p) \in Range(L[free]) /\ p_parent[p] = NULL
    <3>1. p_child(p) \in Heads \ {free} /\ p # NULL
      BY NodeFacts
    <3>2. L[p_child(p)] = <<>> /\ Range(<<>>) = {}
      BY <1>11, <3>1 DEF Range
    <3>3. {x \in Pcb : p_parent[x] = p} = {}
      BY <1>12, <3>1
    <3> HIDE DEF L
    <3>4. QED
      BY <1>11, <1>12, <3>2, <3>3
  <2>3. p_parent \in [Pcb -> Pcb \cup {NULL}]
    BY <1>12
  <2> HIDE DEF L
  <2>4. QED
    BY <1>9, <2>1, <2>2, <2>3 DEF PcbOK
<1>14. L = listsNow
  <2> HIDE DEF L
  <2>1. QED
    BY <1>13, PcbView DEF listsNow, ListAt, Made
<1>15. QED
  BY <1>10, <1>13, <1>14 DEF PcbInv
\* The lists depend on the heap only.
LEMMA PcbStutters == UNCHANGED pcbVars => listsNow' = listsNow /\ (PcbInv => PcbInv')
<1> SUFFICES ASSUME UNCHANGED pcbVars
             PROVE  listsNow' = listsNow /\ (PcbInv => PcbInv')
  OBVIOUS
<1>1. heap' = heap /\ p_parent' = p_parent
  BY DEF pcbVars
<1>2. listsNow' = listsNow
  BY <1>1 DEF listsNow, ListAt, Made
<1>3. QED
  BY <1>1, <1>2 DEF PcbInv

\* The lists of phase 1 stay sound: whatever the size of the pool and the number
\* of queues.
THEOREM PcbInvariant == PcbSpec => []PcbInv
<1>1. PcbInit => PcbInv
  BY PcbInitOK
<1>2. PcbInv /\ [PcbNext]_pcbVars => PcbInv'
  BY PcbSteps, PcbReached, PcbStutters
<1>3. QED
  BY <1>1, <1>2, PTL DEF PcbSpec

\* A move is a step of the sequences.
LEMMA MoveIsListsStep ==
  PcbInv /\ Moved(listsNow, listsNow') => Ordered!ListsNext
<1> SUFFICES ASSUME PcbInv, Moved(listsNow, listsNow') PROVE Ordered!ListsNext
  OBVIOUS
<1>1. listsNow = [n \in Heads |-> ListAt(n)] /\ listsNow' = [n \in Heads |-> ListAt(n)]'
  BY DEF listsNow
<1> DEFINE L == listsNow
           K == listsNow'
<1>2. PcbOK(heap, L, p_parent) /\ DOMAIN L = Heads
  BY <1>1 DEF PcbInv
<1> HIDE DEF L, K
<1>3. ASSUME NEW l \in Heads, NEW x \in Links, \A k \in Heads : x \notin Range(L[k]),
             K \in {[L EXCEPT ![l] = Append(L[l], x)], [L EXCEPT ![l] = <<x>> \o L[l]]}
      PROVE  Ordered!Insert(l, x)
  <2>1. K[l] \in {Append(L[l], x), <<x>> \o L[l]} /\ K = [L EXCEPT ![l] = K[l]]
    BY <1>2, <1>3
  <2>2. \A k \in Heads : x \notin Ordered!Range(L[k])
    BY <1>3 DEF Ordered!Range, Range
  <2>3. [n \in Heads |-> ListAt(n)] = L /\ [n \in Heads |-> ListAt(n)]' = K
    BY <1>1 DEF L, K
  <2>4. QED
    BY <2>1, <2>2, <2>3 DEF Ordered!Insert
<1>4. ASSUME NEW l \in Heads, NEW i \in 1..Len(L[l]), K = [L EXCEPT ![l] = Without(L[l], i)]
      PROVE  L[l][i] \in Links /\ Ordered!Remove(l, L[l][i])
  <2>1. L[l] \in Seq(Links)
    BY <1>2, PcbListFacts
  <2>2. L[l][i] \in Links /\ DOMAIN L[l] = 1..Len(L[l])
    BY <2>1, ElementOfSeq, LenProperties
  <2>3. Without(L[l], i) = SubSeq(L[l], 1, i - 1) \o SubSeq(L[l], i + 1, Len(L[l]))
    BY <2>1, WithoutIsSplit
  <2>4. K = [L EXCEPT ![l] = SubSeq(L[l], 1, i - 1) \o SubSeq(L[l], i + 1, Len(L[l]))]
    BY <1>4, <2>3
  <2>5. QED
    BY <1>1, <2>2, <2>4 DEF Ordered!Remove, L, K
<1>5. Moved(L, K)
  BY DEF L, K
<1>6. QED
  BY <1>3, <1>4, <1>5 DEF Moved, Ordered!ListsNext

\* pcb.c: the pointer structures implement sequences.
LEMMA PcbImplementsLists == PcbSpec => ImplementsLists
<1>1. PcbInit => Ordered!ListsInit
  BY PcbInitOK DEF Ordered!ListsInit, listsNow
<1>2. PcbInv /\ [PcbNext]_pcbVars => [Ordered!ListsNext]_([n \in Heads |-> ListAt(n)])
  <2>1. ASSUME PcbInv, PcbNext PROVE Ordered!ListsNext
    BY <2>1, PcbSteps, PcbReached, MoveIsListsStep
  <2>2. UNCHANGED pcbVars => UNCHANGED [n \in Heads |-> ListAt(n)]
    BY PcbStutters DEF listsNow
  <2>3. QED
    BY <2>1, <2>2
<1>3. QED
  BY <1>1, <1>2, PcbInvariant, PTL DEF PcbSpec, ImplementsLists, Ordered!ListsSpec

\* The pointers of the list s at n lead round it, both ways.
SoundList(h, n, s) ==
  /\ Linked(h, {n} \cup Range(s))
  /\ LET e == <<n>> \o s IN h.next[e[Len(e)]] = n

\* Each made list of such a heap is sound.
LEMMA SoundLists ==
  ASSUME NEW N, NEW H, NEW h, NEW L, Lists(h, N, H, L), NULL \notin N,
         NEW n \in H, h.next[n] # NULL
  PROVE  SoundList(h, n, L[n])
BY ListsLinked DEF SoundList

\* The invariant says what the runs check of it.
LEMMA PcbInvGives == PcbInv => WellLinked /\ ParentsAgree
<1> SUFFICES ASSUME PcbInv PROVE WellLinked /\ ParentsAgree
  OBVIOUS
<1> DEFINE L == listsNow
<1>1. /\ PcbOK(heap, L, p_parent) /\ Lists(heap, Node, Heads, L) /\ NULL \notin Node
      /\ \A n \in Heads : L[n] = ListAt(n)
  BY NodeFacts DEF PcbInv, PcbOK, listsNow
<1> HIDE DEF L
<1>2. WellLinked
  <2> SUFFICES ASSUME NEW n \in Heads, Made(n)
               PROVE  Ends(heap, n) /\ Linked(heap, {n} \cup Range(ListAt(n)))
    BY DEF WellLinked
  <2>1. heap.next[n] # NULL /\ ListAt(n) = Entries(heap, n)
    BY DEF Made, ListAt
  <2>3. Lists(heap, Node, Heads, L)
    BY <1>1
  <2>4. NULL \notin Node
    BY <1>1
  <2>5. n \in Heads
    OBVIOUS
  <2>6. heap.next[n] # NULL
    BY <2>1
  <2>7. SoundList(heap, n, L[n])
    BY ONLY <2>3, <2>4, <2>5, <2>6, SoundLists
  <2>8. QED
    BY <1>1, <2>1, <2>7 DEF Ends, SoundList
<1>3. ParentsAgree
  <2> SUFFICES ASSUME NEW c \in Pcb, NEW p \in Pcb
               PROVE  p_parent[c] = p <=> p_sib(c) \in Range(ListAt(p_child(p)))
    BY DEF ParentsAgree, IsIn
  <2>1. Range(L[p_child(p)]) = {p_sib(b) : b \in {x \in Pcb : p_parent[x] = p}}
    BY <1>1 DEF PcbOK
  <2>2. \A b \in Pcb : p_sib(b) = p_sib(c) => b = c
    BY NodeFacts
  <2>3. L[p_child(p)] = ListAt(p_child(p))
    BY <1>1, NodeFacts
  <2>4. QED
    BY <2>1, <2>2, <2>3
<1>4. QED
  BY <1>2, <1>3

\* A behaviour of the three structures is one of pcb.c.
LEMMA StructuresArePcbs == StructuresSpec => PcbSpec
<1>1. StructuresInit => PcbInit
  BY DEF StructuresInit
<1>2. [PcbPart \/ MsgPart \/ DevPart \/ Stopped]_<<pcbVars, msgState, devState, part>>
        => [PcbNext]_pcbVars
  BY DEF PcbPart, MsgPart, DevPart, Stopped
<1>3. QED
  BY <1>1, <1>2, PTL DEF StructuresSpec, PcbSpec

\* listx.h, pcb.c: every list can be walked both ways and ends, after any number
\* of insertions, removals from the middle and moves between lists.
THEOREM ListsAreWellLinked == StructuresSpec => []WellLinked
BY PcbInvariant, PcbInvGives, StructuresArePcbs, PTL

\* pcb.c:109-153: the pointers to the parent and the lists of children are always
\* one tree, between two calls.
THEOREM ParentsAndChildrenAgree == StructuresSpec => []ParentsAgree
BY PcbInvariant, PcbInvGives, StructuresArePcbs, PTL

\* pcb.c: whatever is freed, allocated, queued, adopted and orphaned, each call
\* inserts an item at an end of one sequence or takes one out of one, and leaves
\* the order of everything else alone.
THEOREM PcbListsImplemented == StructuresSpec => ImplementsLists
BY PcbImplementsLists, StructuresArePcbs
-----------------------------------------------------------------------------
\* MsgLists is an instance: its operators on lists are those of ListX.
LEMMA MsgNames ==
  /\ \A h, x, n : Msgs!list_add(h, x, n) = list_add(h, x, n)
  /\ \A h, x, n : Msgs!list_add_tail(h, x, n) = list_add_tail(h, x, n)
  /\ \A h, x : Msgs!list_del(h, x) = list_del(h, x)
  /\ \A h, x : Msgs!INIT_LIST_HEAD(h, x) = INIT_LIST_HEAD(h, x)
  /\ \A h, n : Msgs!list_next(h, n) = list_next(h, n)
  /\ \A h, n : Msgs!Entries(h, n) = Entries(h, n)
  /\ \A s : Msgs!Range(s) = Range(s)
<1>1. \A h, x, n : Msgs!list_add(h, x, n) = list_add(h, x, n)
  BY DEF Msgs!list_add, list_add, Msgs!AddBetween, AddBetween
<1>2. \A h, x, n : Msgs!list_add_tail(h, x, n) = list_add_tail(h, x, n)
  BY DEF Msgs!list_add_tail, list_add_tail, Msgs!AddBetween, AddBetween
<1>3. \A h, x : Msgs!list_del(h, x) = list_del(h, x)
  BY DEF Msgs!list_del, list_del, Msgs!Bypass, Bypass
<1>4. \A h, x : Msgs!INIT_LIST_HEAD(h, x) = INIT_LIST_HEAD(h, x)
  BY DEF Msgs!INIT_LIST_HEAD, INIT_LIST_HEAD
<1>5. \A h, n : Msgs!list_next(h, n) = list_next(h, n)
  BY DEF Msgs!list_next, list_next, Msgs!list_empty, list_empty
<1>6. \A h, n : Msgs!Entries(h, n) = Entries(h, n)
  <2>1. \A S : Msgs!Cardinality(S) = Cardinality(S)
    BY DEF Msgs!Cardinality, Cardinality
  <2>2. QED
    BY <2>1 DEF Msgs!Entries, Entries
<1>7. \A s : Msgs!Range(s) = Range(s)
  BY DEF Msgs!Range, Range
<1>8. QED
  BY <1>1, <1>2, <1>3, <1>4, <1>5, <1>6, <1>7

\* The heads, the fields that link messages, and both.
Box     == Msgs!Heads
Tag     == Msgs!Links
MsgNode == Box \cup Tag

\* What is known of them.
LEMMA MsgNodeFacts ==
  /\ NULL \notin MsgNode /\ Box \subseteq MsgNode /\ MsgNode \ Box = Tag
  /\ Msgs!msgFree_h \in Box /\ Inbox \subseteq Box /\ Msgs!msgFree_h \notin Inbox
  /\ \A m \in Msgs!Cell : Msgs!m_list(m) \in Tag
  /\ \A m, k \in Msgs!Cell : Msgs!m_list(m) = Msgs!m_list(k) => m = k
<1>1. \A m \in Msgs!Cell : Msgs!m_list(m) # Msgs!msgFree_h
  BY DEF Msgs!m_list, Msgs!msgFree_h
<1>2. \A m, k \in Msgs!Cell : Msgs!m_list(m) = Msgs!m_list(k) => m = k
  BY DEF Msgs!m_list
<1>3. Tag \cap Box = {}
  BY <1>1, MsgAssumption DEF Tag, Box, Msgs!Links, Msgs!Heads
<1>4. \A m \in Msgs!Cell : Msgs!m_list(m) \in Tag
  BY DEF Tag, Msgs!Links
<1>5. Msgs!msgFree_h \in Box /\ Inbox \subseteq Box
  BY DEF Box, Msgs!Heads
<1>6. NULL \notin MsgNode
  BY MsgAssumption DEF MsgNode, Box, Tag
<1>7. QED
  BY <1>2, <1>3, <1>4, <1>5, <1>6, MsgAssumption DEF MsgNode

\* There are as many as the table and the inboxes have.
LEMMA MsgNodeFinite == IsFiniteSet(MsgNode)
<1>1. IsFiniteSet(Msgs!Cell)
  BY FS_Interval, MsgAssumption DEF Msgs!Cell
<1>2. IsFiniteSet(Tag)
  <2>1. [m \in Msgs!Cell |-> Msgs!m_list(m)] \in Surjection(Msgs!Cell, Tag)
    BY DEF Surjection, Tag, Msgs!Links
  <2>2. QED
    BY <1>1, <2>1, FS_Surjection
<1>3. IsFiniteSet(Box)
  BY MsgAssumption, FS_AddElement DEF Box, Msgs!Heads
<1>4. QED
  BY <1>2, <1>3, FS_Union DEF MsgNode
\* The inboxes and the pool of a heap: every list is made.
MsgsOK(h, L) == Lists(h, MsgNode, Box, L) /\ \A n \in Box : h.next[n] # NULL

\* The same of the state.
inboxesNow == [n \in Box |-> Msgs!ListAt(n)]
MsgInv     == MsgsOK(m_heap, inboxesNow)

\* The loops over the lists of a heap find L.
LEMMA MsgView ==
  ASSUME NEW h, NEW L, MsgsOK(h, L)
  PROVE  L = [n \in Box |-> Entries(h, n)]
<1>1. \A n \in Box : Entries(h, n) = L[n]
  <2> SUFFICES ASSUME NEW n \in Box PROVE Entries(h, n) = L[n]
    OBVIOUS
  <2>1. Lists(h, MsgNode, Box, L) /\ h.next[n] # NULL
    BY DEF MsgsOK
  <2>2. IsFiniteSet(MsgNode) /\ NULL \notin MsgNode
    BY MsgNodeFacts, MsgNodeFinite
  <2>3. (IF h.next[n] # NULL THEN Entries(h, n) ELSE <<>>) = L[n]
    BY ONLY <2>1, <2>2, n \in Box, ListsWalked
  <2>4. QED
    BY <2>1, <2>3
<1>2. L \in [Box -> Seq(MsgNode \ Box)]
  BY DEF MsgsOK, Lists
<1>3. QED
  BY <1>1, <1>2

\* What is known of a list of messages.
LEMMA MsgListFacts ==
  ASSUME NEW h, NEW L, MsgsOK(h, L), NEW n \in Box
  PROVE  /\ L[n] \in Seq(Tag) /\ Distinct(L[n]) /\ Len(L[n]) \in Nat
         /\ DOMAIN L[n] = 1..Len(L[n])
         /\ \A x : x \in Range(L[n]) <=> \E i \in 1..Len(L[n]) : L[n][i] = x
<1>1. Lists(h, MsgNode, Box, L)
  BY DEF MsgsOK
<1>2. L[n] \in Seq(MsgNode \ Box) /\ Distinct(L[n]) /\ Len(L[n]) \in Nat
  BY <1>1, ListFacts
<1>3. L[n] \in Seq(Tag)
  BY <1>2, MsgNodeFacts
<1>4. \A x : x \in Range(L[n]) <=> \E i \in 1..Len(L[n]) : L[n][i] = x
  BY <1>3, RangePlace
<1>5. DOMAIN L[n] = 1..Len(L[n])
  BY <1>3, LenProperties
<1>6. QED
  BY <1>2, <1>3, <1>4, <1>5

\* x joins the list of n at an end, or the item at k leaves it.
Joins(g, L, n, x) ==
  \E K : /\ MsgsOK(g, K)
         /\ K \in {[L EXCEPT ![n] = Append(L[n], x)], [L EXCEPT ![n] = <<x>> \o L[n]]}
Leaves(g, L, n, k) == MsgsOK(g, [L EXCEPT ![n] = Without(L[n], k)])

\* The lists of g are K, and g has all the lists h has.
Becomes(h, g, N, H, K) == Lists(g, N, H, K) /\ StillMade(h, g, H)

\* So it is after list_add.
LEMMA BecomesFirst ==
  ASSUME NEW N, NULL \notin N, NEW H, NEW h, NEW L, Lists(h, N, H, L),
         NEW n \in H, h.next[n] # NULL,
         NEW x \in N \ H, \A m \in H : \A j \in 1..Len(L[m]) : L[m][j] # x
  PROVE  Becomes(h, list_add(h, x, n), N, H, [L EXCEPT ![n] = <<x>> \o L[n]])
BY ListsFirst DEF Becomes

\* msg.c:14-50, freeMsg, insertMessage and pushMessage.
LEMMA MsgJoins ==
  ASSUME NEW h, NEW L, MsgsOK(h, L), NEW n \in Box, NEW x \in Tag,
         \A m \in Box : x \notin Range(L[m])
  PROVE  Joins(list_add(h, x, n), L, n, x) /\ Joins(list_add_tail(h, x, n), L, n, x)
<1>1. Lists(h, MsgNode, Box, L) /\ NULL \notin MsgNode /\ h.next[n] # NULL /\ x \in MsgNode \ Box
  BY MsgNodeFacts DEF MsgsOK
<1>2. \A m \in Box : \A j \in 1..Len(L[m]) : L[m][j] # x
  BY MsgListFacts
<1>3. \A m \in Box : h.next[m] # NULL
  BY DEF MsgsOK
<1>4. Joins(list_add(h, x, n), L, n, x)
  <2> DEFINE g == list_add(h, x, n)
  <2>1. Lists(g, MsgNode, Box, [L EXCEPT ![n] = <<x>> \o L[n]]) /\ StillMade(h, g, Box)
    <3>1. Lists(h, MsgNode, Box, L)
      BY <1>1
    <3>2. NULL \notin MsgNode
      BY <1>1
    <3>3. h.next[n] # NULL
      BY <1>1
    <3>4. x \in MsgNode \ Box
      BY <1>1
    <3>5. n \in Box
      OBVIOUS
    <3>6. Becomes(h, g, MsgNode, Box, [L EXCEPT ![n] = <<x>> \o L[n]])
      BY ONLY <1>2, <3>1, <3>2, <3>3, <3>4, <3>5, BecomesFirst
    <3>7. QED
      BY <3>6 DEF Becomes
  <2> HIDE DEF g
  <2>2. MsgsOK(g, [L EXCEPT ![n] = <<x>> \o L[n]])
    BY <1>3, <2>1 DEF MsgsOK, StillMade
  <2>3. QED
    BY <2>2 DEF Joins, g
<1>5. Joins(list_add_tail(h, x, n), L, n, x)
  <2> DEFINE g == list_add_tail(h, x, n)
  <2>1. Lists(g, MsgNode, Box, [L EXCEPT ![n] = Append(L[n], x)]) /\ StillMade(h, g, Box)
    BY <1>1, <1>2, ListsLast
  <2> HIDE DEF g
  <2>2. MsgsOK(g, [L EXCEPT ![n] = Append(L[n], x)])
    BY <1>3, <2>1 DEF MsgsOK, StillMade
  <2>3. QED
    BY <2>2 DEF Joins, g
<1>6. QED
  BY <1>4, <1>5

\* msg.c:20-33 and 52-76, allocMsg and popMessage.
LEMMA MsgLeaves ==
  ASSUME NEW h, NEW L, MsgsOK(h, L), NEW n \in Box, NEW k \in 1..Len(L[n])
  PROVE  Leaves(INIT_LIST_HEAD(list_del(h, L[n][k]), L[n][k]), L, n, k)
<1> DEFINE x == L[n][k]
           K == [L EXCEPT ![n] = Without(L[n], k)]
           f == list_del(h, x)
           g == INIT_LIST_HEAD(f, x)
<1>1. Lists(h, MsgNode, Box, L) /\ NULL \notin MsgNode /\ \A m \in Box : h.next[m] # NULL
  BY MsgNodeFacts DEF MsgsOK
<1>2. L[n] \in Seq(Tag) /\ Distinct(L[n]) /\ x \in Tag
  <2>1. L[n] \in Seq(Tag) /\ Distinct(L[n])
    BY MsgListFacts
  <2>2. QED
    BY <2>1, ElementOfSeq
<1>3. Lists(f, MsgNode, Box, K) /\ StillMade(h, f, Box)
  BY <1>1, ListsWithout
<1>4. ASSUME NEW m \in Box, NEW j \in 1..Len(K[m]) PROVE K[m][j] # x
  <2>1. K[n] = Without(L[n], k) /\ \A i \in Box \ {n} : K[i] = L[i]
    BY <1>1 DEF Lists
  <2>2. CASE m = n
    <3>1. K[m] \in Seq(MsgNode)
      <4>1. Lists(f, MsgNode, Box, K)
        BY <1>3
      <4> HIDE DEF f, K
      <4>2. QED
        BY <4>1, ListFacts
    <3>2. K[m][j] \in Range(K[m])
      BY <3>1, RangePlace
    <3>3. Range(Without(L[n], k)) = Range(L[n]) \ {x}
      BY <1>2, RangeWithout
    <3>4. QED
      BY <2>1, <2>2, <3>2, <3>3
  <2>3. CASE m # n
    BY <1>1, <2>1, <2>3 DEF Lists, Separate
  <2>4. QED
    BY <2>2, <2>3
<1>5. Lists(g, MsgNode, Box, K) /\ StillMade(f, g, Box)
  <2>1. x \in MsgNode /\ x \notin Box
    BY <1>2, MsgNodeFacts
  <2>2. x \in Box => K[x] = <<>>
    BY <2>1
  <2>3. Lists(f, MsgNode, Box, K) /\ NULL \notin MsgNode
    BY <1>1, <1>3
  <2>4. \A m \in Box : \A j \in 1..Len(K[m]) : K[m][j] # x
    BY <1>4
  <2> HIDE DEF f, K, x
  <2>5. QED
    BY <2>1, <2>2, <2>3, <2>4, ListsInitialised
<1>6. \A m \in Box : g.next[m] # NULL
  <2> HIDE DEF f, g
  <2>1. QED
    BY <1>1, <1>3, <1>5 DEF StillMade
<1>7. MsgsOK(g, K)
  <2> HIDE DEF g, K
  <2>1. QED
    BY <1>5, <1>6 DEF MsgsOK
<1>8. QED
  BY <1>7 DEF Leaves
\* The three kinds of steps of msg.c: a message that is in no list joins one, the
\* first free one is taken, or the first one that matches is taken from an inbox.
Joining ==
  \E n \in Box, x \in Tag :
    (\A k \in Box : x \notin Range(inboxesNow[k])) /\ Joins(m_heap', inboxesNow, n, x)

Allocating ==
  /\ 1 \in 1..Len(inboxesNow[Msgs!msgFree_h])
  /\ Leaves(m_heap', inboxesNow, Msgs!msgFree_h, 1)

Popping ==
  \E q \in Inbox, p_ptr \in Sender \cup {NULL}, m \in Msgs!Cell :
    \E i \in 1..Len(inboxesNow[q]) :
      /\ inboxesNow[q][i] = Msgs!m_list(m) /\ Msgs!Matches(m, p_ptr)
      /\ \A j \in 1..(i - 1), k \in Msgs!Cell :
           inboxesNow[q][j] = Msgs!m_list(k) => ~Msgs!Matches(k, p_ptr)
      /\ Leaves(m_heap', inboxesNow, q, i)

\* The lists of the state, by the names of ListX.
LEMMA InboxNames ==
  /\ \A n \in Box : inboxesNow[n] = Msgs!ListAt(n)
  /\ \A m \in Msgs!Cell :
       Msgs!Held(m) <=> \A n \in Box : Msgs!m_list(m) \notin Range(inboxesNow[n])
<1>1. \A n \in Box : inboxesNow[n] = Msgs!ListAt(n)
  BY DEF inboxesNow
<1>2. \A n \in Box : Msgs!Range(Msgs!ListAt(n)) = Range(inboxesNow[n])
  BY <1>1, MsgNames
<1>3. QED
  BY <1>1, <1>2 DEF Msgs!Held, Box

\* A message in a caller's hands joins a list.
LEMMA HeldJoins ==
  ASSUME MsgInv, NEW m \in Msgs!Cell, Msgs!Held(m), NEW n \in Box,
         m_heap' \in {list_add(m_heap, Msgs!m_list(m), n), list_add_tail(m_heap, Msgs!m_list(m), n)}
  PROVE  Joining
<1> DEFINE L == inboxesNow
           x == Msgs!m_list(m)
<1>1. x \in Tag /\ \A k \in Box : x \notin Range(L[k])
  BY MsgNodeFacts, InboxNames
<1>2. MsgsOK(m_heap, L)
  BY DEF MsgInv
<1> HIDE DEF L, x
<1>3. Joins(list_add(m_heap, x, n), L, n, x) /\ Joins(list_add_tail(m_heap, x, n), L, n, x)
  BY <1>1, <1>2, MsgJoins
<1>4. m_heap' = list_add(m_heap, x, n) \/ m_heap' = list_add_tail(m_heap, x, n)
  BY DEF x
<1>5. Joins(m_heap', L, n, x)
  BY <1>3, <1>4
<1>6. QED
  BY <1>1, <1>5 DEF Joining, L

\* Whatever msg.c does is one of them.
LEMMA MsgSteps == MsgInv /\ Msgs!MsgNext => Joining \/ Allocating \/ Popping
<1> SUFFICES ASSUME MsgInv, Msgs!MsgNext PROVE Joining \/ Allocating \/ Popping
  OBVIOUS
<1> DEFINE L == inboxesNow
           free == Msgs!msgFree_h
<1>1. MsgsOK(m_heap, L)
  BY DEF MsgInv
<1>2. free \in Box /\ Inbox \subseteq Box
  BY MsgNodeFacts
<1>3. ASSUME NEW m \in Msgs!Cell, Msgs!freeMsg(m) PROVE Joining
  <2>1. Msgs!Held(m) /\ m_heap' = list_add(m_heap, Msgs!m_list(m), free)
    BY <1>3, MsgNames DEF Msgs!freeMsg
  <2>2. QED
    BY <1>2, <2>1, HeldJoins
<1>4. ASSUME NEW m \in Msgs!Cell, NEW q \in Inbox,
             Msgs!insertMessage(q, m) \/ Msgs!pushMessage(q, m)
      PROVE  Joining
  <2>1. /\ Msgs!Held(m)
        /\ \/ m_heap' = list_add(m_heap, Msgs!m_list(m), q)
           \/ m_heap' = list_add_tail(m_heap, Msgs!m_list(m), q)
    BY <1>4, MsgNames DEF Msgs!insertMessage, Msgs!pushMessage
  <2>2. QED
    BY <1>2, <2>1, HeldJoins
<1>5. ASSUME NEW m \in Msgs!Cell, NEW p \in Sender, Msgs!allocMsg(m, p) PROVE Allocating
  <2> DEFINE x == Msgs!m_list(m)
  <2>1. list_next(m_heap, free) = x /\ m_heap' = INIT_LIST_HEAD(list_del(m_heap, x), x)
    BY <1>5, MsgNames DEF Msgs!allocMsg
  <2>2. x # NULL
    BY MsgNodeFacts DEF MsgNode
  <2>3. /\ Lists(m_heap, MsgNode, Box, L) /\ NULL \notin MsgNode /\ free \in Box
        /\ m_heap.next[free] # NULL
    BY <1>1, MsgNodeFacts DEF MsgsOK
  <2> HIDE DEF L, x, free
  <2>4. /\ L[free] # <<>> => 1 \in 1..Len(L[free]) /\ m_heap.next[free] = L[free][1]
        /\ list_next(m_heap, free) = IF L[free] = <<>> THEN NULL ELSE L[free][1]
    BY <2>3, HeadFacts
  <2>5. 1 \in 1..Len(L[free]) /\ L[free][1] = x
    BY <2>1, <2>2, <2>4
  <2>6. Leaves(m_heap', L, free, 1)
    BY <1>1, <2>1, <2>3, <2>5, MsgLeaves
  <2>7. QED
    BY <2>5, <2>6 DEF Allocating, L, free
<1>6. ASSUME NEW q \in Inbox, NEW p_ptr \in Sender \cup {NULL}, Msgs!popMessage(q, p_ptr)
      PROVE  Popping
  <2>1. L[q] = Msgs!ListAt(q) /\ DOMAIN L[q] = 1..Len(L[q]) /\ q \in Box
    BY <1>1, <1>2, InboxNames, MsgListFacts
  <2>2. PICK m \in Msgs!Cell, i \in 1..Len(L[q]) :
          /\ L[q][i] = Msgs!m_list(m) /\ Msgs!Matches(m, p_ptr)
          /\ \A j \in 1..(i - 1), k \in Msgs!Cell :
               L[q][j] = Msgs!m_list(k) => ~Msgs!Matches(k, p_ptr)
          /\ m_heap' = INIT_LIST_HEAD(list_del(m_heap, Msgs!m_list(m)), Msgs!m_list(m))
    <3> HIDE DEF L
    <3>1. QED
      BY <1>6, <2>1, MsgNames DEF Msgs!popMessage
  <2>3. m_heap' = INIT_LIST_HEAD(list_del(m_heap, L[q][i]), L[q][i])
    BY <2>2
  <2> HIDE DEF L
  <2>4. Leaves(m_heap', L, q, i)
    BY <1>1, <2>1, <2>3, MsgLeaves
  <2>5. QED
    BY <2>2, <2>4 DEF Popping, L
<1>7. QED
  BY <1>3, <1>4, <1>5, <1>6 DEF Msgs!MsgNext
\* The lists after a step are those it leads to.
LEMMA MsgReached ==
  ASSUME NEW K, MsgsOK(m_heap', K)
  PROVE  inboxesNow' = K /\ MsgInv'
<1>1. K = [n \in Box |-> Entries(m_heap', n)]
  BY MsgView
<1>2. inboxesNow' = K
  <2>1. inboxesNow' = [n \in Box |-> (Msgs!ListAt(n))']
    BY DEF inboxesNow
  <2>2. \A n \in Box : (Msgs!ListAt(n))' = Entries(m_heap', n)
    BY MsgNames DEF Msgs!ListAt
  <2>3. QED
    BY <1>1, <2>1, <2>2
<1>3. QED
  BY <1>2 DEF MsgInv

\* The lists depend on the heap only.
LEMMA MsgStutters == m_heap' = m_heap => inboxesNow' = inboxesNow /\ (MsgInv => MsgInv')
<1> SUFFICES ASSUME m_heap' = m_heap
             PROVE  inboxesNow' = inboxesNow /\ (MsgInv => MsgInv')
  OBVIOUS
<1>1. inboxesNow' = inboxesNow
  BY DEF inboxesNow, Msgs!ListAt
<1>2. QED
  BY <1>1 DEF MsgInv

\* initMsgs makes the heads and frees every message.
LEMMA MsgInitOK == Msgs!MsgInit => MsgInv /\ inboxesNow = Msgs!AllFree
<1> SUFFICES ASSUME Msgs!MsgInit PROVE MsgInv /\ inboxesNow = Msgs!AllFree
  OBVIOUS
<1> DEFINE item == [i \in Msgs!Cell |-> Msgs!m_list(i)]
           free == Msgs!msgFree_h
           size == MAXMESSAGES
           None == [n \in Box |-> <<>>]
           field == [n \in MsgNode |-> IF n \in Box THEN n ELSE NULL]
           zero == [next |-> field, prev |-> field]
           body(g) == [i \in 0..size |-> IF i = 0 THEN zero
                          ELSE list_add(g[i - 1], Msgs!m_list(i), free)]
           f == CHOOSE g : g = body(g)
           L == [n \in Box |-> IF n = free THEN Reversed(item, size) ELSE <<>>]
<1>1. /\ size \in Nat /\ Msgs!Cell = 1..size /\ NULL \notin MsgNode /\ Box \subseteq MsgNode
      /\ free \in Box /\ free \in MsgNode /\ MsgNode \ Box = Tag
  BY MsgNodeFacts, MsgAssumption DEF Msgs!Cell
<1>2. item \in [1..size -> MsgNode \ Box]
  BY <1>1, MsgNodeFacts
<1>3. \A i, j \in 1..size : item[i] = item[j] => i = j
  BY <1>1, MsgNodeFacts
<1>4. zero \in Heap(MsgNode) /\ \A n \in Box : zero.next[n] = n /\ zero.prev[n] = n
  <2>1. field \in [MsgNode -> MsgNode \cup {NULL}] /\ \A n \in Box : field[n] = n
    BY <1>1
  <2> HIDE DEF field
  <2>2. QED
    BY <2>1 DEF Heap
<1> HIDE DEF zero
<1>5. Lists(zero, MsgNode, Box, None)
  <2>1. None \in [Box -> Seq(MsgNode \ Box)]
    BY EmptySeq
  <2>2. ASSUME NEW n \in Box
        PROVE  zero.next[n] # NULL /\ Threads(zero, n, None[n])
    <3>1. None[n] = <<>> /\ Len(<<>>) = 0
      OBVIOUS
    <3>2. Threads(zero, n, <<>>)
      BY <1>4, <3>1 DEF Threads, Stop
    <3>3. QED
      BY <1>1, <1>4, <3>1, <3>2
  <2>3. Separate(Box, None)
    <3>1. \A n \in Box : Len(None[n]) = 0
      OBVIOUS
    <3> HIDE DEF None
    <3>2. QED
      BY <3>1 DEF Separate
  <2> HIDE DEF None
  <2>4. QED
    BY <1>1, <1>4, <2>1, <2>2, <2>3 DEF Lists
<1>6. \A g : Adds(g, size, item, free, zero) <=> g = body(g)
  <2> SUFFICES ASSUME NEW g
               PROVE  [i \in 0..size |-> IF i = 0 THEN zero
                          ELSE list_add(g[i - 1], item[i], free)] = body(g)
    BY DEF Adds
  <2>1. \A i \in 0..size : i # 0 => item[i] = Msgs!m_list(i)
    BY <1>1
  <2> HIDE DEF item
  <2>2. QED
    BY <2>1
<1>7. Adds(f, size, item, free, zero)
  <2>1. \E g : Adds(g, size, item, free, zero)
    <3>1. item \in [1..size -> MsgNode]
      BY <1>2
    <3> HIDE DEF item, free, size
    <3>2. QED
      BY <1>1, <1>4, <3>1, AddsExist
  <2>2. \E g : g = body(g)
    <3> HIDE DEF body
    <3>1. QED
      BY <1>6, <2>1
  <2>3. f = body(f)
    <3> HIDE DEF body
    <3>1. QED
      BY <2>2
  <2> HIDE DEF body, f
  <2>4. QED
    BY <1>6, <2>3
<1>8. m_heap = f[size]
  BY MsgNames DEF Msgs!MsgInit, Msgs!initMsgs, MsgNode, Box, Tag, zero
<1>9. Lists(m_heap, MsgNode, Box, L) /\ StillMade(zero, m_heap, Box)
  <2>1. Lists(f[size], MsgNode, Box, L) /\ StillMade(zero, f[size], Box)
    <3>1. zero.next[free] # NULL
      BY <1>1, <1>4
    <3>2. size \in Nat /\ NULL \notin MsgNode /\ Box \in SUBSET MsgNode /\ free \in Box
      BY <1>1
    <3> HIDE DEF item, free, f, size
    <3>3. QED
      BY <1>2, <1>3, <1>5, <1>7, <3>1, <3>2, PoolFilled
  <2>2. QED
    BY <1>8, <2>1
<1>10. L = Msgs!AllFree
  <2>1. Reversed(item, size) = [i \in Msgs!Cell |-> Msgs!m_list(size + 1 - i)]
    <3>1. \A i \in 1..size : (size + 1) - i \in 1..size
      BY <1>1
    <3>2. \A i \in 1..size : item[(size + 1) - i] = Msgs!m_list(size + 1 - i)
      BY <1>1, <3>1
    <3> HIDE DEF item
    <3>3. QED
      BY <1>1, <3>2 DEF Reversed
  <2>2. QED
    BY <2>1 DEF Msgs!AllFree, Box
<1>11. MsgsOK(m_heap, L)
  <2>1. \A n \in Box : m_heap.next[n] # NULL
    BY <1>1, <1>4, <1>9 DEF StillMade
  <2> HIDE DEF L
  <2>2. QED
    BY <1>9, <2>1 DEF MsgsOK
<1>12. inboxesNow = L
  <2> HIDE DEF L
  <2>1. L = [n \in Box |-> Entries(m_heap, n)]
    BY <1>11, MsgView
  <2>2. \A n \in Box : Msgs!ListAt(n) = Entries(m_heap, n)
    BY MsgNames DEF Msgs!ListAt
  <2>3. QED
    BY <2>1, <2>2 DEF inboxesNow
<1>13. QED
  BY <1>10, <1>11, <1>12 DEF MsgInv
\* A message that joins a list, or leaves one, is a step of the sequences.
LEMMA JoinInserts ==
  ASSUME MsgInv, NEW n \in Box, NEW x \in Tag,
         \A k \in Box : x \notin Range(inboxesNow[k]), Joins(m_heap', inboxesNow, n, x)
  PROVE  /\ MsgInv' /\ Msgs!Ordered!ListsNext
         /\ \A k \in Box : Range(inboxesNow[k]) \subseteq Range(inboxesNow'[k])
<1> DEFINE L == inboxesNow
           now == [k \in Msgs!Heads |-> Msgs!ListAt(k)]
<1>1. PICK K : /\ MsgsOK(m_heap', K)
               /\ K \in {[L EXCEPT ![n] = Append(L[n], x)], [L EXCEPT ![n] = <<x>> \o L[n]]}
  BY DEF Joins
<1>2. inboxesNow' = K /\ MsgInv'
  BY <1>1, MsgReached
<1>3. now = L /\ now' = K
  BY <1>2 DEF inboxesNow, Box
<1>4. DOMAIN L = Box /\ L[n] \in Seq(Tag)
  <2>1. MsgsOK(m_heap, L)
    BY DEF MsgInv
  <2>2. L[n] \in Seq(Tag)
    BY <2>1, MsgListFacts
  <2>3. QED
    BY <2>2 DEF inboxesNow
<1>5. \A k \in Box : Range(L[k]) \subseteq Range(inboxesNow'[k])
  <2>1. Range(Append(L[n], x)) = Range(L[n]) \cup {x} /\ Range(<<x>> \o L[n]) = Range(L[n]) \cup {x}
    <3> HIDE DEF L
    <3>1. L[n] \in Seq(Tag) /\ x \in Tag
      BY <1>4
    <3>2. QED
      BY <3>1, RangeAdded
  <2> HIDE DEF L
  <2>2. QED
    BY <1>1, <1>2, <1>4, <2>1
<1> HIDE DEF L, now
<1>6. K[n] \in {Append(L[n], x), <<x>> \o L[n]} /\ K = [L EXCEPT ![n] = K[n]]
  BY <1>1, <1>4
<1>7. \A k \in Msgs!Heads : x \notin Msgs!Ordered!Range(L[k])
  BY DEF Msgs!Ordered!Range, Range, Box, L
<1>8. Msgs!Ordered!Insert(n, x)
  BY <1>3, <1>6, <1>7 DEF Msgs!Ordered!Insert, now
<1>9. Msgs!Ordered!ListsNext
  BY <1>8 DEF Msgs!Ordered!ListsNext, Box, Tag
<1>10. QED
  BY <1>2, <1>5, <1>9 DEF L

\* Taking the message at k changes nothing else.
LEMMA LeaveRemoves ==
  ASSUME MsgInv, NEW n \in Box, NEW k \in 1..Len(inboxesNow[n]),
         Leaves(m_heap', inboxesNow, n, k)
  PROVE  /\ MsgInv' /\ Msgs!Ordered!ListsNext
         /\ \A i \in Box \ {n} : Range(inboxesNow[i]) \subseteq Range(inboxesNow'[i])
         /\ Range(inboxesNow'[n]) = Range(inboxesNow[n]) \ {inboxesNow[n][k]}
<1> DEFINE L == inboxesNow
           now == [i \in Msgs!Heads |-> Msgs!ListAt(i)]
           K == [L EXCEPT ![n] = Without(L[n], k)]
<1>1. MsgsOK(m_heap', K)
  BY DEF Leaves
<1>2. inboxesNow' = K /\ MsgInv'
  <2> HIDE DEF K
  <2>1. QED
    BY <1>1, MsgReached
<1>3. now = L /\ now' = K
  BY <1>2 DEF inboxesNow, Box
<1>4. DOMAIN L = Box /\ L[n] \in Seq(Tag) /\ Distinct(L[n]) /\ DOMAIN L[n] = 1..Len(L[n])
  <2>1. MsgsOK(m_heap, L)
    BY DEF MsgInv
  <2>2. L[n] \in Seq(Tag) /\ Distinct(L[n]) /\ DOMAIN L[n] = 1..Len(L[n])
    BY <2>1, MsgListFacts
  <2>3. QED
    BY <2>2 DEF inboxesNow
<1> HIDE DEF L, now
<1>5. k \in 1..Len(L[n])
  BY DEF L
<1>6. Range(Without(L[n], k)) = Range(L[n]) \ {L[n][k]}
  BY <1>4, <1>5, RangeWithout
<1>7. L[n][k] \in Tag
  BY <1>4, <1>5, ElementOfSeq
<1>8. Without(L[n], k) = SubSeq(L[n], 1, k - 1) \o SubSeq(L[n], k + 1, Len(L[n]))
  BY <1>4, <1>5, WithoutIsSplit
<1>9. K = [L EXCEPT ![n] = SubSeq(L[n], 1, k - 1) \o SubSeq(L[n], k + 1, Len(L[n]))]
  BY <1>8
<1>10. Msgs!Ordered!Remove(n, L[n][k])
  BY <1>3, <1>4, <1>5, <1>9 DEF Msgs!Ordered!Remove, now
<1>11. Msgs!Ordered!ListsNext
  BY <1>7, <1>10 DEF Msgs!Ordered!ListsNext, Box, Tag
<1>12. QED
  BY <1>2, <1>4, <1>6, <1>11 DEF L
\* Every step of msg.c is one of the sequences.
LEMMA MsgStepSound ==
  MsgInv /\ Msgs!MsgNext => MsgInv' /\ Msgs!Ordered!ListsNext
<1> SUFFICES ASSUME MsgInv, Msgs!MsgNext PROVE MsgInv' /\ Msgs!Ordered!ListsNext
  OBVIOUS
<1>1. CASE Joining
  <2>1. PICK n \in Box, x \in Tag :
          (\A k \in Box : x \notin Range(inboxesNow[k])) /\ Joins(m_heap', inboxesNow, n, x)
    BY <1>1 DEF Joining
  <2>2. QED
    BY <2>1, JoinInserts
<1>2. CASE Allocating
  BY <1>2, LeaveRemoves, MsgNodeFacts DEF Allocating
<1>3. CASE Popping
  <2>1. PICK q \in Inbox : \E i \in 1..Len(inboxesNow[q]) : Leaves(m_heap', inboxesNow, q, i)
    BY <1>3 DEF Popping
  <2>2. q \in Box
    BY MsgNodeFacts
  <2>3. QED
    BY <2>1, <2>2, LeaveRemoves
<1>4. QED
  BY <1>1, <1>2, <1>3, MsgSteps

\* The inboxes and the pool stay sound, whatever their sizes.
THEOREM MsgInvariant == Msgs!MsgSpec => []MsgInv
<1>1. Msgs!MsgInit => MsgInv
  BY MsgInitOK
<1>2. MsgInv /\ [Msgs!MsgNext]_(Msgs!msgVars) => MsgInv'
  BY MsgStepSound, MsgStutters DEF Msgs!msgVars
<1>3. QED
  BY <1>1, <1>2, PTL DEF Msgs!MsgSpec

\* msg.c: the pool and the inboxes implement sequences.
LEMMA MsgImplementsLists == Msgs!MsgSpec => Msgs!ImplementsInboxes
<1>1. Msgs!MsgInit => Msgs!Ordered!ListsInit
  BY MsgInitOK DEF Msgs!Ordered!ListsInit, inboxesNow, Box
<1>2. MsgInv /\ [Msgs!MsgNext]_(Msgs!msgVars)
        => [Msgs!Ordered!ListsNext]_([n \in Msgs!Heads |-> Msgs!ListAt(n)])
  <2>1. UNCHANGED Msgs!msgVars => UNCHANGED [n \in Msgs!Heads |-> Msgs!ListAt(n)]
    BY MsgStutters DEF inboxesNow, Box, Msgs!msgVars
  <2>2. QED
    BY <2>1, MsgStepSound
<1>3. QED
  BY <1>1, <1>2, MsgInvariant, PTL
  DEF Msgs!MsgSpec, Msgs!ImplementsInboxes, Msgs!Ordered!ListsSpec

\* A message is in no list after a step.
LEMMA HeldAfter ==
  \A m \in Msgs!Cell :
    Msgs!Held(m)' <=> \A n \in Box : Msgs!m_list(m) \notin Range(inboxesNow'[n])
<1>1. \A n \in Box : inboxesNow'[n] = Msgs!ListAt(n)'
  BY DEF inboxesNow
<1>2. \A n \in Box : Msgs!Range(Msgs!ListAt(n)') = Range(inboxesNow'[n])
  BY <1>1, MsgNames
<1>3. QED
  BY <1>1, <1>2 DEF Msgs!Held, Box

\* A step leaves the second of two messages of a sender where it is.
LEMMA SecondStays ==
  ASSUME MsgInv, Msgs!MsgNext, NEW q \in Inbox,
         NEW i \in 1..Len(inboxesNow[q]), NEW j \in 1..Len(inboxesNow[q]), i < j,
         NEW m \in Msgs!Cell, NEW k \in Msgs!Cell, m_sender[m] = m_sender[k],
         inboxesNow[q][i] = Msgs!m_list(m), inboxesNow[q][j] = Msgs!m_list(k)
  PROVE  Msgs!m_list(k) \in Range(inboxesNow'[q])
<1> DEFINE L == inboxesNow
           x == Msgs!m_list(k)
<1>1. MsgsOK(m_heap, L) /\ q \in Box /\ q # Msgs!msgFree_h
  BY MsgNodeFacts DEF MsgInv
<1>2. x \in Range(L[q]) /\ Distinct(L[q]) /\ Len(L[q]) \in Nat
  <2>1. L[q][j] = x /\ j \in 1..Len(L[q])
    OBVIOUS
  <2> HIDE DEF L, x
  <2>2. MsgsOK(m_heap, L)
    BY <1>1
  <2>3. q \in Box
    BY <1>1
  <2>4. Distinct(L[q])
    BY ONLY <2>2, <2>3, MsgListFacts
  <2>5. Len(L[q]) \in Nat
    BY ONLY <2>2, <2>3, MsgListFacts
  <2>6. L[q] \in Seq(Tag)
    BY ONLY <2>2, <2>3, MsgListFacts
  <2>7. QED
    BY <2>1, <2>4, <2>5, <2>6, RangePlace
<1>3. CASE Joining
  <2>1. PICK n \in Box, y \in Tag :
          (\A c \in Box : y \notin Range(inboxesNow[c])) /\ Joins(m_heap', inboxesNow, n, y)
    BY <1>3 DEF Joining
  <2>2. \A c \in Box : Range(inboxesNow[c]) \subseteq Range(inboxesNow'[c])
    BY <2>1, JoinInserts
  <2>3. QED
    BY <1>1, <1>2, <2>2
<1>4. CASE Allocating
  <2>1. \A c \in Box \ {Msgs!msgFree_h} : Range(inboxesNow[c]) \subseteq Range(inboxesNow'[c])
    BY <1>4, LeaveRemoves, MsgNodeFacts DEF Allocating
  <2>2. QED
    BY <1>1, <1>2, <2>1
<1>5. CASE Popping
  <2>1. PICK b \in Inbox, p_ptr \in Sender \cup {NULL}, n \in Msgs!Cell :
          \E e \in 1..Len(L[b]) :
            /\ L[b][e] = Msgs!m_list(n) /\ Msgs!Matches(n, p_ptr)
            /\ \A d \in 1..(e - 1), c \in Msgs!Cell :
                 L[b][d] = Msgs!m_list(c) => ~Msgs!Matches(c, p_ptr)
            /\ Leaves(m_heap', L, b, e)
    BY <1>5 DEF Popping
  <2>2. PICK e \in 1..Len(L[b]) :
            /\ L[b][e] = Msgs!m_list(n) /\ Msgs!Matches(n, p_ptr)
            /\ \A d \in 1..(e - 1), c \in Msgs!Cell :
                 L[b][d] = Msgs!m_list(c) => ~Msgs!Matches(c, p_ptr)
            /\ Leaves(m_heap', L, b, e)
    BY <2>1
  <2>3. b \in Box
    BY MsgNodeFacts
  <2>4. /\ \A c \in Box \ {b} : Range(L[c]) \subseteq Range(inboxesNow'[c])
        /\ Range(inboxesNow'[b]) = Range(L[b]) \ {L[b][e]}
    BY <2>2, <2>3, LeaveRemoves
  <2>5. CASE b # q
    BY <1>1, <1>2, <2>4, <2>5
  <2>6. CASE b = q
    <3>1. L[q][e] # x
      <4> SUFFICES ASSUME L[q][e] = x PROVE FALSE
        OBVIOUS
      <4>1. n = k
        BY <2>2, <2>6, MsgNodeFacts
      <4>2. e \in 1..Len(L[q]) /\ j \in 1..Len(L[q]) /\ L[q][j] = L[q][e]
        BY <2>2, <2>6
      <4>3. e = j
        BY <1>2, <4>2 DEF Distinct
      <4>4. i \in 1..(e - 1)
        BY <1>2, <4>3
      <4>5. ~Msgs!Matches(m, p_ptr) /\ Msgs!Matches(k, p_ptr)
        BY <2>2, <2>6, <4>1, <4>4
      <4>6. QED
        BY <4>5 DEF Msgs!Matches
    <3>2. QED
      BY <1>2, <2>4, <2>6, <3>1
  <2>7. QED
    BY <2>5, <2>6
<1>6. QED
  BY <1>3, <1>4, <1>5, MsgSteps

\* So it is not in a caller's hands before the first.
LEMMA MsgFirstOfSender == Msgs!MsgSpec => Msgs!FirstOfSender
<1>1. MsgInv /\ [Msgs!MsgNext]_(Msgs!msgVars) => [Msgs!InOrder]_(Msgs!msgVars)
  <2> SUFFICES ASSUME MsgInv, Msgs!MsgNext,
                      NEW q \in Inbox, NEW i \in DOMAIN Msgs!ListAt(q),
                      NEW j \in DOMAIN Msgs!ListAt(q), NEW m \in Msgs!Cell, NEW k \in Msgs!Cell,
                      i < j, Msgs!ListAt(q)[i] = Msgs!m_list(m),
                      Msgs!ListAt(q)[j] = Msgs!m_list(k),
                      m_sender[m] = m_sender[k], Msgs!Held(k)'
               PROVE  FALSE
    BY DEF Msgs!InOrder
  <2>1. q \in Box /\ MsgsOK(m_heap, inboxesNow)
    BY MsgNodeFacts DEF MsgInv
  <2>2. inboxesNow[q] = Msgs!ListAt(q) /\ DOMAIN inboxesNow[q] = 1..Len(inboxesNow[q])
    BY <2>1, InboxNames, MsgListFacts
  <2>3. Msgs!m_list(k) \in Range(inboxesNow'[q])
    BY <2>2, SecondStays
  <2>4. QED
    BY <2>1, <2>3, HeldAfter
<1>2. QED
  BY <1>1, MsgInvariant, PTL DEF Msgs!MsgSpec, Msgs!FirstOfSender

\* A behaviour of the three structures is one of msg.c.
LEMMA StructuresAreMsgs == StructuresSpec => Msgs!MsgSpec
<1>1. StructuresInit => Msgs!MsgInit
  BY DEF StructuresInit
<1>2. [PcbPart \/ MsgPart \/ DevPart \/ Stopped]_<<pcbVars, msgState, devState, part>>
        => [Msgs!MsgNext]_(Msgs!msgVars)
  BY DEF PcbPart, MsgPart, DevPart, Stopped, msgState, Msgs!msgVars
<1>3. QED
  BY <1>1, <1>2, PTL DEF StructuresSpec, Msgs!MsgSpec

\* msg.c: whatever is allocated, sent to either end, searched for and given back,
\* each call inserts a message at an end of one sequence or takes one out of one,
\* and leaves the order of everything else alone.
THEOREM InboxesImplemented == StructuresSpec => ImplementsInboxes
BY MsgImplementsLists, StructuresAreMsgs DEF ImplementsInboxes

\* msg.c:58-60: of two messages of a sender in an inbox the second is never taken
\* before the first, whoever is searched for.
THEOREM FirstOfSenderFirst == StructuresSpec => FirstOfSender
BY MsgFirstOfSender, StructuresAreMsgs DEF FirstOfSender
-----------------------------------------------------------------------------
\* ssi.c:75-79: the slot computed from a command is that of the subdevice, and
\* no two subdevices have one slot.
LEMMA SlotFacts ==
  /\ \A s \in Sub :
       /\ Devs!line(s) \in 0..4 /\ Devs!number(s) \in 0..7 /\ Devs!SlotOf(s) \in 0..47
       /\ s = Devs!START_DEVREG + 128 * Devs!line(s) + 16 * Devs!number(s)
                + (IF Devs!line(s) = 4 THEN 8 ELSE 0)
       /\ Devs!SlotOf(s) = 8 * Devs!line(s) + Devs!number(s) + (IF Devs!line(s) = 4 THEN 8 ELSE 0)
       /\ Devs!slot(s + 4, Devs!value(s)) = Devs!SlotOf(s)
  /\ \A s, r \in Sub : Devs!SlotOf(s) = Devs!SlotOf(r) => s = r
<1>1. ASSUME NEW s \in Sub
      PROVE  /\ Devs!line(s) \in 0..4 /\ Devs!number(s) \in 0..7
             /\ s = Devs!START_DEVREG + 128 * Devs!line(s) + 16 * Devs!number(s)
                      + (IF Devs!line(s) = 4 THEN 8 ELSE 0)
             /\ Devs!SlotOf(s) = 8 * Devs!line(s) + Devs!number(s)
                                   + (IF Devs!line(s) = 4 THEN 8 ELSE 0)
  <2>1. /\ s \in Nat /\ Devs!line(s) \in 0..4
        /\ Devs!transmitter(s) <=> Devs!line(s) = 4
        /\ s = Devs!START_DEVREG + 128 * Devs!line(s) + 16 * Devs!number(s)
                 + (IF Devs!transmitter(s) THEN 8 ELSE 0)
    BY DevicesAssumption
  <2>2. Devs!number(s) \in 0..7
    <3> DEFINE y == (s - Devs!START_DEVREG) % 128
    <3>1. s - Devs!START_DEVREG \in Int
      BY <2>1 DEF Devs!START_DEVREG
    <3>2. y \in 0..127
      <4> HIDE DEF Devs!START_DEVREG
      <4>1. QED
        BY <3>1
    <3>3. Devs!number(s) = y \div 16
      BY DEF Devs!number
    <3> HIDE DEF y
    <3>4. QED
      BY <3>2, <3>3
  <2>3. QED
    BY <2>1, <2>2 DEF Devs!SlotOf
<1>2. ASSUME NEW s \in Sub PROVE Devs!SlotOf(s) \in 0..47
  <2> DEFINE l == Devs!line(s)
             n == Devs!number(s)
  <2>1. l \in 0..4 /\ n \in 0..7 /\ Devs!SlotOf(s) = 8 * l + n + (IF l = 4 THEN 8 ELSE 0)
    BY <1>1
  <2> HIDE DEF l, n
  <2>2. QED
    BY <2>1
<1>3. ASSUME NEW s \in Sub PROVE Devs!slot(s + 4, Devs!value(s)) = Devs!SlotOf(s)
  <2> DEFINE l == Devs!line(s)
             n == Devs!number(s)
             snum == ((s + 4) - Devs!START_DEVREG) \div 16
             v == Devs!value(s)
  <2>1. /\ l \in 0..4 /\ n \in 0..7 /\ Devs!SlotOf(s) = 8 * l + n + (IF l = 4 THEN 8 ELSE 0)
        /\ s = Devs!START_DEVREG + 128 * l + 16 * n + (IF l = 4 THEN 8 ELSE 0)
    BY <1>1
  <2>2. l = 4 => v = 256 * 65 + 2
    BY DevicesAssumption DEF Devs!value, Devs!PRINTCHR
  <2>3. Devs!slot(s + 4, v) = IF Devs!Bit(v, 2) /\ snum < 40 /\ snum >= 32
                                THEN snum + 8 ELSE snum
    BY DEF Devs!slot, Devs!PRINTCHR
  <2>4. l = 4 => Devs!Bit(v, 2)
    BY <2>2 DEF Devs!Bit
  <2> HIDE DEF l, n, v
  <2>5. snum = 8 * l + n
    BY <2>1 DEF Devs!START_DEVREG
  <2> HIDE DEF snum
  <2>6. CASE l = 4
    <3>1. snum = 32 + n /\ snum < 40 /\ snum >= 32 /\ Devs!SlotOf(s) = snum + 8
      BY <2>1, <2>5, <2>6
    <3>2. QED
      BY <2>3, <2>4, <2>6, <3>1 DEF v
  <2>7. CASE l # 4
    <3>1. ~(snum >= 32) /\ Devs!SlotOf(s) = snum
      BY <2>1, <2>5, <2>7
    <3>2. QED
      BY <2>3, <3>1 DEF v
  <2>8. QED
    BY <2>6, <2>7 DEF v
<1>4. ASSUME NEW s \in Sub, NEW r \in Sub, Devs!SlotOf(s) = Devs!SlotOf(r) PROVE s = r
  <2> DEFINE l == Devs!line(s)
             n == Devs!number(s)
             k == Devs!line(r)
             m == Devs!number(r)
             start == Devs!START_DEVREG
  <2>1. /\ l \in 0..4 /\ n \in 0..7 /\ k \in 0..4 /\ m \in 0..7
        /\ Devs!SlotOf(s) = 8 * l + n + (IF l = 4 THEN 8 ELSE 0)
        /\ Devs!SlotOf(r) = 8 * k + m + (IF k = 4 THEN 8 ELSE 0)
        /\ s = start + 128 * l + 16 * n + (IF l = 4 THEN 8 ELSE 0)
        /\ r = start + 128 * k + 16 * m + (IF k = 4 THEN 8 ELSE 0)
    BY <1>1
  <2> HIDE DEF l, n, k, m, start
  <2>2. l = k /\ n = m
    <3>1. l \in 0..4 /\ n \in 0..7 /\ k \in 0..4 /\ m \in 0..7
      BY <2>1
    <3>2. 8 * l + n + (IF l = 4 THEN 8 ELSE 0) = 8 * k + m + (IF k = 4 THEN 8 ELSE 0)
      BY <1>4, <2>1
    <3>3. CASE l = 4
      BY ONLY <3>1, <3>2, <3>3
    <3>4. CASE l # 4
      BY ONLY <3>1, <3>2, <3>4
    <3>5. QED
      BY <3>3, <3>4
  <2>3. QED
    BY <2>1, <2>2
<1>5. QED
  BY <1>1, <1>2, <1>3, <1>4

\* A process waits in the slot of each subdevice that works or has completed, and
\* in no other.
DevInv ==
  /\ blocked_dev \in [0..47 -> Proc \cup {NULL}]
  /\ device \in [Sub -> {"idle", "busy", "done"}]
  /\ \A s \in Sub : blocked_dev[Devs!SlotOf(s)] = NULL <=> device[s] = "idle"
  /\ \A i \in 0..47 : blocked_dev[i] # NULL => \E s \in Sub : i = Devs!SlotOf(s)

\* What the channels see of the slots.
waiterNow == [s \in Sub |-> blocked_dev[Devs!SlotOf(s)]]

\* A store into the slot of s.
LEMMA SlotStored ==
  ASSUME DevInv, NEW s \in Sub, NEW p, blocked_dev' = [blocked_dev EXCEPT ![Devs!SlotOf(s)] = p]
  PROVE  waiterNow' = [waiterNow EXCEPT ![s] = p]
<1>1. \A r \in Sub : Devs!SlotOf(r) \in 0..47 /\ (Devs!SlotOf(r) = Devs!SlotOf(s) => r = s)
  BY SlotFacts
<1>2. \A r \in Sub : blocked_dev'[Devs!SlotOf(r)] = IF r = s THEN p ELSE blocked_dev[Devs!SlotOf(r)]
  BY <1>1 DEF DevInv
<1>3. waiterNow' = [r \in Sub |-> blocked_dev'[Devs!SlotOf(r)]]
  BY DEF waiterNow, Devs!SlotOf, Devs!line, Devs!number, Devs!transmitter, Devs!START_DEVREG
<1>4. QED
  BY <1>2, <1>3 DEF waiterNow

\* The invariant after it, when the state of s agrees.
LEMMA SlotKept ==
  ASSUME DevInv, NEW s \in Sub, NEW p \in Proc \cup {NULL}, NEW state \in {"idle", "busy", "done"},
         blocked_dev' = [blocked_dev EXCEPT ![Devs!SlotOf(s)] = p],
         device' = [device EXCEPT ![s] = state], p = NULL <=> state = "idle"
  PROVE  DevInv'
<1>1. \A r \in Sub : Devs!SlotOf(r) \in 0..47 /\ (Devs!SlotOf(r) = Devs!SlotOf(s) => r = s)
  BY SlotFacts
<1>2. /\ blocked_dev' \in [0..47 -> Proc \cup {NULL}]
      /\ device' \in [Sub -> {"idle", "busy", "done"}]
  BY <1>1 DEF DevInv
<1>3. \A r \in Sub : blocked_dev'[Devs!SlotOf(r)] = NULL <=> device'[r] = "idle"
  BY <1>1 DEF DevInv
<1>4. \A i \in 0..47 : blocked_dev'[i] # NULL => \E r \in Sub : i = Devs!SlotOf(r)
  BY <1>1 DEF DevInv
<1>5. QED
  BY <1>2, <1>3, <1>4 DEF DevInv
\* DOIO, the interrupt and its handling are steps of the channels.
LEMMA DevStepSound ==
  DevInv /\ Devs!DevicesNext
    => DevInv' /\ (Devs!C!ChannelNext \/ UNCHANGED <<waiterNow, device, answer>>)
<1> SUFFICES ASSUME DevInv, Devs!DevicesNext
             PROVE  DevInv' /\ (Devs!C!ChannelNext \/ UNCHANGED <<waiterNow, device, answer>>)
  OBVIOUS
<1> DEFINE slots == [s \in Sub |-> blocked_dev[Devs!SlotOf(s)]]
<1>1. slots = waiterNow /\ slots' = waiterNow'
  BY DEF waiterNow
<1>2. \A s \in Sub : waiterNow[s] = blocked_dev[Devs!SlotOf(s)] /\ Devs!SlotOf(s) \in 0..47
  BY SlotFacts DEF waiterNow
<1>3. NULL \notin Proc
  BY MsgAssumption
<1> HIDE DEF slots
<1>4. ASSUME NEW s \in Sub, Devs!Complete(s)
      PROVE  DevInv' /\ Devs!C!ChannelNext
  <2>1. /\ device[s] = "busy" /\ device' = [device EXCEPT ![s] = "done"]
        /\ answer' = NULL /\ blocked_dev' = blocked_dev
    BY <1>4 DEF Devs!Complete
  <2>2. waiterNow' = waiterNow
    BY <2>1 DEF waiterNow
  <2>3. Devs!C!Completion(s)
    BY <1>1, <2>1, <2>2 DEF Devs!C!Completion, slots
  <2>4. DevInv'
    BY <2>1 DEF DevInv
  <2>5. QED
    BY <2>3, <2>4 DEF Devs!C!ChannelNext
<1>5. ASSUME NEW s \in Sub, NEW p \in Proc, Devs!doIO(p, s)
      PROVE  DevInv' /\ Devs!C!ChannelNext
  <2>1. /\ device[s] = "idle" /\ \A i \in DOMAIN blocked_dev : blocked_dev[i] # p
        /\ blocked_dev' = [blocked_dev EXCEPT ![Devs!SlotOf(s)] = p]
        /\ device' = [device EXCEPT ![s] = "busy"] /\ answer' = NULL
    BY <1>5, SlotFacts DEF Devs!doIO
  <2>2. DevInv'
    BY <1>3, <2>1, SlotKept
  <2>3. waiterNow' = [waiterNow EXCEPT ![s] = p]
    BY <2>1, SlotStored
  <2>4. \A r \in Sub : waiterNow[r] # p
    BY <1>2, <2>1 DEF DevInv
  <2>5. Devs!C!Command(s, p)
    BY <1>1, <2>1, <2>3, <2>4 DEF Devs!C!Command, slots
  <2>6. QED
    BY <2>2, <2>5 DEF Devs!C!ChannelNext
<1>6. CASE Devs!getDevNumPanics
  <2>1. device' = device /\ answer' = answer /\ blocked_dev' = blocked_dev
    BY <1>6 DEF Devs!getDevNumPanics
  <2>2. QED
    BY <2>1 DEF waiterNow, DevInv
<1>7. CASE Devs!InterruptExceptionHandler
  <2> DEFINE Served(l, n) ==
               LET snum == 8 * l + n + (IF Devs!upperHalf(l, n) THEN 8 ELSE 0)
                   reg  == Devs!START_DEVREG + 128 * l + 16 * n
                             + (IF Devs!upperHalf(l, n) THEN 8 ELSE 0)
               IN  /\ answer' = IF blocked_dev[snum] = NULL THEN NULL
                                ELSE <<blocked_dev[snum], reg>>
                   /\ blocked_dev' = [blocked_dev EXCEPT ![snum] = NULL]
                   /\ device' = [r \in Sub |-> IF r = reg /\ device[r] = "done" THEN "idle"
                                               ELSE device[r]]
  <2>1. PICK l \in 0..4 : \E n \in Devs!Pending(l) : Served(l, n)
    BY <1>7 DEF Devs!InterruptExceptionHandler
  <2>2. PICK s \in Sub :
          device[s] = "done" /\ Devs!line(s) = l /\ Served(l, Devs!number(s))
    <3> HIDE DEF Served
    <3>1. QED
      BY <2>1 DEF Devs!Pending
  <2> DEFINE n == Devs!number(s)
  <2>3. /\ n \in 0..7 /\ Devs!SlotOf(s) = 8 * l + n + (IF l = 4 THEN 8 ELSE 0)
        /\ s = Devs!START_DEVREG + 128 * l + 16 * n + (IF l = 4 THEN 8 ELSE 0)
    BY <2>2, SlotFacts
  <2>4. Devs!upperHalf(l, n) <=> l = 4
    <3>1. CASE l = 4
      <4>1. 8 * l + n \in 0..47 /\ \A r \in Sub : Devs!SlotOf(r) # 8 * l + n
        <5>1. 8 * l + n \in 32..39
          BY <2>3, <3>1
        <5>2. \A r \in Sub : Devs!SlotOf(r) \notin 32..39
          <6> SUFFICES ASSUME NEW r \in Sub PROVE Devs!SlotOf(r) \notin 32..39
            OBVIOUS
          <6> DEFINE k == Devs!line(r)
                     m == Devs!number(r)
          <6>1. /\ k \in 0..4 /\ m \in 0..7
                /\ Devs!SlotOf(r) = 8 * k + m + (IF k = 4 THEN 8 ELSE 0)
            BY SlotFacts
          <6> HIDE DEF k, m
          <6>2. QED
            BY ONLY <6>1
        <5>3. QED
          BY <5>1, <5>2
      <4>2. blocked_dev[8 * l + n] = NULL
        BY <4>1 DEF DevInv
      <4>3. QED
        BY <3>1, <4>2 DEF Devs!upperHalf
    <3>2. CASE l # 4
      BY <3>2 DEF Devs!upperHalf
    <3>3. QED
      BY <3>1, <3>2
  <2> HIDE DEF n
  <2>5. /\ answer' = IF blocked_dev[Devs!SlotOf(s)] = NULL THEN NULL
                     ELSE <<blocked_dev[Devs!SlotOf(s)], s>>
        /\ blocked_dev' = [blocked_dev EXCEPT ![Devs!SlotOf(s)] = NULL]
        /\ device' = [r \in Sub |-> IF r = s /\ device[r] = "done" THEN "idle" ELSE device[r]]
    <3>1. (IF Devs!upperHalf(l, n) THEN 8 ELSE 0) = (IF l = 4 THEN 8 ELSE 0)
      BY <2>4
    <3>2. /\ 8 * l + n + (IF Devs!upperHalf(l, n) THEN 8 ELSE 0) = Devs!SlotOf(s)
          /\ Devs!START_DEVREG + 128 * l + 16 * n + (IF Devs!upperHalf(l, n) THEN 8 ELSE 0) = s
      BY <2>3, <3>1
    <3>3. QED
      BY <2>2, <3>2 DEF n
  <2>6. blocked_dev[Devs!SlotOf(s)] # NULL /\ waiterNow[s] = blocked_dev[Devs!SlotOf(s)]
    BY <1>2, <2>2 DEF DevInv
  <2>7. device' = [device EXCEPT ![s] = "idle"]
    BY <2>2, <2>5 DEF DevInv
  <2>8. DevInv'
    BY <2>5, <2>7, SlotKept
  <2>9. waiterNow' = [waiterNow EXCEPT ![s] = NULL]
    BY <2>5, SlotStored
  <2>10. Devs!C!Answer(s)
    BY <1>1, <2>2, <2>5, <2>6, <2>7, <2>9 DEF Devs!C!Answer, slots
  <2>11. QED
    BY <2>8, <2>10 DEF Devs!C!ChannelNext
<1>8. QED
  BY <1>4, <1>5, <1>6, <1>7 DEF Devs!DevicesNext

\* At the beginning no one waits.
LEMMA DevInitOK == Devs!DevicesInit => DevInv /\ Devs!C!ChannelInit
<1> SUFFICES ASSUME Devs!DevicesInit PROVE DevInv /\ Devs!C!ChannelInit
  OBVIOUS
<1>1. /\ blocked_dev = [i \in 0..47 |-> NULL] /\ device = [s \in Sub |-> "idle"]
      /\ answer = NULL
  BY DEF Devs!DevicesInit, Devs!SEMDEVLEN
<1>2. \A s \in Sub : Devs!SlotOf(s) \in 0..47
  BY SlotFacts
<1>3. DevInv
  BY <1>1, <1>2 DEF DevInv
<1>4. [s \in Sub |-> blocked_dev[Devs!SlotOf(s)]] = [s \in Sub |-> NULL]
  BY <1>1, <1>2
<1>5. QED
  BY <1>1, <1>3, <1>4 DEF Devs!C!ChannelInit

\* devices: doIO and the handler implement the channels.
LEMMA DevImplementsChannels == Devs!DevicesSpec => Devs!ImplementsChannels
<1>1. DevInv /\ [Devs!DevicesNext]_(Devs!devicesVars)
        => DevInv' /\ [Devs!C!ChannelNext]_(Devs!C!channelVars)
  <2>1. ASSUME DevInv, UNCHANGED Devs!devicesVars
        PROVE  DevInv' /\ UNCHANGED Devs!C!channelVars
    <3>1. blocked_dev' = blocked_dev /\ device' = device /\ answer' = answer
      BY <2>1 DEF Devs!devicesVars
    <3>2. QED
      BY <2>1, <3>1 DEF DevInv, Devs!C!channelVars
  <2>2. ASSUME DevInv, Devs!DevicesNext
        PROVE  DevInv' /\ [Devs!C!ChannelNext]_(Devs!C!channelVars)
    BY <2>2, DevStepSound DEF waiterNow, Devs!C!channelVars
  <2>3. QED
    BY <2>1, <2>2
<1>2. QED
  BY <1>1, DevInitOK, PTL
  DEF Devs!DevicesSpec, Devs!ImplementsChannels, Devs!C!ChannelSpec

\* A behaviour of the three structures is one of the devices.
LEMMA StructuresAreDevices == StructuresSpec => Devs!DevicesSpec
<1>1. StructuresInit => Devs!DevicesInit
  BY DEF StructuresInit
<1>2. [PcbPart \/ MsgPart \/ DevPart \/ Stopped]_<<pcbVars, msgState, devState, part>>
        => [Devs!DevicesNext]_(Devs!devicesVars)
  BY DEF PcbPart, MsgPart, DevPart, Stopped, devState, Devs!devicesVars
<1>3. QED
  BY <1>1, <1>2, PTL DEF StructuresSpec, Devs!DevicesSpec

\* ssi.c:75-79, interrupts.c:76-115: with any subdevices but receivers in use, who
\* gives a command is answered when it has been carried out, with its status, and
\* nobody else is.
THEOREM ChannelsImplemented == StructuresSpec => ImplementsChannels
BY DevImplementsChannels, StructuresAreDevices DEF ImplementsChannels
=============================================================================
