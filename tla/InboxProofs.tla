---------------------------- MODULE InboxProofs -----------------------------
(***************************************************************************)
(* What pushMessage and popMessage do to an inbox as Messages models it.    *)
(***************************************************************************)
EXTENDS Messages, Foundations

\* pushMessage (msg.c:54) keeps an inbox an inbox.
LEMMA PushSeq ==
  ASSUME NEW M, NEW box \in Seq(M), NEW m \in M
  PROVE  Push(box, m) \in Seq(M)
BY ConcatProperties DEF Push

\* It puts the new message first and moves no other.
LEMMA PushFacts ==
  ASSUME NEW M, NEW box \in Seq(M), NEW m \in M
  PROVE  /\ DOMAIN box = 1..Len(box) /\ Len(box) \in Nat
         /\ DOMAIN Push(box, m) = 1..(Len(box) + 1)
         /\ Push(box, m)[1] = m
         /\ \A i \in 1..Len(box) : Push(box, m)[i + 1] = box[i]
         /\ \A i \in 2..(Len(box) + 1) : Push(box, m)[i] = box[i - 1]
<1> DEFINE t == <<m>> \o box
<1>1. /\ t \in Seq(M) /\ Len(box) \in Nat
      /\ DOMAIN t = 1..(Len(box) + 1) /\ DOMAIN box = 1..Len(box)
      /\ t[1] = m
      /\ \A i \in 1..(Len(box) + 1) : i # 1 => t[i] = box[i - 1]
      /\ \A i \in 1..Len(box) : t[i + 1] = box[i]
  BY ConcatProperties, LenProperties
<1> HIDE DEF t
<1>2. t = Push(box, m)
  BY DEF t, Push
<1>3. QED
  BY <1>1, <1>2

\* list_del in popMessage (msg.c:69) takes one message out and keeps the order
\* of the others.
LEMMA RestFacts ==
  ASSUME NEW M, NEW box \in Seq(M), NEW i \in DOMAIN box
  PROVE  /\ Rest(box, i) \in Seq(M)
         /\ DOMAIN box = 1..Len(box) /\ Len(box) \in Nat /\ i \in 1..Len(box)
         /\ DOMAIN Rest(box, i) = 1..(Len(box) - 1)
         /\ \A k \in 1..(Len(box) - 1) :
              Rest(box, i)[k] = IF k < i THEN box[k] ELSE box[k + 1]
<1>1. Rest(box, i) = AllBut(box, i)
  BY DEF Rest, AllBut
<1>2. QED
  BY <1>1, AllButFacts

\* A message with a payload v is in the box, and there are no two.
Has(box, v)  == \E i \in DOMAIN box : box[i].m_payload = v
Once(box, v) == \A i, j \in DOMAIN box : box[i].m_payload = v /\ box[j].m_payload = v => i = j

\* The payloads in an inbox after pushMessage.
LEMMA PushHas ==
  ASSUME NEW M, NEW box \in Seq(M), NEW p, NEW v, Msg(p, v) \in M
  PROVE  /\ Push(box, Msg(p, v)) \in Seq(M)
         /\ Len(Push(box, Msg(p, v))) = Len(box) + 1
         /\ \A k \in DOMAIN Push(box, Msg(p, v)) :
              \/ Push(box, Msg(p, v))[k] = Msg(p, v)
              \/ \E i \in DOMAIN box : Push(box, Msg(p, v))[k] = box[i]
         /\ \A w : /\ Has(Push(box, Msg(p, v)), w) <=> w = v \/ Has(box, w)
                   /\ Once(box, w) /\ (w = v => ~ Has(box, w)) => Once(Push(box, Msg(p, v)), w)
<1> DEFINE m == Msg(p, v)
           t == Push(box, m)
<1>1. m.m_payload = v /\ m \in M
  BY DEF Msg
<1> HIDE DEF m
<1>2. /\ DOMAIN box = 1..Len(box) /\ Len(box) \in Nat
      /\ DOMAIN t = 1..(Len(box) + 1)
      /\ t[1] = m
      /\ \A i \in 1..Len(box) : t[i + 1] = box[i]
      /\ \A i \in 2..(Len(box) + 1) : t[i] = box[i - 1]
      /\ t \in Seq(M)
  <2>1. m \in M
    BY <1>1
  <2>2. t \in Seq(M)
    BY <2>1, PushSeq
  <2>3. QED
    BY <2>1, <2>2, PushFacts
<1> HIDE DEF t
<1>3. Len(t) = Len(box) + 1
  BY <1>2, LenProperties
<1>4. ASSUME NEW k \in DOMAIN t, k # 1 PROVE k - 1 \in DOMAIN box /\ t[k] = box[k - 1]
  BY <1>2, <1>4
<1>5. ASSUME NEW w PROVE Has(t, w) <=> w = v \/ Has(box, w)
  <2>1. ASSUME Has(t, w), w # v PROVE Has(box, w)
    BY <2>1, <1>1, <1>2, <1>4 DEF Has
  <2>2. ASSUME w = v PROVE Has(t, w)
    BY <2>2, <1>1, <1>2 DEF Has
  <2>3. ASSUME Has(box, w) PROVE Has(t, w)
    <3>1. PICK i \in DOMAIN box : box[i].m_payload = w
      BY <2>3 DEF Has
    <3>2. i + 1 \in DOMAIN t /\ t[i + 1] = box[i]
      BY <1>2
    <3>3. QED
      BY <3>1, <3>2 DEF Has
  <2>4. QED
    BY <2>1, <2>2, <2>3
<1>6. ASSUME NEW w, Once(box, w), w = v => ~ Has(box, w),
             NEW i \in DOMAIN t, NEW j \in DOMAIN t,
             t[i].m_payload = w, t[j].m_payload = w
      PROVE  i = j
  <2>1. CASE i = 1 \/ j = 1
    <3>1. w = v
      BY <2>1, <1>1, <1>2, <1>6
    <3>2. i = 1 /\ j = 1
      BY <3>1, <1>4, <1>6 DEF Has
    <3>3. QED
      BY <3>2
  <2>2. CASE i # 1 /\ j # 1
    <3>1. i - 1 = j - 1
      BY <2>2, <1>4, <1>6 DEF Once
    <3>2. i \in Int /\ j \in Int
      BY <1>2
    <3>3. QED
      BY <3>1, <3>2
  <2>3. QED
    BY <2>1, <2>2
<1>7. \A w : Once(box, w) /\ (w = v => ~ Has(box, w)) => Once(t, w)
  BY <1>6 DEF Once
<1>8. QED
  BY <1>2, <1>3, <1>4, <1>5, <1>7 DEF t, m

\* The payloads in an inbox after popMessage.
LEMMA RestHas ==
  ASSUME NEW M, NEW box \in Seq(M), NEW i \in DOMAIN box
  PROVE  /\ Rest(box, i) \in Seq(M) /\ box[i] \in M
         /\ Len(Rest(box, i)) = Len(box) - 1 /\ Len(box) \in Nat \ {0}
         /\ \A k \in DOMAIN Rest(box, i) : \E j \in DOMAIN box : Rest(box, i)[k] = box[j]
         /\ \A w : /\ Has(Rest(box, i), w) => Has(box, w)
                   /\ Once(box, w) => Once(Rest(box, i), w)
                   /\ Once(box, w) /\ box[i].m_payload = w => ~ Has(Rest(box, i), w)
<1> DEFINE t == Rest(box, i)
           from(k) == IF k < i THEN k ELSE k + 1
<1>1. /\ t \in Seq(M) /\ DOMAIN box = 1..Len(box) /\ Len(box) \in Nat /\ i \in 1..Len(box)
      /\ DOMAIN t = 1..(Len(box) - 1)
      /\ \A k \in 1..(Len(box) - 1) : t[k] = IF k < i THEN box[k] ELSE box[k + 1]
  BY RestFacts
<1> HIDE DEF t
<1>2. \A k \in DOMAIN t : from(k) \in DOMAIN box /\ from(k) # i /\ t[k] = box[from(k)]
  BY <1>1
<1>3. \A k, l \in DOMAIN t : from(k) = from(l) => k = l
  BY <1>1
<1>4. Len(t) = Len(box) - 1 /\ box[i] \in M
  <2>1. box[i] \in M
    BY <1>1, ElementOfSeq
  <2>2. Len(t) \in Nat /\ DOMAIN t = 1..Len(t)
    <3>1. t \in Seq(M)
      BY <1>1
    <3>2. QED
      BY <3>1, LenProperties
  <2>3. Len(box) - 1 \in Nat /\ 1..Len(t) = 1..(Len(box) - 1)
    <3>1. Len(box) \in Nat /\ i \in 1..Len(box)
      BY <1>1
    <3>2. Len(box) - 1 \in Nat
      BY <3>1
    <3>3. DOMAIN t = 1..(Len(box) - 1)
      BY <1>1
    <3>4. QED
      BY <3>2, <3>3, <2>2
  <2>4. \A k, l \in Nat : 1..k = 1..l => k = l
    <3>1. ASSUME NEW k \in Nat, NEW l \in Nat, k < l PROVE l \in 1..l /\ l \notin 1..k
      BY <3>1
    <3>2. QED
      BY <3>1
  <2>5. QED
    BY <2>1, <2>2, <2>3, <2>4
<1> HIDE DEF from
<1>5. ASSUME NEW w PROVE /\ Has(t, w) => Has(box, w)
                         /\ Once(box, w) => Once(t, w)
                         /\ Once(box, w) /\ box[i].m_payload = w => ~ Has(t, w)
  BY <1>2, <1>3 DEF Has, Once
<1>6. Len(box) # 0
  BY <1>1
<1>7. QED
  BY <1>1, <1>2, <1>4, <1>5, <1>6 DEF t
=============================================================================
