--------------------------- MODULE SwapMutexProofs ---------------------------
(***************************************************************************)
(* The swap mutex gives mutual exclusion to its honest clients, for any     *)
(* number of clients, and implements the safety part of Lock.               *)
(***************************************************************************)
EXTENDS SwapMutex, InboxProofs

Alone(S) == \A i, j \in S : i = j

\* What a new message changes for the messages of a sender c.
LEMMA PushMatching ==
  ASSUME NEW M, NEW box \in Seq(M), NEW p, NEW v, Msg(p, v) \in M,
         NEW c, c # NULL
  PROVE  /\ p # c => /\ Matching(Push(box, Msg(p, v)), c) = {} <=> Matching(box, c) = {}
                     /\ Alone(Matching(box, c)) => Alone(Matching(Push(box, Msg(p, v)), c))
         /\ p = c /\ Matching(box, c) = {} =>
              Matching(Push(box, Msg(p, v)), c) = {1}
<1> DEFINE m == Msg(p, v)
           t == Push(box, m)
<1>0. m \in M /\ m.m_sender = p
  BY DEF Msg
<1> HIDE DEF m
<1>1. /\ DOMAIN box = 1..Len(box) /\ Len(box) \in Nat
      /\ DOMAIN t = 1..(Len(box) + 1)
      /\ t[1].m_sender = p
      /\ \A i \in 1..Len(box) : t[i + 1] = box[i]
      /\ \A i \in 2..(Len(box) + 1) : t[i] = box[i - 1]
  <2> HIDE DEF t
  <2>1. t = Push(box, m)
    BY DEF t
  <2>2. /\ DOMAIN box = 1..Len(box) /\ Len(box) \in Nat
        /\ DOMAIN Push(box, m) = 1..(Len(box) + 1) /\ Push(box, m)[1] = m
        /\ \A i \in 1..Len(box) : Push(box, m)[i + 1] = box[i]
        /\ \A i \in 2..(Len(box) + 1) : Push(box, m)[i] = box[i - 1]
    BY <1>0, PushFacts
  <2>3. QED
    BY <2>1, <2>2, <1>0
<1> HIDE DEF t
<1>2. ASSUME p # c
      PROVE  Matching(t, c) = {} <=> Matching(box, c) = {}
  <2>1. \A i \in Matching(box, c) : i + 1 \in Matching(t, c)
    BY <1>1 DEF Matching
  <2>2. \A i \in Matching(t, c) : i - 1 \in Matching(box, c)
    BY <1>1, <1>2 DEF Matching
  <2>3. QED
    BY <2>1, <2>2
<1>3. ASSUME p # c, Alone(Matching(box, c))
      PROVE  Alone(Matching(t, c))
  <2> SUFFICES ASSUME NEW i \in Matching(t, c), NEW j \in Matching(t, c)
               PROVE  i = j
    BY DEF Alone
  <2>1. i - 1 \in Matching(box, c) /\ j - 1 \in Matching(box, c)
    BY <1>1, <1>3 DEF Matching
  <2>2. i \in Int /\ j \in Int /\ i - 1 = j - 1
    BY <1>1, <1>3, <2>1 DEF Alone, Matching
  <2>3. QED
    BY <2>2
<1>4. ASSUME p = c, Matching(box, c) = {}
      PROVE  Matching(t, c) = {1}
  <2>1. 1 \in Matching(t, c)
    BY <1>1, <1>4 DEF Matching
  <2>2. ASSUME NEW i \in Matching(t, c), i # 1
        PROVE  FALSE
    <3>1. i - 1 \in DOMAIN box /\ t[i] = box[i - 1] /\ t[i].m_sender = c
      BY <1>1, <2>2, <1>4 DEF Matching
    <3>2. i - 1 \in Matching(box, c)
      BY <3>1 DEF Matching
    <3>3. QED
      BY <3>2, <1>4
  <2>3. QED
    BY <2>1, <2>2
<1>5. QED
  BY <1>2, <1>3, <1>4 DEF t, m

\* What taking a message changes for the messages of a sender c.
LEMMA RestMatching ==
  ASSUME NEW M, NEW box \in Seq(M), NEW i \in DOMAIN box, NEW c, c # NULL
  PROVE  /\ Alone(Matching(box, c)) => Alone(Matching(Rest(box, i), c))
         /\ box[i].m_sender # c =>
              (Matching(Rest(box, i), c) = {} <=> Matching(box, c) = {})
         /\ box[i].m_sender = c /\ Alone(Matching(box, c)) =>
              Matching(Rest(box, i), c) = {}
<1> DEFINE t == Rest(box, i)
           At(k) == IF k < i THEN k ELSE k + 1
<1>1. /\ DOMAIN box = 1..Len(box) /\ Len(box) \in Nat /\ i \in 1..Len(box)
      /\ DOMAIN t = 1..(Len(box) - 1)
      /\ \A k \in 1..(Len(box) - 1) : t[k] = IF k < i THEN box[k] ELSE box[k + 1]
  BY RestFacts
<1> HIDE DEF t
<1>2. \A k \in Matching(t, c) : k \in Int /\ At(k) \in Matching(box, c) /\ At(k) # i
  BY <1>1 DEF Matching
<1>3. ASSUME Alone(Matching(box, c)), NEW k \in Matching(t, c), NEW l \in Matching(t, c)
      PROVE  k = l
  <2>1. At(k) = At(l)
    BY <1>2, <1>3 DEF Alone
  <2>2. k \in Int /\ l \in Int /\ i \in Int
    BY <1>1, <1>2
  <2>3. QED
    BY <2>1, <2>2
<1>4. ASSUME box[i].m_sender # c, NEW k \in Matching(box, c)
      PROVE  Matching(t, c) # {}
  <2>1. k \in 1..Len(box) /\ k # i /\ box[k].m_sender = c
    BY <1>1, <1>4 DEF Matching
  <2>2. CASE k < i
    BY <1>1, <2>1, <2>2 DEF Matching
  <2>3. CASE k > i
    <3>1. k - 1 \in 1..(Len(box) - 1) /\ t[k - 1] = box[k]
      BY <1>1, <2>1, <2>3
    <3>2. QED
      BY <1>1, <2>1, <3>1 DEF Matching
  <2>4. QED
    BY <1>1, <2>1, <2>2, <2>3
<1>5. ASSUME box[i].m_sender = c, Alone(Matching(box, c)), NEW k \in Matching(t, c)
      PROVE  FALSE
  <2>1. i \in Matching(box, c)
    BY <1>5 DEF Matching
  <2>2. QED
    BY <2>1, <1>2, <1>5 DEF Alone
<1>6. QED
  BY <1>2, <1>3, <1>4, <1>5 DEF t, Alone
-----------------------------------------------------------------------------
Box == [m_sender: Process \cup {sst}, m_payload: {0}]

\* A SEND of the support level puts one message in one inbox.
LEMMA SendEffect ==
  ASSUME MutexTypeOK, NEW p \in Process, NEW q \in Process, Send(p, q)
  PROVE  /\ inbox' \in [Process -> Seq(Box)]
         /\ inbox'[q] = Push(inbox[q], Msg(p, 0))
         /\ \A r \in Process \ {q} : inbox'[r] = inbox[r]
<1>1. Msg(p, 0) \in Box
  BY DEF Msg, Box
<1>2. inbox \in [Process -> Seq(Box)]
  BY DEF MutexTypeOK, Box
<1>3. Push(inbox[q], Msg(p, 0)) \in Seq(Box)
  BY <1>1, <1>2, PushSeq
<1>4. QED
  BY <1>2, <1>3 DEF Send

\* A RECEIVE takes one message out of one inbox.
LEMMA ReceiveEffect ==
  ASSUME MutexTypeOK, NEW p \in Process, NEW from, NEW i \in DOMAIN inbox[p],
         Receive(p, from, i)
  PROVE  /\ inbox' \in [Process -> Seq(Box)]
         /\ inbox'[p] = Rest(inbox[p], i)
         /\ \A r \in Process \ {p} : inbox'[r] = inbox[r]
         /\ i \in Matching(inbox[p], from)
<1>1. inbox \in [Process -> Seq(Box)]
  BY DEF MutexTypeOK, Box
<1>2. Rest(inbox[p], i) \in Seq(Box)
  BY <1>1, RestFacts
<1>3. QED
  BY <1>1, <1>2 DEF Receive, Takes

\* At the start nobody holds the mutex and nothing is under way.
LEMMA InitInv == MutexInit => MutexInv
<1> SUFFICES ASSUME MutexInit PROVE MutexInv
  OBVIOUS
<1>1. MutexTypeOK
  BY MutexAssumption DEF MutexInit, MutexTypeOK, ClientAt, Process
<1>2. swap_table_pcb \in Process /\ Client \subseteq Process
  BY DEF Process
<1>3. ServerInv
  BY <1>2, MutexAssumption DEF MutexInit, ServerInv
<1>4. ASSUME NEW c \in Honest PROVE HonestInv(c)
  <2>1. SentBy(c) = {} /\ ~Taken(c) /\ ~Answered(c)
    BY <1>2 DEF MutexInit, SentBy, Taken, Answered, Matching, Honest
  <2>2. pc[c] = "out" /\ paging = {} /\ process_locking_the_swap_mutex # c
    BY MutexAssumption DEF MutexInit, Honest
  <2>3. inbox[c] = <<>>
    BY <1>2 DEF MutexInit, Honest
  <2>4. OneExchange(c)
    BY <2>1, <2>2, <2>3 DEF OneExchange, Exchanging
  <2>5. QED
    BY <2>1, <2>2, <2>4 DEF HonestInv, Holding, Inside
<1>5. QED
  BY <1>1, <1>3, <1>4 DEF MutexInv

\* The message the mutex takes comes from whom it waits for, and what it means
\* is settled when it was sent.
LEMMA MutexReceiveInv == MutexInv /\ MutexReceive => MutexInv'
<1> SUFFICES ASSUME MutexInv, MutexReceive PROVE MutexInv'
  OBVIOUS
<1> USE DEF MutexInv
<1>0. swap_table_pcb \in Process /\ Client \subseteq Process /\ swap_table_pcb \notin Client
      /\ NULL \notin Client /\ Honest \subseteq Client
  BY MutexAssumption DEF Process, Honest
<1>1. PICK i \in DOMAIN inbox[swap_table_pcb] :
        /\ Receive(swap_table_pcb, Awaited, i)
        /\ server' = [at |-> "assign", sender |-> inbox[swap_table_pcb][i].m_sender]
  BY DEF MutexReceive
<1> DEFINE box == inbox[swap_table_pcb]
           s == box[i].m_sender
<1>2. /\ process_locking_the_swap_mutex' = process_locking_the_swap_mutex
      /\ pc' = pc /\ paging' = paging /\ server.at = "receive"
  BY DEF MutexReceive, clients
<1>3. /\ inbox' \in [Process -> Seq(Box)]
      /\ inbox'[swap_table_pcb] = Rest(box, i)
      /\ \A r \in Client : inbox'[r] = inbox[r]
      /\ i \in Matching(box, process_locking_the_swap_mutex)
  BY <1>0, <1>1, ReceiveEffect DEF Awaited
<1>4. s \in Client /\ box \in Seq(Box) /\ i \in DOMAIN box
  BY <1>0, <1>1 DEF ServerInv, MutexTypeOK, Box
<1>5. server'.at = "assign" /\ server'.sender = s
  BY <1>1
<1>6. MutexTypeOK'
  BY <1>1, <1>2, <1>3, <1>4 DEF MutexTypeOK, Box
<1>7. ServerInv'
  <2>1. process_locking_the_swap_mutex \in {NULL, s}
    BY <1>3 DEF Matching
  <2>2. \A k \in DOMAIN inbox'[swap_table_pcb] :
          inbox'[swap_table_pcb][k].m_sender \in Client
    <3>1. \A k \in DOMAIN box : box[k].m_sender \in Client
      BY DEF ServerInv
    <3>2. /\ DOMAIN box = 1..Len(box) /\ Len(box) \in Nat /\ i \in 1..Len(box)
          /\ DOMAIN Rest(box, i) = 1..(Len(box) - 1)
          /\ \A k \in 1..(Len(box) - 1) :
               Rest(box, i)[k] = IF k < i THEN box[k] ELSE box[k + 1]
      BY <1>4, RestFacts
    <3>3. ASSUME NEW k \in 1..(Len(box) - 1)
          PROVE  Rest(box, i)[k].m_sender \in Client
      <4>1. k \in DOMAIN box /\ k + 1 \in DOMAIN box
        BY <3>2
      <4>2. Rest(box, i)[k] = box[k] \/ Rest(box, i)[k] = box[k + 1]
        BY <3>2
      <4>3. QED
        BY <4>1, <4>2, <3>1
    <3>4. QED
      BY <3>2, <3>3, <1>3
  <2>3. QED
    BY <2>1, <2>2, <1>0, <1>2, <1>4, <1>5 DEF ServerInv
<1>8. ASSUME NEW c \in Honest PROVE HonestInv(c)'
  <2>1. c \in Client /\ c # NULL /\ c # swap_table_pcb /\ HonestInv(c)
        /\ OneExchange(c)
    BY <1>0 DEF HonestInv
  <2>2. Alone(SentBy(c))
    BY <2>1 DEF OneExchange, Alone
  <2>3. ~Taken(c) /\ (Answered(c)' <=> Answered(c)) /\ (Taken(c)' <=> s = c)
    BY <1>2, <1>3, <1>5, <2>1 DEF Taken, Answered
  <2>4. Alone(SentBy(c)')
    BY <1>3, <1>4, <2>1, <2>2, RestMatching DEF SentBy
  <2>5. Inside(c)' <=> Inside(c)
    BY <1>2 DEF Inside
  <2>6. CASE c # s
    <3>1. SentBy(c)' = {} <=> SentBy(c) = {}
      BY <1>3, <1>4, <2>1, <2>6, RestMatching DEF SentBy
    <3>2. OneExchange(c)'
      BY <3>1, <2>1, <2>3, <2>4, <2>6, <1>2, <1>3 DEF OneExchange, Alone
    <3>3. Holding(c)' <=> Holding(c)
      BY <3>1, <2>3, <2>5, <2>6, <1>2 DEF Holding
    <3>4. QED
      BY <3>2, <3>3, <2>1, <1>2 DEF HonestInv
  <2>7. CASE c = s
    <3>1. SentBy(c)' = {}
      BY <1>3, <1>4, <2>1, <2>2, <2>7, RestMatching DEF SentBy
    <3>2. SentBy(c) # {}
      BY <1>4, <2>7 DEF SentBy, Matching
    <3>3. ~Answered(c) /\ pc[c] \in Exchanging
      BY <3>2, <2>1 DEF OneExchange
    <3>4. OneExchange(c)'
      BY <3>1, <3>3, <2>1, <2>3, <2>4, <2>7, <1>2, <1>3 DEF OneExchange, Alone
    <3>5. Holding(c)' <=> Holding(c)
      BY <3>1, <3>2, <3>3, <2>3, <2>5, <2>7, <1>2, <1>5 DEF Holding, Exchanging
    <3>6. QED
      BY <3>4, <3>5, <2>1, <1>2 DEF HonestInv
  <2>8. QED
    BY <2>6, <2>7
<1>9. QED
  BY <1>6, <1>7, <1>8

\* The global names the client whose request was taken from when it is granted
\* to when its release is taken.
LEMMA MutexAssignInv == MutexInv /\ MutexAssign => MutexInv'
<1> SUFFICES ASSUME MutexInv, MutexAssign PROVE MutexInv'
  OBVIOUS
<1> USE DEF MutexInv
<1> DEFINE s == server.sender
<1>1. /\ server.at = "assign" /\ server'.at = "answer" /\ server'.sender = s
      /\ inbox' = inbox /\ pc' = pc /\ paging' = paging
      /\ process_locking_the_swap_mutex' =
           IF process_locking_the_swap_mutex # NULL THEN NULL ELSE s
  BY DEF MutexAssign, MutexTypeOK, clients
<1>2. s \in Client /\ NULL \notin Client /\ Honest \subseteq Client
  BY <1>1, MutexAssumption DEF ServerInv, Honest
<1>3. process_locking_the_swap_mutex \in {NULL, s}
  BY <1>1 DEF ServerInv
<1>4. MutexTypeOK'
  BY <1>1, <1>2 DEF MutexAssign, MutexTypeOK
<1>5. ServerInv'
  BY <1>1, <1>2 DEF ServerInv
<1>6. ASSUME NEW c \in Honest PROVE HonestInv(c)'
  <2>1. HonestInv(c) /\ OneExchange(c) /\ c # NULL /\ c \in Client
    BY <1>2 DEF HonestInv
  <2>2. /\ SentBy(c)' = SentBy(c) /\ (Answered(c)' <=> Answered(c))
        /\ (Taken(c)' <=> Taken(c)) /\ (Taken(c) <=> c = s)
        /\ (Inside(c)' <=> Inside(c))
    BY <1>1 DEF SentBy, Answered, Taken, Inside
  <2>3. OneExchange(c)'
    BY <2>1, <2>2, <1>1 DEF OneExchange
  <2>4. CASE c # s
    <3>1. process_locking_the_swap_mutex # c /\ process_locking_the_swap_mutex' # c
      BY <1>1, <1>3, <2>1, <2>4
    <3>2. Holding(c)' <=> Holding(c)
      BY <2>2, <2>4, <1>1 DEF Holding
    <3>3. QED
      BY <3>1, <3>2, <2>1, <2>3, <1>1 DEF HonestInv
  <2>5. CASE c = s
    <3>1. Taken(c) /\ SentBy(c) = {} /\ ~Answered(c) /\ pc[c] \in Exchanging
      BY <2>1, <2>2, <2>5 DEF OneExchange
    <3>2. ~Inside(c)
      BY <3>1 DEF Inside, Exchanging
    <3>3. process_locking_the_swap_mutex' = c <=> process_locking_the_swap_mutex # c
      BY <1>1, <1>3, <2>1, <2>5
    <3>4. Holding(c)' <=> ~Holding(c)
      BY <3>1, <3>2, <2>2, <1>1 DEF Holding, Exchanging
    <3>5. QED
      BY <3>3, <3>4, <2>1, <2>3, <1>1 DEF HonestInv
  <2>6. QED
    BY <2>4, <2>5
<1>7. QED
  BY <1>4, <1>5, <1>6

\* The answer of the mutex changes nothing about who holds it.
LEMMA MutexAnswerInv == MutexInv /\ MutexAnswer => MutexInv'
<1> SUFFICES ASSUME MutexInv, MutexAnswer PROVE MutexInv'
  OBVIOUS
<1> USE DEF MutexInv
<1> DEFINE s == server.sender
<1>1. /\ server.at = "answer" /\ server' = [at |-> "receive", sender |-> NULL]
      /\ pc' = pc /\ paging' = paging
      /\ process_locking_the_swap_mutex' = process_locking_the_swap_mutex
      /\ Send(swap_table_pcb, s)
  BY DEF MutexAnswer, clients
<1>2. /\ s \in Client /\ NULL \notin Client /\ Honest \subseteq Client
      /\ swap_table_pcb \in Process /\ Client \subseteq Process /\ swap_table_pcb \notin Client
  BY <1>1, MutexAssumption DEF ServerInv, Honest, Process
<1>3. /\ inbox' \in [Process -> Seq(Box)]
      /\ inbox'[s] = Push(inbox[s], Msg(swap_table_pcb, 0))
      /\ \A r \in Process \ {s} : inbox'[r] = inbox[r]
  BY <1>1, <1>2, SendEffect
<1>4. inbox'[swap_table_pcb] = inbox[swap_table_pcb]
  BY <1>2, <1>3
<1>5. MutexTypeOK'
  BY <1>1, <1>3 DEF MutexTypeOK, Box
<1>6. ServerInv'
  BY <1>1, <1>4 DEF ServerInv
<1>7. ASSUME NEW c \in Honest PROVE HonestInv(c)'
  <2>1. HonestInv(c) /\ OneExchange(c) /\ c # NULL /\ c \in Process
    BY <1>2 DEF HonestInv
  <2>2. /\ SentBy(c)' = SentBy(c) /\ ~Taken(c)' /\ (Taken(c) <=> c = s)
        /\ (Inside(c)' <=> Inside(c))
    BY <1>1, <1>4, <2>1 DEF SentBy, Taken, Inside
  <2>3. CASE c # s
    <3>1. inbox'[c] = inbox[c]
      BY <1>3, <2>1, <2>3
    <3>2. OneExchange(c)'
      BY <3>1, <2>1, <2>2, <2>3, <1>1 DEF OneExchange, Answered
    <3>3. Holding(c)' <=> Holding(c)
      BY <3>1, <2>2, <2>3, <1>1 DEF Holding, Answered
    <3>4. QED
      BY <3>2, <3>3, <2>1, <1>1 DEF HonestInv
  <2>4. CASE c = s
    <3>1. Taken(c) /\ SentBy(c) = {} /\ ~Answered(c) /\ pc[c] \in Exchanging
      BY <2>1, <2>2, <2>4 DEF OneExchange
    <3>2. inbox'[c] = <<Msg(swap_table_pcb, 0)>>
      <4>1. Push(<<>>, Msg(swap_table_pcb, 0)) = <<Msg(swap_table_pcb, 0)>>
        BY DEF Push
      <4>2. QED
        BY <4>1, <3>1, <1>3, <2>4 DEF Answered
    <3>3. Answered(c)'
      BY <3>2 DEF Answered
    <3>4. OneExchange(c)'
      BY <3>1, <3>2, <3>3, <2>1, <2>2, <1>1 DEF OneExchange
    <3>5. Holding(c)' <=> Holding(c)
      BY <3>1, <3>3, <2>2, <1>1 DEF Holding, Exchanging
    <3>6. QED
      BY <3>4, <3>5, <2>1, <1>1 DEF HonestInv
  <2>5. QED
    BY <2>3, <2>4
<1>8. QED
  BY <1>5, <1>6, <1>7
-----------------------------------------------------------------------------
\* What a step of client c must not touch.
Frame(c) ==
  /\ process_locking_the_swap_mutex' = process_locking_the_swap_mutex
  /\ server' = server
  /\ \A d \in Honest \ {c} :
       /\ pc'[d] = pc[d] /\ (d \in paging' <=> d \in paging)
       /\ inbox'[d] = inbox[d]
       /\ SentBy(d)' = {} <=> SentBy(d) = {}
       /\ Alone(SentBy(d)) => Alone(SentBy(d)')

\* A step of a client keeps what is known of the others.
LEMMA OthersInv ==
  ASSUME MutexInv, NEW c \in Client, Frame(c), NEW d \in Honest \ {c}
  PROVE  HonestInv(d)'
<1>1. HonestInv(d) /\ OneExchange(d)
  BY DEF MutexInv, HonestInv
<1>2. /\ process_locking_the_swap_mutex' = process_locking_the_swap_mutex
      /\ server' = server
      /\ pc'[d] = pc[d] /\ (d \in paging' <=> d \in paging)
      /\ inbox'[d] = inbox[d]
      /\ SentBy(d)' = {} <=> SentBy(d) = {}
      /\ Alone(SentBy(d)) => Alone(SentBy(d)')
  BY DEF Frame
<1>3. /\ (Taken(d)' <=> Taken(d)) /\ (Answered(d)' <=> Answered(d))
      /\ (Inside(d)' <=> Inside(d))
  BY <1>2 DEF Taken, Answered, Inside
<1>4. OneExchange(d)'
  BY <1>1, <1>2, <1>3 DEF OneExchange, Alone
<1>5. Holding(d)' <=> Holding(d)
  BY <1>2, <1>3 DEF Holding
<1>6. QED
  BY <1>1, <1>2, <1>4, <1>5 DEF HonestInv

\* What every step of a client c is known to leave: types, the server and the
\* other clients.
Beside(c) == MutexTypeOK' /\ ServerInv' /\ Frame(c)

\* A SEND to the mutex.
LEMMA ToMutexStep ==
  ASSUME MutexInv, NEW c \in Client, NEW from, NEW to \in ClientAt, ToMutex(c, from, to),
         paging' \subseteq Client, paging' \ {c} = paging \ {c}
  PROVE  /\ Beside(c) /\ pc[c] = from /\ pc'[c] = to /\ inbox'[c] = inbox[c]
         /\ SentBy(c) = {} => SentBy(c)' = {1}
<1> USE DEF MutexInv
<1>1. /\ process_locking_the_swap_mutex' = process_locking_the_swap_mutex
      /\ server' = server
      /\ pc[c] = from /\ pc' = [pc EXCEPT ![c] = to]
      /\ Send(c, swap_table_pcb)
  BY DEF ToMutex, Goes
<1>2. /\ NULL \notin Client /\ Honest \subseteq Client /\ NULL # swap_table_pcb
      /\ swap_table_pcb \in Process /\ Client \subseteq Process /\ swap_table_pcb \notin Client
  BY MutexAssumption DEF Honest, Process
<1>3. /\ inbox' \in [Process -> Seq(Box)]
      /\ inbox'[swap_table_pcb] = Push(inbox[swap_table_pcb], Msg(c, 0))
      /\ \A r \in Client : inbox'[r] = inbox[r]
  BY <1>1, <1>2, SendEffect
<1>4. MutexTypeOK'
  BY <1>1, <1>3 DEF MutexTypeOK, Box
<1>5. inbox[swap_table_pcb] \in Seq(Box) /\ Msg(c, 0) \in Box
  BY <1>2 DEF MutexTypeOK, Box, Msg
<1>6. ServerInv'
  <2> DEFINE box == inbox[swap_table_pcb]
             m == Msg(c, 0)
  <2>1. m.m_sender = c /\ m \in Box /\ box \in Seq(Box)
    BY <1>5 DEF Msg
  <2> HIDE DEF m
  <2>2. /\ DOMAIN box = 1..Len(box) /\ Len(box) \in Nat
        /\ DOMAIN Push(box, m) = 1..(Len(box) + 1)
        /\ Push(box, m)[1] = m
        /\ \A i \in 2..(Len(box) + 1) : Push(box, m)[i] = box[i - 1]
    BY <2>1, PushFacts
  <2>3. ASSUME NEW i \in DOMAIN Push(box, m)
        PROVE  Push(box, m)[i].m_sender \in Client
    <3>1. CASE i = 1
      BY <3>1, <2>1, <2>2
    <3>2. CASE i # 1
      <4>1. i \in 2..(Len(box) + 1) /\ i - 1 \in DOMAIN box
        BY <3>2, <2>2
      <4>2. QED
        BY <4>1, <2>2 DEF ServerInv
    <3>3. QED
      BY <3>1, <3>2
  <2>4. inbox'[swap_table_pcb] = Push(box, m)
    BY <1>3 DEF m
  <2>5. QED
    BY <2>3, <2>4, <1>1 DEF ServerInv
<1>7. Frame(c)
  <2> SUFFICES ASSUME NEW d \in Honest \ {c}
               PROVE  /\ pc'[d] = pc[d] /\ (d \in paging' <=> d \in paging)
                      /\ inbox'[d] = inbox[d]
                      /\ SentBy(d)' = {} <=> SentBy(d) = {}
                      /\ Alone(SentBy(d)) => Alone(SentBy(d)')
    BY <1>1 DEF Frame
  <2>1. d \in Client /\ d # NULL /\ d # c
    BY <1>2
  <2>2. pc'[d] = pc[d] /\ inbox'[d] = inbox[d]
    BY <1>1, <1>3, <2>1 DEF MutexTypeOK
  <2>3. d \in paging' <=> d \in paging
    BY <2>1
  <2>4. /\ SentBy(d)' = {} <=> SentBy(d) = {}
        /\ Alone(SentBy(d)) => Alone(SentBy(d)')
    BY <1>3, <1>5, <2>1, PushMatching DEF SentBy
  <2>5. QED
    BY <2>2, <2>3, <2>4
<1>8. SentBy(c) = {} => SentBy(c)' = {1}
  <2> DEFINE box == inbox[swap_table_pcb]
  <2>1. c # NULL /\ box \in Seq(Box) /\ Msg(c, 0) \in Box
    BY <1>2, <1>5
  <2> HIDE DEF box
  <2>2. Matching(box, c) = {} => Matching(Push(box, Msg(c, 0)), c) = {1}
    BY <2>1, PushMatching
  <2>3. QED
    BY <2>2, <1>3 DEF SentBy, box
<1>9. QED
  BY <1>1, <1>3, <1>4, <1>6, <1>7, <1>8 DEF Beside, MutexTypeOK

\* A RECEIVE by a client.
LEMMA ReceiveStep ==
  ASSUME MutexInv, NEW c \in Client, NEW from, NEW i \in DOMAIN inbox[c],
         Receive(c, from, i),
         process_locking_the_swap_mutex' = process_locking_the_swap_mutex,
         server' = server, pc' \in [Client -> ClientAt],
         \A d \in Client \ {c} : pc'[d] = pc[d],
         paging' \subseteq Client, paging' \ {c} = paging \ {c}
  PROVE  /\ Beside(c) /\ SentBy(c)' = SentBy(c)
         /\ c \in Honest => Answered(c) /\ ~Answered(c)' /\ inbox'[c] = <<>>
<1> USE DEF MutexInv
<1>1. /\ Honest \subseteq Client
      /\ swap_table_pcb \in Process /\ Client \subseteq Process /\ swap_table_pcb \notin Client
  BY MutexAssumption DEF Honest, Process
<1>2. /\ inbox' \in [Process -> Seq(Box)]
      /\ inbox'[c] = Rest(inbox[c], i)
      /\ \A r \in Process \ {c} : inbox'[r] = inbox[r]
  BY <1>1, ReceiveEffect
<1>3. inbox'[swap_table_pcb] = inbox[swap_table_pcb]
  BY <1>1, <1>2
<1>4. MutexTypeOK'
  BY <1>2 DEF MutexTypeOK, Box
<1>5. ServerInv'
  BY <1>3 DEF ServerInv
<1>6. \A d \in Client : SentBy(d)' = SentBy(d)
  BY <1>3 DEF SentBy
<1>7. Frame(c)
  BY <1>1, <1>2, <1>6 DEF Frame
<1>8. ASSUME c \in Honest
      PROVE  Answered(c) /\ ~Answered(c)' /\ inbox'[c] = <<>>
  <2>1. inbox[c] \in {<<>>, <<Msg(swap_table_pcb, 0)>>}
    BY <1>8 DEF HonestInv, OneExchange
  <2>2. inbox[c] = <<Msg(swap_table_pcb, 0)>>
    <3>1. inbox[c] # <<>>
      OBVIOUS
    <3>2. QED
      BY <2>1, <3>1
  <2>3. i = 1 /\ Len(inbox[c]) = 1
    BY <2>2
  <2>4. Rest(inbox[c], i) = <<>>
    <3>1. inbox[c] \in Seq(Box)
      BY <1>1 DEF MutexTypeOK, Box
    <3>2. Rest(inbox[c], i) \in Seq(Box) /\ DOMAIN Rest(inbox[c], i) = 1..0
      BY <2>3, <3>1, RestFacts
    <3>3. QED
      BY <3>2, EmptySeq, LenProperties
  <2>5. QED
    BY <2>2, <2>4, <1>2 DEF Answered
<1>9. QED
  BY <1>1, <1>4, <1>5, <1>6, <1>7, <1>8 DEF Beside

\* A step without a message.
LEMMA QuietStep ==
  ASSUME MutexInv, NEW c \in Client, NEW from, NEW to \in ClientAt, Goes(c, from, to),
         Quiet, UNCHANGED paging
  PROVE  /\ Beside(c) /\ pc[c] = from /\ pc'[c] = to
         /\ inbox' = inbox /\ SentBy(c)' = SentBy(c)
<1> USE DEF MutexInv
<1>1. Honest \subseteq Client
  BY DEF Honest
<1>2. /\ process_locking_the_swap_mutex' = process_locking_the_swap_mutex
      /\ server' = server /\ inbox' = inbox /\ paging' = paging
      /\ pc[c] = from /\ pc' = [pc EXCEPT ![c] = to]
  BY DEF Goes, Quiet
<1>3. MutexTypeOK'
  BY <1>2 DEF MutexTypeOK
<1>4. ServerInv'
  BY <1>2 DEF ServerInv
<1>5. \A d : SentBy(d)' = SentBy(d)
  BY <1>2 DEF SentBy
<1>6. Frame(c)
  BY <1>1, <1>2, <1>5 DEF Frame, MutexTypeOK
<1>7. QED
  BY <1>2, <1>3, <1>4, <1>5, <1>6 DEF Beside, MutexTypeOK

\* An honest client after its step.
LEMMA OwnStep ==
  ASSUME MutexInv, NEW c \in Client, Beside(c),
         c \in Honest => HonestInv(c)'
  PROVE  MutexInv'
<1>1. ASSUME NEW d \in Honest PROVE HonestInv(d)'
  <2>1. CASE d = c
    BY <2>1, <1>1
  <2>2. CASE d # c
    BY <2>2, <1>1, OthersInv DEF Beside
  <2>3. QED
    BY <2>1, <2>2
<1>2. QED
  BY <1>1 DEF MutexInv, Beside

\* The calls of the pager (vmSupport.c:114-115, 172-173).
LEMMA PagerInv ==
  ASSUME MutexInv, NEW c \in Client,
         Request(c) \/ Obtain(c) \/ Release(c) \/ Resume(c)
  PROVE  MutexInv'
<1>0. c \in Honest => HonestInv(c) /\ OneExchange(c)
  BY DEF MutexInv, HonestInv
<1>1. CASE Request(c)
  <2>1. ToMutex(c, "out", "asking") /\ paging' = paging \cup {c} /\ "asking" \in ClientAt
        /\ paging' \subseteq Client /\ paging' \ {c} = paging \ {c}
    BY <1>1 DEF Request, MutexInv, MutexTypeOK, ClientAt
  <2>2. /\ Beside(c) /\ pc[c] = "out" /\ pc'[c] = "asking" /\ inbox'[c] = inbox[c]
        /\ SentBy(c) = {} => SentBy(c)' = {1}
    BY <2>1, ToMutexStep
  <2>3. ASSUME c \in Honest PROVE HonestInv(c)'
    <3>1. SentBy(c) = {} /\ ~Taken(c) /\ ~Answered(c)
      BY <2>2, <2>3, <1>0 DEF OneExchange, Exchanging
    <3>2. SentBy(c)' = {1} /\ ~Taken(c)' /\ ~Answered(c)'
      BY <2>2, <3>1 DEF Taken, Answered, Beside, Frame
    <3>3. OneExchange(c)'
      BY <2>2, <2>3, <3>2, <1>0 DEF OneExchange, Exchanging
    <3>4. ~Holding(c)' /\ ~Holding(c)
      BY <2>2, <3>2 DEF Holding, Inside
    <3>5. QED
      BY <2>1, <2>2, <2>3, <3>3, <3>4, <1>0 DEF HonestInv, Beside, Frame
  <2>4. QED
    BY <2>2, <2>3, OwnStep
<1>2. CASE Obtain(c)
  <2>1. /\ pc[c] = "asking" /\ pc' = [pc EXCEPT ![c] = "in"] /\ paging' = paging
        /\ process_locking_the_swap_mutex' = process_locking_the_swap_mutex
        /\ server' = server
    BY <1>2 DEF Obtain, FromMutex, Goes
  <2>2. PICK i \in DOMAIN inbox[c] : Receive(c, swap_table_pcb, i)
    BY <1>2 DEF Obtain, FromMutex
  <2>3. /\ pc' \in [Client -> ClientAt] /\ \A d \in Client \ {c} : pc'[d] = pc[d]
        /\ pc'[c] = "in" /\ paging' \subseteq Client
    BY <2>1 DEF MutexInv, MutexTypeOK, ClientAt
  <2>4. /\ Beside(c) /\ SentBy(c)' = SentBy(c)
        /\ c \in Honest => Answered(c) /\ ~Answered(c)' /\ inbox'[c] = <<>>
    BY <2>1, <2>2, <2>3, ReceiveStep
  <2>5. ASSUME c \in Honest PROVE HonestInv(c)'
    <3>1. SentBy(c)' = {} /\ ~Taken(c)' /\ ~Answered(c)' /\ Answered(c)
      BY <2>1, <2>4, <2>5, <1>0 DEF OneExchange, Taken
    <3>2. OneExchange(c)'
      BY <2>3, <2>4, <2>5, <3>1 DEF OneExchange, Exchanging
    <3>3. Holding(c) /\ Holding(c)'
      BY <2>1, <2>3, <3>1 DEF Holding, Inside
    <3>4. QED
      BY <2>1, <2>3, <2>5, <3>2, <3>3, <1>0 DEF HonestInv
  <2>6. QED
    BY <2>4, <2>5, OwnStep
<1>3. CASE Release(c)
  <2>1. ToMutex(c, "in", "releasing") /\ paging' = paging /\ "releasing" \in ClientAt
        /\ paging' \subseteq Client
    BY <1>3 DEF Release, MutexInv, MutexTypeOK, ClientAt
  <2>2. /\ Beside(c) /\ pc[c] = "in" /\ pc'[c] = "releasing" /\ inbox'[c] = inbox[c]
        /\ SentBy(c) = {} => SentBy(c)' = {1}
    BY <2>1, ToMutexStep
  <2>3. ASSUME c \in Honest PROVE HonestInv(c)'
    <3>1. SentBy(c) = {} /\ ~Taken(c) /\ ~Answered(c)
      BY <2>2, <2>3, <1>0 DEF OneExchange, Exchanging
    <3>2. SentBy(c)' = {1} /\ ~Taken(c)' /\ ~Answered(c)'
      BY <2>2, <3>1 DEF Taken, Answered, Beside, Frame
    <3>3. OneExchange(c)'
      BY <2>2, <2>3, <3>2, <1>0 DEF OneExchange, Exchanging
    <3>4. Holding(c)' /\ Holding(c)
      BY <2>2, <3>2 DEF Holding, Inside
    <3>5. QED
      BY <2>1, <2>2, <2>3, <3>3, <3>4, <1>0 DEF HonestInv, Beside, Frame
  <2>4. QED
    BY <2>2, <2>3, OwnStep
<1>4. CASE Resume(c)
  <2>1. /\ pc[c] = "releasing" /\ pc' = [pc EXCEPT ![c] = "out"] /\ paging' = paging \ {c}
        /\ process_locking_the_swap_mutex' = process_locking_the_swap_mutex
        /\ server' = server
    BY <1>4 DEF Resume, FromMutex, Goes
  <2>2. PICK i \in DOMAIN inbox[c] : Receive(c, swap_table_pcb, i)
    BY <1>4 DEF Resume, FromMutex
  <2>3. /\ pc' \in [Client -> ClientAt] /\ \A d \in Client \ {c} : pc'[d] = pc[d]
        /\ pc'[c] = "out" /\ paging' \subseteq Client /\ paging' \ {c} = paging \ {c}
    BY <2>1 DEF MutexInv, MutexTypeOK, ClientAt
  <2>4. /\ Beside(c) /\ SentBy(c)' = SentBy(c)
        /\ c \in Honest => Answered(c) /\ ~Answered(c)' /\ inbox'[c] = <<>>
    BY <2>1, <2>2, <2>3, ReceiveStep
  <2>5. ASSUME c \in Honest PROVE HonestInv(c)'
    <3>1. SentBy(c) = {} /\ SentBy(c)' = {} /\ ~Taken(c) /\ ~Taken(c)' /\ ~Answered(c)'
      BY <2>1, <2>4, <2>5, <1>0 DEF OneExchange, Taken
    <3>2. OneExchange(c)'
      BY <2>3, <2>4, <2>5, <3>1 DEF OneExchange, Exchanging
    <3>3. ~Holding(c) /\ ~Holding(c)'
      BY <2>1, <2>3, <3>1 DEF Holding, Inside
    <3>4. QED
      BY <2>1, <2>3, <2>5, <3>2, <3>3, <1>0 DEF HonestInv
  <2>6. QED
    BY <2>4, <2>5, OwnStep
<1>5. QED
  BY <1>1, <1>2, <1>3, <1>4

\* TrapExceptionHandlerSupport (exceptionsSupport.c:14-20): an honest client
\* releases what it holds and nothing else, and does not come back.
LEMMA TrapInv ==
  ASSUME MutexInv, NEW c \in Client,
         \/ Fail(c) \/ Trap(c) \/ TrapTest(c) \/ TrapUnlock(c) \/ TrapUnlocked(c)
         \/ TrapReport(c) \/ TrapReturn(c)
  PROVE  MutexInv'
<1>0. c \in Honest => HonestInv(c) /\ OneExchange(c)
  BY DEF MutexInv, HonestInv
<1>1. ASSUME NEW from, NEW to \in ClientAt \ Exchanging, from \notin Exchanging,
             Goes(c, from, to), Quiet, UNCHANGED paging,
             c \in Honest => /\ process_locking_the_swap_mutex = c <=> Inside(c)'
                             /\ to = "out" => c \notin paging
                             /\ to \in {"in", "unlock"} => c \in paging
      PROVE  MutexInv'
  <2>1. /\ Beside(c) /\ pc[c] = from /\ pc'[c] = to
        /\ inbox' = inbox /\ SentBy(c)' = SentBy(c)
    BY <1>1, QuietStep
  <2>2. ASSUME c \in Honest PROVE HonestInv(c)'
    <3>1. SentBy(c) = {} /\ ~Taken(c) /\ ~Answered(c)
      BY <2>1, <2>2, <1>0, <1>1 DEF OneExchange
    <3>2. SentBy(c)' = {} /\ ~Taken(c)' /\ ~Answered(c)'
      BY <2>1, <3>1 DEF Taken, Answered, Beside, Frame
    <3>3. OneExchange(c)'
      BY <2>1, <2>2, <3>2, <1>0, <1>1 DEF OneExchange
    <3>4. Holding(c)' <=> Inside(c)'
      BY <2>1, <1>1 DEF Holding, Exchanging
    <3>5. QED
      BY <2>1, <2>2, <3>3, <3>4, <1>1 DEF HonestInv, Beside, Frame, Exchanging
  <2>3. QED
    BY <2>1, <2>2, OwnStep
<1>2. CASE Fail(c)
  <2>1. Goes(c, "in", "trapped") /\ Quiet /\ UNCHANGED paging /\ pc'[c] = "trapped"
        /\ pc[c] = "in" /\ paging' = paging
    BY <1>2 DEF Fail, Goes, MutexInv, MutexTypeOK
  <2>2. c \in Honest => process_locking_the_swap_mutex = c /\ Inside(c)'
    BY <2>1, <1>0 DEF HonestInv, Holding, Inside
  <2>3. QED
    BY <2>1, <2>2, <1>1 DEF ClientAt, Exchanging
<1>3. CASE Trap(c)
  <2>1. Goes(c, "out", "trapped") /\ Quiet /\ UNCHANGED paging /\ pc'[c] = "trapped"
        /\ pc[c] = "out" /\ paging' = paging
    BY <1>3 DEF Trap, Goes, MutexInv, MutexTypeOK
  <2>2. c \in Honest => process_locking_the_swap_mutex # c /\ ~Inside(c)'
    BY <2>1, <1>0 DEF HonestInv, Holding, Inside
  <2>3. QED
    BY <2>1, <2>2, <1>1 DEF ClientAt, Exchanging
<1>4. CASE TrapTest(c)
  <2>1. /\ pc[c] = "trapped" /\ Quiet /\ UNCHANGED paging /\ paging' = paging
        /\ process_locking_the_swap_mutex = c =>
             Goes(c, "trapped", "unlock") /\ pc'[c] = "unlock"
        /\ process_locking_the_swap_mutex # c =>
             Goes(c, "trapped", "report") /\ pc'[c] = "report"
    BY <1>4 DEF TrapTest, Goes, MutexInv, MutexTypeOK
  <2>2. c \in Honest => (process_locking_the_swap_mutex = c <=> c \in paging)
    BY <2>1, <1>0 DEF HonestInv, Holding, Inside
  <2>3. CASE process_locking_the_swap_mutex = c
    <3>1. Inside(c)'
      BY <2>1, <2>3 DEF Inside
    <3>2. QED
      BY <2>1, <2>2, <2>3, <3>1, <1>1 DEF ClientAt, Exchanging
  <2>4. CASE process_locking_the_swap_mutex # c
    <3>1. ~Inside(c)'
      BY <2>1, <2>4 DEF Inside
    <3>2. QED
      BY <2>1, <2>2, <2>4, <3>1, <1>1 DEF ClientAt, Exchanging
  <2>5. QED
    BY <2>3, <2>4
<1>5. CASE TrapUnlock(c)
  <2>1. ToMutex(c, "unlock", "unlocking") /\ paging' = paging /\ "unlocking" \in ClientAt
        /\ paging' \subseteq Client
    BY <1>5 DEF TrapUnlock, MutexInv, MutexTypeOK, ClientAt
  <2>2. /\ Beside(c) /\ pc[c] = "unlock" /\ pc'[c] = "unlocking" /\ inbox'[c] = inbox[c]
        /\ SentBy(c) = {} => SentBy(c)' = {1}
    BY <2>1, ToMutexStep
  <2>3. ASSUME c \in Honest PROVE HonestInv(c)'
    <3>1. SentBy(c) = {} /\ ~Taken(c) /\ ~Answered(c)
      BY <2>2, <2>3, <1>0 DEF OneExchange, Exchanging
    <3>2. SentBy(c)' = {1} /\ ~Taken(c)' /\ ~Answered(c)'
      BY <2>2, <3>1 DEF Taken, Answered, Beside, Frame
    <3>3. OneExchange(c)'
      BY <2>2, <2>3, <3>2, <1>0 DEF OneExchange, Exchanging
    <3>4. Holding(c)' /\ Holding(c)
      BY <2>2, <3>2 DEF Holding, Inside
    <3>5. QED
      BY <2>1, <2>2, <2>3, <3>3, <3>4, <1>0 DEF HonestInv, Beside, Frame
  <2>4. QED
    BY <2>2, <2>3, OwnStep
<1>6. CASE TrapUnlocked(c)
  <2>1. /\ pc[c] = "unlocking" /\ pc' = [pc EXCEPT ![c] = "report"] /\ paging' = paging
        /\ process_locking_the_swap_mutex' = process_locking_the_swap_mutex
        /\ server' = server
    BY <1>6 DEF TrapUnlocked, FromMutex, Goes
  <2>2. PICK i \in DOMAIN inbox[c] : Receive(c, swap_table_pcb, i)
    BY <1>6 DEF TrapUnlocked, FromMutex
  <2>3. /\ pc' \in [Client -> ClientAt] /\ \A d \in Client \ {c} : pc'[d] = pc[d]
        /\ pc'[c] = "report" /\ paging' \subseteq Client
    BY <2>1 DEF MutexInv, MutexTypeOK, ClientAt
  <2>4. /\ Beside(c) /\ SentBy(c)' = SentBy(c)
        /\ c \in Honest => Answered(c) /\ ~Answered(c)' /\ inbox'[c] = <<>>
    BY <2>1, <2>2, <2>3, ReceiveStep
  <2>5. ASSUME c \in Honest PROVE HonestInv(c)'
    <3>1. SentBy(c) = {} /\ SentBy(c)' = {} /\ ~Taken(c) /\ ~Taken(c)' /\ ~Answered(c)'
      BY <2>1, <2>4, <2>5, <1>0 DEF OneExchange, Taken
    <3>2. OneExchange(c)'
      BY <2>3, <2>4, <2>5, <3>1 DEF OneExchange, Exchanging
    <3>3. ~Holding(c) /\ ~Holding(c)'
      BY <2>1, <2>3, <3>1 DEF Holding, Inside
    <3>4. QED
      BY <2>1, <2>3, <2>5, <3>2, <3>3, <1>0 DEF HonestInv
  <2>6. QED
    BY <2>4, <2>5, OwnStep
<1>7. CASE TrapReport(c)
  <2>1. Goes(c, "report", "reporting") /\ Quiet /\ UNCHANGED paging
        /\ pc'[c] = "reporting" /\ pc[c] = "report"
    BY <1>7 DEF TrapReport, Goes, MutexInv, MutexTypeOK
  <2>2. c \in Honest => process_locking_the_swap_mutex # c /\ ~Inside(c)'
    BY <2>1, <1>0 DEF HonestInv, Holding, Inside
  <2>3. QED
    BY <2>1, <2>2, <1>1 DEF ClientAt, Exchanging
<1>8. CASE TrapReturn(c)
  <2>1. /\ pc[c] = "reporting" /\ pc' = [pc EXCEPT ![c] = "in"] /\ paging' = paging
        /\ process_locking_the_swap_mutex' = process_locking_the_swap_mutex
        /\ server' = server
    BY <1>8 DEF TrapReturn, Goes
  <2>2. PICK i \in DOMAIN inbox[c] : Receive(c, NULL, i)
    BY <1>8 DEF TrapReturn
  <2>3. /\ pc' \in [Client -> ClientAt] /\ \A d \in Client \ {c} : pc'[d] = pc[d]
        /\ paging' \subseteq Client
    BY <2>1 DEF MutexInv, MutexTypeOK, ClientAt
  <2>4. /\ Beside(c)
        /\ c \in Honest => Answered(c)
    BY <2>1, <2>2, <2>3, ReceiveStep
  <2>5. c \notin Honest
    BY <2>1, <2>4, <1>0 DEF OneExchange, Exchanging
  <2>6. QED
    BY <2>4, <2>5, OwnStep
<1>9. QED
  BY <1>2, <1>3, <1>4, <1>5, <1>6, <1>7, <1>8

\* What other messages do: they reach careless clients only.
LEMMA OtherInv ==
  ASSUME MutexInv, NEW c \in Client, Stray(c) \/ UserReceive(c)
  PROVE  MutexInv'
<1>1. CASE Stray(c)
  <2>1. /\ c \in Careless /\ c \notin Honest
        /\ inbox' = [inbox EXCEPT ![c] = Push(@, Msg(sst, 0))]
        /\ process_locking_the_swap_mutex' = process_locking_the_swap_mutex
        /\ server' = server /\ pc' = pc /\ paging' = paging
    BY <1>1 DEF Stray, Honest, clients
  <2>2. /\ Honest \subseteq Client /\ c \in Process /\ swap_table_pcb # c
        /\ swap_table_pcb \in Process /\ Client \subseteq Process
    BY MutexAssumption DEF Honest, Process
  <2>3. inbox \in [Process -> Seq(Box)] /\ Msg(sst, 0) \in Box
    BY DEF MutexInv, MutexTypeOK, Box, Msg
  <2>4. Push(inbox[c], Msg(sst, 0)) \in Seq(Box)
    BY <2>2, <2>3, PushSeq
  <2>5. inbox' \in [Process -> Seq(Box)] /\ \A r \in Process \ {c} : inbox'[r] = inbox[r]
    BY <2>1, <2>3, <2>4
  <2>6. inbox'[swap_table_pcb] = inbox[swap_table_pcb]
    BY <2>2, <2>5
  <2>7. MutexTypeOK'
    BY <2>1, <2>5 DEF MutexInv, MutexTypeOK, Box
  <2>8. ServerInv'
    BY <2>1, <2>6 DEF MutexInv, ServerInv
  <2>9. \A d \in Client : SentBy(d)' = SentBy(d)
    BY <2>6 DEF SentBy
  <2>10. Frame(c)
    BY <2>1, <2>2, <2>5, <2>9 DEF Frame
  <2>11. QED
    BY <2>1, <2>7, <2>8, <2>10, OwnStep DEF Beside
<1>2. CASE UserReceive(c)
  <2>1. /\ pc[c] = "out" /\ pc' = pc /\ paging' = paging
        /\ process_locking_the_swap_mutex' = process_locking_the_swap_mutex
        /\ server' = server
    BY <1>2 DEF UserReceive, clients
  <2>2. PICK i \in DOMAIN inbox[c] : Receive(c, NULL, i)
    BY <1>2 DEF UserReceive
  <2>3. pc' \in [Client -> ClientAt] /\ paging' \subseteq Client
    BY <2>1 DEF MutexInv, MutexTypeOK
  <2>4. Beside(c) /\ (c \in Honest => Answered(c))
    BY <2>1, <2>2, <2>3, ReceiveStep
  <2>5. c \notin Honest
    BY <2>1, <2>4 DEF MutexInv, HonestInv, OneExchange, Exchanging
  <2>6. QED
    BY <2>4, <2>5, OwnStep
<1>3. QED
  BY <1>1, <1>2

\* The invariant is inductive.
LEMMA NextInv == MutexInv /\ [MutexNext]_mutexVars => MutexInv'
<1> SUFFICES ASSUME MutexInv, [MutexNext]_mutexVars PROVE MutexInv'
  OBVIOUS
<1>1. CASE swapMutexProcess
  BY <1>1, MutexReceiveInv, MutexAssignInv, MutexAnswerInv DEF swapMutexProcess
<1>2. CASE \E c \in Client : Proceeds(c) \/ May(c)
  BY <1>2, PagerInv, TrapInv, OtherInv DEF Proceeds, May
<1>3. CASE UNCHANGED mutexVars
  BY <1>3 DEF mutexVars, clients, MutexInv, MutexTypeOK, ServerInv, HonestInv, OneExchange,
     Holding, Inside, SentBy, Taken, Answered
<1>4. QED
  BY <1>1, <1>2, <1>3 DEF MutexNext

\* What the invariant says of the critical section, the messages and the test
\* of the trap handler.
LEMMA Consequences == MutexInv => MutualExclusion /\ MessagesUnderstood /\ TrapTestExact
<1> SUFFICES ASSUME MutexInv PROVE MutualExclusion /\ MessagesUnderstood /\ TrapTestExact
  OBVIOUS
<1>1. \A c \in Honest : HonestInv(c) /\ OneExchange(c)
  BY DEF MutexInv, HonestInv
<1>2. MutualExclusion
  BY <1>1 DEF MutualExclusion, HonestInv, Holding
<1>3. TrapTestExact
  BY <1>1 DEF TrapTestExact, HonestInv, Holding, Inside
<1>4. MessagesUnderstood
  <2> SUFFICES ASSUME server.at = "assign", server.sender \in Honest
               PROVE  IF process_locking_the_swap_mutex = NULL
                      THEN pc[server.sender] = "asking"
                      ELSE /\ server.sender = process_locking_the_swap_mutex
                           /\ pc[server.sender] \in {"releasing", "unlocking"}
    BY DEF MessagesUnderstood
  <2> DEFINE s == server.sender
  <2>1. /\ HonestInv(s) /\ OneExchange(s) /\ Taken(s) /\ s # NULL
        /\ process_locking_the_swap_mutex \in {NULL, s}
    BY <1>1, MutexAssumption DEF Taken, MutexInv, ServerInv, Honest
  <2>2. pc[s] \in Exchanging /\ ~Answered(s) /\ SentBy(s) = {}
    BY <2>1 DEF OneExchange
  <2>3. Holding(s) <=> pc[s] \in {"releasing", "unlocking"}
    BY <2>1, <2>2 DEF Holding, Inside, Exchanging
  <2>4. QED
    BY <2>1, <2>2, <2>3 DEF HonestInv, Exchanging
<1>5. QED
  BY <1>2, <1>3, <1>4

\* The invariant holds, for any number of clients, honest or careless.
THEOREM MutexInvariant == MutexSafe => []MutexInv
<1>1. QED
  BY InitInv, NextInv, PTL DEF MutexSafe

\* Mutual exclusion on the swap pool among honest clients, whatever the
\* careless ones do.
THEOREM Exclusion == MutexSafe => []MutualExclusion
<1>1. QED
  BY MutexInvariant, Consequences, PTL

\* The mutex never takes a request of an honest client for a release, or the
\* other way round.
THEOREM Understood == MutexSafe => []MessagesUnderstood
<1>1. QED
  BY MutexInvariant, Consequences, PTL

\* An honest client that traps releases the mutex exactly if it holds it.
THEOREM TrapReleases == MutexSafe => []TrapTestExact
<1>1. QED
  BY MutexInvariant, Consequences, PTL
-----------------------------------------------------------------------------
\* What Lock sees of a step of one client.
LEMMA LockView ==
  ASSUME MutexInv, NEW c \in Client, pc' \in [Client -> ClientAt],
         \A d \in Client \ {c} : pc'[d] = pc[d],
         paging' \ {c} = paging \ {c}
  PROVE  /\ \A d \in Honest \ {c} : LockState(d)' = LockState(d)
         /\ c \notin Honest \/ LockState(c)' = LockState(c) =>
              [d \in Honest |-> LockState(d)]' = [d \in Honest |-> LockState(d)]
         /\ c \in Honest =>
              [d \in Honest |-> LockState(d)]' =
                [[d \in Honest |-> LockState(d)] EXCEPT ![c] = LockState(c)']
<1>1. Honest \subseteq Client
  BY DEF Honest
<1>2. \A d \in Honest \ {c} : Inside(d)' <=> Inside(d)
  BY <1>1 DEF Inside
<1>3. \A d \in Honest \ {c} : LockState(d)' = LockState(d)
  BY <1>1, <1>2 DEF LockState
<1>4. QED
  BY <1>3

\* Every step of the mutex and its clients is a step of Lock, or nothing to it.
LEMMA LockStep ==
  ASSUME MutexInv, MutexInv', [MutexNext]_mutexVars
  PROVE  [L!LockNext]_[c \in Honest |-> LockState(c)]
<1> DEFINE st == [c \in Honest |-> LockState(c)]
<1>1. CASE swapMutexProcess \/ UNCHANGED mutexVars
  <2>1. pc' = pc /\ paging' = paging
    BY <1>1 DEF swapMutexProcess, MutexReceive, MutexAssign, MutexAnswer, mutexVars, clients
  <2>2. \A c : LockState(c)' = LockState(c)
    BY <2>1 DEF LockState, Inside
  <2>3. QED
    BY <2>2
<1>2. ASSUME NEW c \in Client, Proceeds(c) \/ May(c)
      PROVE  [L!LockNext]_st
  <2>1. /\ pc' \in [Client -> ClientAt] /\ pc \in [Client -> ClientAt]
        /\ \A d \in Client \ {c} : pc'[d] = pc[d]
        /\ paging' \ {c} = paging \ {c}
    BY <1>2 DEF MutexInv, MutexTypeOK, Proceeds, May, Request, Obtain, Release, Resume,
       Fail, Trap, TrapTest, TrapUnlock, TrapUnlocked, TrapReport, TrapReturn, Stray,
       UserReceive, ToMutex, FromMutex, Goes, clients
  <2>2. CASE c \notin Honest \/ LockState(c)' = LockState(c)
    BY <2>1, <2>2, LockView
  <2>3. CASE c \in Honest /\ LockState(c)' # LockState(c)
    <3>1. HonestInv(c) /\ OneExchange(c) /\ HonestInv(c)' /\ OneExchange(c)'
      BY <2>3 DEF MutexInv, HonestInv
    <3>2. st' = [st EXCEPT ![c] = LockState(c)'] /\ st[c] = LockState(c)
      BY <2>1, <2>3, LockView
    <3>3. CASE Request(c)
      <4>1. pc[c] = "out" /\ pc'[c] = "asking"
        BY <3>3, <2>1 DEF Request, ToMutex, Goes
      <4>2. LockState(c) = "out" /\ LockState(c)' = "waiting"
        BY <4>1 DEF LockState, Inside
      <4>3. L!Ask(c)
        BY <4>2, <3>2 DEF L!Ask
      <4>4. QED
        BY <4>3, <2>3 DEF L!LockNext
    <3>4. CASE Obtain(c)
      <4>1. pc[c] = "asking" /\ pc'[c] = "in" /\ Answered(c)
        <5>1. PICK i \in DOMAIN inbox[c] : Receive(c, swap_table_pcb, i)
          BY <3>4 DEF Obtain, FromMutex
        <5>2. QED
          BY <3>4, <2>1, <5>1 DEF Obtain, FromMutex, Goes, Answered
      <4>2. LockState(c) = "waiting" /\ LockState(c)' = "in"
        BY <4>1 DEF LockState, Inside
      <4>3. process_locking_the_swap_mutex = c
        BY <4>1, <3>1 DEF HonestInv, Holding
      <4>4. ASSUME NEW d \in Honest PROVE st[d] # "in"
        <5>1. CASE d = c
          BY <5>1, <4>2
        <5>2. CASE d # c
          <6>1. ~Inside(d)
            BY <5>2, <4>3 DEF MutexInv, HonestInv, Holding
          <6>2. QED
            BY <6>1 DEF LockState
        <5>3. QED
          BY <5>1, <5>2
      <4>5. L!Enter(c)
        BY <4>2, <4>4, <3>2 DEF L!Enter
      <4>6. QED
        BY <4>5, <2>3 DEF L!LockNext
    <3>5. CASE Release(c) \/ TrapUnlock(c)
      <4>1. /\ pc[c] \in {"in", "unlock"} /\ pc'[c] \in {"releasing", "unlocking"}
        BY <3>5, <2>1 DEF Release, TrapUnlock, ToMutex, Goes
      <4>2. LockState(c) = "in" /\ LockState(c)' = "out"
        BY <4>1 DEF LockState, Inside
      <4>3. L!Leave(c)
        BY <4>2, <3>2 DEF L!Leave
      <4>4. QED
        BY <4>3, <2>3 DEF L!LockNext
    <3>6. CASE \/ Resume(c) \/ Fail(c) \/ Trap(c) \/ TrapTest(c) \/ TrapUnlocked(c)
               \/ TrapReport(c) \/ Stray(c) \/ UserReceive(c)
      <4>1. \/ pc'[c] = pc[c] /\ paging' = paging
            \/ pc[c] \in {"releasing", "unlocking"} /\ pc'[c] \in {"out", "report"}
            \/ pc[c] = "in" /\ pc'[c] = "trapped" /\ paging' = paging
            \/ pc[c] = "out" /\ pc'[c] = "trapped" /\ paging' = paging
            \/ /\ pc[c] = "trapped" /\ paging' = paging
               /\ pc'[c] = IF process_locking_the_swap_mutex = c THEN "unlock" ELSE "report"
            \/ pc[c] = "report" /\ pc'[c] = "reporting"
        BY <3>6, <2>1 DEF Resume, Fail, Trap, TrapTest, TrapUnlocked, TrapReport, Stray,
           UserReceive, FromMutex, Goes, clients
      <4>2. /\ pc[c] = "out" => c \notin paging
            /\ pc[c] = "in" => c \in paging
            /\ pc[c] = "trapped" => (process_locking_the_swap_mutex = c <=> c \in paging)
        BY <3>1 DEF HonestInv, Holding, Inside
      <4>3. LockState(c)' = LockState(c)
        BY <4>1, <4>2 DEF LockState, Inside
      <4>4. QED
        BY <4>3, <2>3
    <3>7. CASE TrapReturn(c)
      <4>1. pc[c] = "reporting" /\ Answered(c)
        <5>1. PICK i \in DOMAIN inbox[c] : Receive(c, NULL, i)
          BY <3>7 DEF TrapReturn
        <5>2. QED
          BY <3>7, <5>1 DEF TrapReturn, Goes, Answered
      <4>2. QED
        BY <4>1, <3>1 DEF OneExchange, Exchanging
    <3>8. QED
      BY <1>2, <3>3, <3>4, <3>5, <3>6, <3>7 DEF Proceeds, May
  <2>4. QED
    BY <2>2, <2>3
<1>3. QED
  BY <1>1, <1>2 DEF MutexNext

\* The mutex process, its clients and their traps implement Lock: honest
\* clients enter the critical section of the pager one at a time, after asking.
THEOREM LockImplemented == MutexSafe => ImplementsLock
<1>1. MutexInit => L!LockInit
  <2> SUFFICES ASSUME MutexInit PROVE L!LockInit
    OBVIOUS
  <2>1. \A c \in Honest : LockState(c) = "out"
    BY DEF MutexInit, LockState, Inside, Honest
  <2>2. QED
    BY <2>1 DEF L!LockInit
<1>2. QED
  BY <1>1, LockStep, MutexInvariant, PTL DEF MutexSafe, ImplementsLock, L!LockSafe
=============================================================================
