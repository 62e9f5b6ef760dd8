--------------------------- MODULE NucleusProofs ----------------------------
(***************************************************************************)
(* Theorems about Nucleus, for every pool of PCBs, message table, set of    *)
(* devices and set of requests: what the operations on queues, inboxes and  *)
(* the process tree return and preserve; the types of the state; what can   *)
(* corrupt the lists of the kernel, and that no PCB is lost.                *)
(***************************************************************************)
EXTENDS NucleusProperties, SequenceTheorems, FiniteSetTheorems, TLAPS

\* insertProcQ (pcb.c:68) adds p to the queue, and keeps it free of duplicates
\* if p was not in it.
LEMMA InsertProcQ ==
  ASSUME NEW q \in Seq(Pcb), NEW p \in Pcb
  PROVE  /\ insertProcQ(q, p) \in Seq(Pcb)
         /\ Range(insertProcQ(q, p)) = Range(q) \cup {p}
         /\ IsInjective(q) /\ p \notin Range(q) => IsInjective(insertProcQ(q, p))
<1> DEFINE t == insertProcQ(q, p)
<1>1. /\ t \in Seq(Pcb) /\ Len(t) = Len(q) + 1 /\ Len(q) \in Nat
      /\ DOMAIN t = 1..(Len(q) + 1) /\ DOMAIN q = 1..Len(q)
      /\ \A i \in 1..Len(q) : t[i] = q[i]
      /\ t[Len(q) + 1] = p
  BY DEF insertProcQ
<1> HIDE DEF t
<1>2. Range(t) = Range(q) \cup {p}
  BY <1>1 DEF Range
<1>3. ASSUME IsInjective(q), p \notin Range(q)
      PROVE  IsInjective(t)
  BY <1>1, <1>3 DEF IsInjective, Range
<1>4. QED
  BY <1>1, <1>2, <1>3 DEF t

\* The interval timer's loop (interrupts.c:69) moves one queue behind another.
LEMMA MoveQueue ==
  ASSUME NEW q \in Seq(Pcb), NEW r \in Seq(Pcb)
  PROVE  /\ q \o r \in Seq(Pcb)
         /\ Range(q \o r) = Range(q) \cup Range(r)
         /\ IsInjective(q) /\ IsInjective(r) /\ Range(q) \cap Range(r) = {}
              => IsInjective(q \o r)
<1> DEFINE t == q \o r
<1>1. /\ t \in Seq(Pcb) /\ Len(t) = Len(q) + Len(r)
      /\ Len(q) \in Nat /\ Len(r) \in Nat
      /\ DOMAIN t = 1..(Len(q) + Len(r)) /\ DOMAIN q = 1..Len(q)
      /\ DOMAIN r = 1..Len(r)
      /\ \A i \in 1..Len(q) : t[i] = q[i]
      /\ \A i \in 1..Len(r) : t[Len(q) + i] = r[i]
      /\ \A i \in 1..(Len(q) + Len(r)) : i > Len(q) => t[i] = r[i - Len(q)] /\ i - Len(q) \in 1..Len(r)
  BY ConcatProperties, LenProperties
<1> HIDE DEF t
<1>2. Range(t) = Range(q) \cup Range(r)
  <2>1. ASSUME NEW i \in DOMAIN t
        PROVE  t[i] \in Range(q) \cup Range(r)
    <3>1. CASE i <= Len(q)
      BY <1>1, <3>1 DEF Range
    <3>2. CASE i > Len(q)
      <4>1. i - Len(q) \in DOMAIN r /\ t[i] = r[i - Len(q)]
        BY <1>1, <3>2
      <4>2. QED
        BY <4>1 DEF Range
    <3>3. QED
      BY <1>1, <3>1, <3>2
  <2>2. Range(q) \subseteq Range(t)
    BY <1>1 DEF Range
  <2>3. ASSUME NEW i \in DOMAIN r
        PROVE  r[i] \in Range(t)
    <3>1. Len(q) + i \in DOMAIN t /\ t[Len(q) + i] = r[i]
      BY <1>1
    <3>2. QED
      BY <3>1 DEF Range
  <2>4. QED
    BY <2>1, <2>2, <2>3 DEF Range
<1>3. ASSUME IsInjective(q), IsInjective(r), Range(q) \cap Range(r) = {}
      PROVE  IsInjective(t)
  <2> SUFFICES ASSUME NEW i \in DOMAIN t, NEW j \in DOMAIN t, t[i] = t[j]
               PROVE  i = j
    BY DEF IsInjective
  <2>1. \A k \in DOMAIN t :
          /\ k <= Len(q) => k \in DOMAIN q /\ t[k] = q[k]
          /\ k > Len(q) => k - Len(q) \in DOMAIN r /\ t[k] = r[k - Len(q)]
    BY <1>1
  <2>2. \A k \in DOMAIN q : q[k] \in Range(q)
    BY DEF Range
  <2>3. \A k \in DOMAIN r : r[k] \in Range(r)
    BY DEF Range
  <2>4. i <= Len(q) <=> j <= Len(q)
    <3>1. ASSUME NEW k \in DOMAIN t, NEW m \in DOMAIN t, k <= Len(q), m > Len(q)
          PROVE  t[k] # t[m]
      <4>1. t[k] \in Range(q)
        BY <2>1, <2>2, <3>1
      <4>2. t[m] \in Range(r)
        BY <2>1, <2>3, <3>1
      <4>3. QED
        BY <1>3, <4>1, <4>2
    <3>2. i \in Nat /\ j \in Nat /\ Len(q) \in Nat
      BY <1>1
    <3>3. QED
      BY <3>1, <3>2
  <2>5. CASE i <= Len(q) /\ j <= Len(q)
    <3>1. i \in DOMAIN q /\ j \in DOMAIN q /\ q[i] = q[j]
      BY <2>1, <2>5
    <3>2. QED
      BY <1>3, <3>1 DEF IsInjective
  <2>6. CASE i > Len(q) /\ j > Len(q)
    <3>1. /\ i - Len(q) \in DOMAIN r /\ j - Len(q) \in DOMAIN r
          /\ r[i - Len(q)] = r[j - Len(q)]
      BY <2>1, <2>6
    <3>2. i - Len(q) = j - Len(q)
      BY <1>3, <3>1 DEF IsInjective
    <3>3. QED
      BY <1>1, <3>2
  <2>7. QED
    BY <1>1, <2>4, <2>5, <2>6
<1>4. QED
  BY <1>1, <1>2, <1>3 DEF t

\* removeProcQ (pcb.c:81) splits a queue in its first PCB and the others.
LEMMA RemoveProcQ ==
  ASSUME NEW q \in Seq(Pcb), q # <<>>
  PROVE  /\ Head(q) \in Pcb /\ Tail(q) \in Seq(Pcb)
         /\ Range(q) = {Head(q)} \cup Range(Tail(q))
         /\ IsInjective(q) => IsInjective(Tail(q)) /\ Head(q) \notin Range(Tail(q))
<1> DEFINE t == Tail(q)
<1>1. /\ Head(q) \in Pcb /\ t \in Seq(Pcb) /\ Head(q) = q[1]
      /\ Len(q) \in Nat /\ Len(q) >= 1 /\ Len(t) = Len(q) - 1
      /\ DOMAIN q = 1..Len(q) /\ DOMAIN t = 1..(Len(q) - 1)
      /\ \A i \in 1..(Len(q) - 1) : t[i] = q[i + 1]
      /\ \A i \in 1..Len(q) : i # 1 => i - 1 \in 1..(Len(q) - 1) /\ q[i] = t[i - 1]
  BY HeadTailProperties, LenProperties
<1> HIDE DEF t
<1>2. Range(q) = {Head(q)} \cup Range(t)
  <2>1. ASSUME NEW i \in DOMAIN q
        PROVE  q[i] \in {Head(q)} \cup Range(t)
    <3>1. CASE i = 1
      BY <1>1, <3>1
    <3>2. CASE i # 1
      <4>1. i - 1 \in DOMAIN t /\ q[i] = t[i - 1]
        BY <1>1, <3>2
      <4>2. QED
        BY <4>1 DEF Range
    <3>3. QED
      BY <3>1, <3>2
  <2>2. Head(q) \in Range(q)
    BY <1>1 DEF Range
  <2>3. Range(t) \subseteq Range(q)
    <3>1. \A i \in 1..(Len(q) - 1) : i + 1 \in 1..Len(q)
      BY <1>1
    <3>2. QED
      BY <1>1, <3>1 DEF Range
  <2>4. QED
    BY <2>1, <2>2, <2>3 DEF Range
<1>3. ASSUME IsInjective(q)
      PROVE  IsInjective(t) /\ Head(q) \notin Range(t)
  <2>1. \A i \in DOMAIN t : i + 1 \in DOMAIN q /\ t[i] = q[i + 1] /\ i + 1 # 1
    BY <1>1
  <2>2. ASSUME NEW i \in DOMAIN t, NEW j \in DOMAIN t, t[i] = t[j]
        PROVE  i = j
    <3>1. i + 1 = j + 1
      BY <1>3, <2>1, <2>2 DEF IsInjective
    <3>2. QED
      BY <1>1, <3>1
  <2>3. ASSUME NEW i \in DOMAIN t
        PROVE  t[i] # Head(q)
    BY <1>1, <1>3, <2>1 DEF IsInjective
  <2>4. QED
    BY <2>2, <2>3 DEF IsInjective, Range
<1>4. QED
  BY <1>1, <1>2, <1>3 DEF t

\* Taking the members of D out of a queue (outProcQ, pcb.c:93) leaves exactly
\* the others, each once.
LEMMA OutProcQ ==
  ASSUME NEW q \in Seq(Pcb), NEW D, NEW t \in Without(q, D), IsFiniteSet(Pcb)
  PROVE  t \in Seq(Pcb) /\ Range(t) = Range(q) \ D /\ IsInjective(t)
<1> DEFINE rest == Range(q) \ D
           n    == Cardinality(rest)
<1>1. rest \subseteq Pcb
  BY LenProperties DEF Range
<1>2. n \in Nat
  BY <1>1, FS_Subset, FS_CardinalityType
<1>3. t \in [1..n -> rest] /\ IsInjective(t) /\ \A x \in rest : \E i \in 1..n : t[i] = x
  BY DEF Without, Bijection, Injection, Surjection
<1>4. t \in Seq(rest)
  <2> HIDE DEF rest, n
  <2>1. Seq(rest) = UNION {[1..k -> rest] : k \in Nat}
    BY SeqDef
  <2>2. QED
    BY <1>2, <1>3, <2>1
<1>5. Range(t) = rest
  BY <1>3 DEF Range
<1>6. QED
  BY <1>1, <1>3, <1>4, <1>5, SeqMonotonic

\* pushMessage (msg.c:54) adds a message to an inbox of messages of M;
\* popMessage (msg.c:61) adds none.
LEMMA InboxOperations ==
  ASSUME NEW M, NEW box \in Seq(M)
  PROVE  /\ \A m \in M : /\ pushMessage(box, m) \in Seq(M)
                        /\ Range(pushMessage(box, m)) = Range(box) \cup {m}
         /\ \A i \in DOMAIN box : /\ RemoveAt(box, i) \in Seq(M)
                                 /\ Range(RemoveAt(box, i)) \subseteq Range(box)
<1>1. ASSUME NEW m \in M
      PROVE  /\ pushMessage(box, m) \in Seq(M)
             /\ Range(pushMessage(box, m)) = Range(box) \cup {m}
  <2> DEFINE t == pushMessage(box, m)
  <2>1. /\ t \in Seq(M) /\ Len(box) \in Nat
        /\ DOMAIN t = 1..(Len(box) + 1) /\ DOMAIN box = 1..Len(box)
        /\ t[1] = m
        /\ \A i \in 1..(Len(box) + 1) : i # 1 => i - 1 \in 1..Len(box) /\ t[i] = box[i - 1]
        /\ \A i \in 1..Len(box) : i + 1 \in 1..(Len(box) + 1) /\ t[i + 1] = box[i]
    BY ConcatProperties, LenProperties DEF pushMessage
  <2> HIDE DEF t
  <2>2. ASSUME NEW i \in DOMAIN t
        PROVE  t[i] \in Range(box) \cup {m}
    BY <2>1 DEF Range
  <2>3. ASSUME NEW i \in DOMAIN box
        PROVE  box[i] \in Range(t)
    BY <2>1 DEF Range
  <2>4. m \in Range(t)
    BY <2>1 DEF Range
  <2>5. Range(t) = Range(box) \cup {m}
    BY <2>2, <2>3, <2>4 DEF Range
  <2>6. QED
    BY <2>1, <2>5 DEF t
<1>2. ASSUME NEW i \in DOMAIN box
      PROVE  RemoveAt(box, i) \in Seq(M) /\ Range(RemoveAt(box, i)) \subseteq Range(box)
  <2> DEFINE S == Range(box)
  <2>1. /\ i \in 1..Len(box) /\ Len(box) \in Nat
        /\ \A j \in 1..Len(box) : box[j] \in S
        /\ S \subseteq M
    BY LenProperties DEF Range
  <2> HIDE DEF S
  <2>2. SubSeq(box, 1, i - 1) \in Seq(S)
    <3>1. \A j \in 1..(i - 1) : box[j] \in S
      BY <2>1
    <3>2. QED
      BY <2>1, <3>1, SubSeqProperties
  <2>3. SubSeq(box, i + 1, Len(box)) \in Seq(S)
    <3>1. \A j \in (i + 1)..Len(box) : box[j] \in S
      BY <2>1
    <3>2. QED
      BY <2>1, <3>1, SubSeqProperties
  <2>4. RemoveAt(box, i) \in Seq(S)
    BY <2>2, <2>3, ConcatProperties DEF RemoveAt
  <2>5. Range(RemoveAt(box, i)) \subseteq S
    BY <2>4, LenProperties DEF Range
  <2>6. QED
    BY <2>1, <2>4, <2>5, SeqMonotonic DEF S
<1>3. QED
  BY <1>1, <1>2

\* The family terminateProcess frees (ssi.c:43) is closed under "child of", and
\* a process without parent is in the family of nobody but itself.
LEMMA Families ==
  ASSUME NEW p \in Pcb
  PROVE  /\ Descendants(p) \subseteq Pcb /\ p \in Descendants(p)
         /\ \A c \in Pcb : p_parent[c] \in Descendants(p) => c \in Descendants(p)
         /\ \A r \in Pcb \ {p} : p_parent[r] = NULL /\ NULL \notin Pcb
                                   => r \notin Descendants(p)
<1>1. Descendants(p) \subseteq Pcb /\ p \in Descendants(p)
  BY DEF Descendants
<1>2. ASSUME NEW c \in Pcb, p_parent[c] \in Descendants(p)
      PROVE  c \in Descendants(p)
  BY <1>2 DEF Descendants
<1>3. ASSUME NEW r \in Pcb \ {p}, p_parent[r] = NULL, NULL \notin Pcb
      PROVE  r \notin Descendants(p)
  <2> DEFINE S == Pcb \ {r}
  <2>1. /\ S \in SUBSET Pcb /\ p \in S /\ r \notin S
        /\ \A c \in Pcb : p_parent[c] \in S => c \in S
    BY <1>3
  <2>2. QED
    BY <2>1 DEF Descendants
<1>4. QED
  BY <1>1, <1>2, <1>3

-----------------------------------------------------------------------------
\* What the typing of a step rests on: a process executes when the processor
\* runs, and SSIServer serves and answers a PCB.
Actors ==
  /\ cpu = "run" => current_process \in Pcb
  /\ ssi.at # "receive" => ssi.sender \in Pcb

TypeInv == TypeOK /\ Actors

\* A dispatch leaves the processor with a process, or without one and not
\* running.
LEMMA SchedulerTypes ==
  ASSUME NEW rq \in Seq(Pcb), NEW count, NEW soft, scheduler(rq, count, soft)
  PROVE  /\ ready_queue' \in Seq(Pcb) /\ current_process' \in Pcb \cup {NULL}
         /\ cpu' \in CpuState
         /\ cpu' = "run" => current_process' \in Pcb
<1>1. CASE rq # <<>> /\ current_process' = Head(rq) /\ ready_queue' = Tail(rq) /\ cpu' = "run"
  BY <1>1, HeadTailProperties DEF CpuState
<1>2. CASE /\ rq = <<>> /\ current_process' = NULL /\ ready_queue' = rq
           /\ cpu' = Verdict(count, soft)
  BY <1>2 DEF CpuState, Verdict
<1>3. QED
  BY <1>1, <1>2 DEF scheduler

\* The same for the end of a handler, whether a process goes on or not.
LEMMA ResumeTypes ==
  ASSUME NEW cur \in Pcb \cup {NULL}, NEW rq \in Seq(Pcb), NEW count, NEW soft,
         Resume(cur, rq, count, soft)
  PROVE  /\ ready_queue' \in Seq(Pcb) /\ current_process' \in Pcb \cup {NULL}
         /\ cpu' \in CpuState
         /\ cpu' = "run" => current_process' \in Pcb
<1>1. CASE cur = NULL
  BY <1>1, SchedulerTypes DEF Resume
<1>2. CASE cur # NULL
  BY <1>2 DEF Resume, CpuState
<1>3. QED
  BY <1>1, <1>2

\* A SEND by a PCB makes a message.
LEMMA MessageType ==
  ASSUME NEW s \in Pcb, NEW c \in Requests \cup {Data, Reply}
  PROVE  [m_sender |-> s, m_payload |-> c] \in Message
BY DEF Message

\* SendMessage, and the two ways out of ReceiveMessage.
LEMMA SendTypes ==
  ASSUME TypeInv, current_process \in Pcb, NEW dest \in Pcb,
         NEW payload \in Requests \cup {Data, Reply}, SendMessage(dest, payload)
  PROVE  /\ msg_inbox' \in [Pcb -> Seq(Message)] /\ msgFree_h' \in Nat
         /\ blocked_msg' \subseteq Pcb /\ ready_queue' \in Seq(Pcb)
<1> DEFINE m == [m_sender |-> current_process, m_payload |-> payload]
<1>1. m \in Message
  BY MessageType
<1> HIDE DEF m
<1>2. pushMessage(msg_inbox[dest], m) \in Seq(Message)
  BY <1>1, InboxOperations DEF TypeInv, TypeOK
<1>3. msg_inbox' \in [Pcb -> Seq(Message)]
  BY <1>2 DEF SendMessage, TypeInv, TypeOK, m
<1>4. msgFree_h' \in Nat
  BY DEF SendMessage, OutOfMessages, TypeInv, TypeOK
<1>5. blocked_msg' \subseteq Pcb
  BY DEF SendMessage, TypeInv, TypeOK
<1>6. ready_queue' \in Seq(Pcb)
  BY InsertProcQ DEF SendMessage, TypeInv, TypeOK
<1>7. QED
  BY <1>3, <1>4, <1>5, <1>6

\* RECEIVE that finds a message: a cell comes back, the inbox loses one.
LEMMA TakeTypes ==
  ASSUME TypeInv, current_process \in Pcb, NEW from,
         NEW i \in DOMAIN msg_inbox[current_process], ReceiveTake(from, i)
  PROVE  /\ msg_inbox' \in [Pcb -> Seq(Message)] /\ msgFree_h' \in Nat
         /\ msg_inbox[current_process][i] \in Message
<1>1. RemoveAt(msg_inbox[current_process], i) \in Seq(Message)
  BY InboxOperations DEF TypeInv, TypeOK
<1>2. msg_inbox[current_process] \in Seq(Message)
  BY DEF TypeInv, TypeOK
<1>3. QED
  BY <1>1, <1>2, LenProperties DEF ReceiveTake, TypeInv, TypeOK

\* RECEIVE that finds none: the receiver blocks, another process runs.
LEMMA BlockTypes ==
  ASSUME TypeInv, current_process \in Pcb, NEW from \in Pcb \cup {NULL},
         ReceiveBlock(from)
  PROVE  /\ blocked_msg' \subseteq Pcb /\ reg_a1' \in [Pcb -> Pcb \cup {NULL, NORECV}]
         /\ ready_queue' \in Seq(Pcb) /\ current_process' \in Pcb \cup {NULL}
         /\ cpu' \in CpuState
         /\ cpu' = "run" => current_process' \in Pcb
<1>1. blocked_msg' \subseteq Pcb /\ reg_a1' \in [Pcb -> Pcb \cup {NULL, NORECV}]
  BY DEF ReceiveBlock, TypeInv, TypeOK
<1>2. Resume(NULL, ready_queue, process_count, soft_blocked_count)
  BY DEF ReceiveBlock
<1>3. QED
  BY <1>1, <1>2, ResumeTypes DEF TypeInv, TypeOK

\* The termination of a family D, and the queues left without it.
LEMMA FreeFamilyTypes ==
  ASSUME TypeInv, NEW D \in SUBSET Pcb, FreeFamily(D)
  PROVE  /\ pcbFree_h' \subseteq Pcb /\ blocked_msg' \subseteq Pcb
         /\ blocked_pseudo_clock' \in Seq(Pcb)
         /\ p_parent' \in [Pcb -> Pcb \cup {NULL}]
         /\ blocked_dev' \in [Dev -> Pcb \cup {NULL}]
         /\ process_count' \in Int /\ soft_blocked_count' \in Int
         /\ \A rq \in Without(ready_queue, D) : rq \in Seq(Pcb)
<1>1. pcbFree_h' \subseteq Pcb /\ blocked_msg' \subseteq Pcb
  BY DEF FreeFamily, TypeInv, TypeOK
<1>2. blocked_pseudo_clock' \in Seq(Pcb)
  BY OutProcQ, KernelAssumption DEF FreeFamily, TypeInv, TypeOK
<1>3. p_parent' \in [Pcb -> Pcb \cup {NULL}]
  BY DEF FreeFamily, TypeInv, TypeOK
<1>4. blocked_dev' \in [Dev -> Pcb \cup {NULL}]
  BY DEF FreeFamily, TypeInv, TypeOK
<1>5. process_count' \in Int
  <2>1. Cardinality(D) \in Nat
    BY KernelAssumption, FS_Subset, FS_CardinalityType
  <2>2. QED
    BY <2>1 DEF FreeFamily, CountWithout, TypeInv, TypeOK
<1>6. soft_blocked_count' \in Int
  <2>1. IsFiniteSet(Dev)
    BY KernelAssumption, FS_Interval DEF Dev
  <2>2. Cleared(D) \subseteq Dev
    BY DEF Cleared
  <2>3. Cardinality(Cleared(D)) \in Nat
    BY <2>1, <2>2, FS_Subset, FS_CardinalityType
  <2>4. D \cap Range(blocked_pseudo_clock) \subseteq Pcb
    OBVIOUS
  <2>5. Cardinality(D \cap Range(blocked_pseudo_clock)) \in Nat
    BY <2>4, KernelAssumption, FS_Subset, FS_CardinalityType
  <2>6. QED
    BY <2>3, <2>5 DEF FreeFamily, SoftWithout, TypeInv, TypeOK
<1>7. \A rq \in Without(ready_queue, D) : rq \in Seq(Pcb)
  BY OutProcQ, KernelAssumption DEF TypeInv, TypeOK
<1>8. QED
  BY <1>1, <1>2, <1>3, <1>4, <1>5, <1>6, <1>7
-----------------------------------------------------------------------------
\* Where SSIServer goes after a service.
LEMMA SsiMoves ==
  ASSUME TypeInv, ssi.at # "receive", ThenReply \/ ThenReceive
  PROVE  ssi' \in SsiState /\ (ssi'.at # "receive" => ssi'.sender \in Pcb)
<1>1. ssi \in SsiState /\ ssi.sender \in Pcb
  BY DEF TypeInv, TypeOK, Actors
<1>2. CASE ThenReply
  BY <1>1, <1>2 DEF ThenReply, SsiState
<1>3. CASE ThenReceive
  BY <1>1, <1>3 DEF ThenReceive, Idle, SsiState
<1>4. QED
  BY <1>2, <1>3

\* Every step of every module of the nucleus keeps the types.
LEMMA SsiTypes ==
  ASSUME TypeInv, Running, SsiStep
  PROVE  TypeInv'
<1> USE DEF TypeInv, TypeOK, Actors
<1>1. CASE SsiReceive
  <2>1. current_process \in Pcb
    BY <1>1, KernelAssumption DEF SsiReceive
  <2>2. ASSUME NEW i \in DOMAIN msg_inbox[ssi_pcb], ReceiveTake(NULL, i),
               ssi' = [at |-> "serve", sender |-> msg_inbox[ssi_pcb][i].m_sender,
                       request |-> msg_inbox[ssi_pcb][i].m_payload],
               UNCHANGED reg_a1
        PROVE  TypeInv'
    <3>1. /\ msg_inbox' \in [Pcb -> Seq(Message)] /\ msgFree_h' \in Nat
          /\ msg_inbox[ssi_pcb][i] \in Message
      BY <1>1, <2>1, <2>2, TakeTypes DEF SsiReceive
    <3>2. /\ msg_inbox[ssi_pcb][i].m_sender \in Pcb
          /\ msg_inbox[ssi_pcb][i].m_payload \in Requests \cup {Data, Reply}
          /\ ssi' \in SsiState /\ ssi'.sender \in Pcb
      BY <2>2, <3>1 DEF Message, SsiState
    <3>3. UNCHANGED <<queues, tree, devices, counters, current_process, cpu>>
      BY <1>1, <2>2 DEF SsiReceive, ReceiveTake
    <3>4. QED
      BY <2>2, <3>1, <3>2, <3>3 DEF queues, tree, devices, counters
  <2>3. CASE ReceiveBlock(NULL) /\ UNCHANGED ssi
    <3>1. /\ blocked_msg' \subseteq Pcb /\ reg_a1' \in [Pcb -> Pcb \cup {NULL, NORECV}]
          /\ ready_queue' \in Seq(Pcb) /\ current_process' \in Pcb \cup {NULL}
          /\ cpu' \in CpuState
          /\ cpu' = "run" => current_process' \in Pcb
      BY <2>1, <2>3, BlockTypes
    <3>2. UNCHANGED <<pcbFree_h, blocked_pseudo_clock, messages, tree, devices, counters>>
      BY <1>1, <2>3 DEF SsiReceive, ReceiveBlock
    <3>3. QED
      BY <2>3, <3>1, <3>2 DEF messages, tree, devices, counters
  <2>4. QED
    BY <1>1, <2>2, <2>3 DEF SsiReceive
<1>2. CASE createProcess
  <2>1. UNCHANGED <<msgFree_h, devices, soft_blocked_count, current_process, cpu>>
        /\ ssi' \in SsiState /\ (ssi'.at # "receive" => ssi'.sender \in Pcb)
    BY <1>2, SsiMoves DEF createProcess, allocPcb, Serving
  <2>2. CASE pcbFree_h = {} /\ UNCHANGED <<queues, tree, msg_inbox, reg_a1, process_count>>
    BY <2>1, <2>2 DEF queues, tree, devices
  <2>3. ASSUME NEW c \in pcbFree_h,
               pcbFree_h' = pcbFree_h \ {c},
               msg_inbox' = [msg_inbox EXCEPT ![c] = <<>>],
               reg_a1' = [reg_a1 EXCEPT ![c] = NORECV],
               p_parent' = insertChild(ssi.sender, c),
               p_supportStruct' = [p_supportStruct EXCEPT ![c] = ssi.request.support],
               ready_queue' = insertProcQ(ready_queue, c),
               process_count' = process_count + 1,
               UNCHANGED <<blocked_msg, blocked_pseudo_clock>>
        PROVE  TypeInv'
    <3>1. ready_queue' \in Seq(Pcb)
      BY <2>3, InsertProcQ
    <3>2. <<>> \in Seq(Message)
      OBVIOUS
    <3>3. msg_inbox' \in [Pcb -> Seq(Message)]
      BY <2>3, <3>2
    <3>4. ssi.request \in Requests /\ ssi.request.service = "CREATEPROCESS"
      BY <1>2 DEF createProcess, allocPcb, Serving, Data, Reply, SsiState
    <3>5. ssi.request.support \in BOOLEAN
      BY <3>4, KernelAssumption DEF Request
    <3>6. p_supportStruct' \in [Pcb -> BOOLEAN]
      BY <2>3, <3>5
    <3>7. p_parent' \in [Pcb -> Pcb \cup {NULL}]
      BY <1>2, <2>3 DEF createProcess, allocPcb, Serving, insertChild
    <3>8. QED
      BY <2>1, <2>3, <3>1, <3>3, <3>6, <3>7 DEF devices
  <2>4. QED
    BY <1>2, <2>2, <2>3 DEF createProcess, allocPcb
<1>3. CASE terminateProcess
  <2>1. /\ UNCHANGED <<p_supportStruct, messages, dev_busy, reg_a1, current_process, cpu>>
        /\ ThenReply \/ ThenReceive
        /\ ssi.at = "serve"
    BY <1>3 DEF terminateProcess, Serving
  <2>2. ssi' \in SsiState /\ (ssi'.at # "receive" => ssi'.sender \in Pcb)
    BY <2>1, SsiMoves
  <2>3. CASE UNCHANGED <<queues, p_parent, blocked_dev, counters>>
    BY <2>1, <2>2, <2>3 DEF queues, counters, messages
  <2>4. CASE /\ FreeFamily(Descendants(Target))
             /\ ready_queue' \in Without(ready_queue, Descendants(Target))
    <3>1. Descendants(Target) \in SUBSET Pcb
      BY DEF Descendants
    <3>2. /\ pcbFree_h' \subseteq Pcb /\ blocked_msg' \subseteq Pcb
          /\ blocked_pseudo_clock' \in Seq(Pcb)
          /\ p_parent' \in [Pcb -> Pcb \cup {NULL}]
          /\ blocked_dev' \in [Dev -> Pcb \cup {NULL}]
          /\ process_count' \in Int /\ soft_blocked_count' \in Int
          /\ ready_queue' \in Seq(Pcb)
      BY <2>4, <3>1, FreeFamilyTypes
    <3>3. QED
      BY <2>1, <2>2, <3>2 DEF messages
  <2>5. QED
    BY <1>3, <2>3, <2>4 DEF terminateProcess
<1>4. CASE doIO
  <2>1. ssi.request \in Requests /\ ssi.request.service = "DOIO" /\ ssi.at = "serve"
    BY <1>4 DEF doIO, Serving, Data, Reply, SsiState
  <2>2. ssi.request.dev \in Dev
    BY <2>1, KernelAssumption DEF Request
  <2>3. ssi' \in SsiState /\ (ssi'.at # "receive" => ssi'.sender \in Pcb)
    BY <1>4, <2>1, SsiMoves DEF doIO
  <2>4. blocked_dev' \in [Dev -> Pcb \cup {NULL}] /\ dev_busy' \subseteq Dev
    BY <1>4, <2>2 DEF doIO, SsiState
  <2>5. QED
    BY <1>4, <2>3, <2>4 DEF doIO, queues, tree, messages
<1>5. CASE waitForClock
  <2>1. ssi.sender \in Pcb /\ ssi' \in SsiState /\ (ssi'.at # "receive" => ssi'.sender \in Pcb)
    BY <1>5, SsiMoves DEF waitForClock, Serving
  <2>2. blocked_pseudo_clock' \in Seq(Pcb)
    BY <1>5, <2>1, InsertProcQ DEF waitForClock
  <2>3. QED
    BY <1>5, <2>1, <2>2 DEF waitForClock, tree, messages, devices
<1>6. CASE getData
  <2>1. CASE ThenReply /\ UNCHANGED cpu
    <3>1. ssi' \in SsiState /\ (ssi'.at # "receive" => ssi'.sender \in Pcb)
      BY <1>6, <2>1, SsiMoves DEF getData, Serving
    <3>2. QED
      BY <1>6, <2>1, <3>1 DEF getData, queues, tree, messages, devices, counters
  <2>2. CASE cpu' = "null" /\ UNCHANGED ssi
    BY <1>6, <2>2 DEF getData, queues, tree, messages, devices, counters, CpuState
  <2>3. QED
    BY <1>6, <2>1, <2>2 DEF getData
<1>7. CASE SsiReply
  <2>1. current_process \in Pcb /\ ssi.sender \in Pcb /\ SendMessage(ssi.sender, Reply)
    BY <1>7, KernelAssumption DEF SsiReply
  <2>2. /\ msg_inbox' \in [Pcb -> Seq(Message)] /\ msgFree_h' \in Nat
        /\ blocked_msg' \subseteq Pcb /\ ready_queue' \in Seq(Pcb)
    BY <2>1, SendTypes
  <2>3. UNCHANGED <<pcbFree_h, blocked_pseudo_clock, current_process, cpu>>
    BY <2>1 DEF SendMessage
  <2>4. QED
    <3>1. ssi' \in SsiState /\ (ssi'.at # "receive" => ssi'.sender \in Pcb)
      BY <1>7, SsiMoves DEF SsiReply
    <3>2. QED
      BY <1>7, <2>2, <2>3, <3>1 DEF SsiReply, tree, devices, counters
<1>8. QED
  BY <1>1, <1>2, <1>3, <1>4, <1>5, <1>6, <1>7 DEF SsiStep
\* The steps of the processes other than the SSI keep the types.
LEMMA ClientTypes ==
  ASSUME TypeInv, Running,
         \/ \E dest \in Pcb \ {ssi_pcb} : ClientSend(dest)
         \/ \E r \in Requests : ClientRequest(r)
         \/ \E from \in Pcb \cup {NULL} : ClientReceive(from)
         \/ PassUp_Or_Die
  PROVE  TypeInv'
<1> USE DEF TypeInv, TypeOK, Actors
<1>1. ASSUME NEW dest \in Pcb \ {ssi_pcb}, ClientSend(dest)
      PROVE  TypeInv'
  <2>1. current_process \in Pcb /\ SendMessage(dest, Data)
    BY <1>1 DEF ClientSend, UserCode
  <2>2. /\ msg_inbox' \in [Pcb -> Seq(Message)] /\ msgFree_h' \in Nat
        /\ blocked_msg' \subseteq Pcb /\ ready_queue' \in Seq(Pcb)
    BY <2>1, SendTypes
  <2>3. QED
    BY <1>1, <2>1, <2>2 DEF ClientSend, SendMessage, tree, devices, counters
<1>2. ASSUME NEW r \in Requests, ClientRequest(r)
      PROVE  TypeInv'
  <2>1. current_process \in Pcb /\ ssi_pcb \in Pcb /\ SendMessage(ssi_pcb, r)
    BY <1>2, KernelAssumption DEF ClientRequest, UserCode
  <2>2. /\ msg_inbox' \in [Pcb -> Seq(Message)] /\ msgFree_h' \in Nat
        /\ blocked_msg' \subseteq Pcb /\ ready_queue' \in Seq(Pcb)
    BY <2>1, SendTypes
  <2>3. QED
    BY <1>2, <2>1, <2>2 DEF ClientRequest, SendMessage, tree, devices, counters
<1>3. ASSUME NEW from \in Pcb \cup {NULL}, ClientReceive(from)
      PROVE  TypeInv'
  <2>1. current_process \in Pcb
    BY <1>3 DEF ClientReceive
  <2>2. ASSUME NEW i \in DOMAIN msg_inbox[current_process], ReceiveTake(from, i),
               reg_a1' = [reg_a1 EXCEPT ![current_process] = NORECV]
        PROVE  TypeInv'
    <3>1. msg_inbox' \in [Pcb -> Seq(Message)] /\ msgFree_h' \in Nat
      BY <2>1, <2>2, TakeTypes
    <3>2. QED
      BY <1>3, <2>2, <3>1 DEF ClientReceive, ReceiveTake, queues, tree, devices, counters
  <2>3. CASE ReceiveBlock(from)
    <3>1. /\ blocked_msg' \subseteq Pcb /\ reg_a1' \in [Pcb -> Pcb \cup {NULL, NORECV}]
          /\ ready_queue' \in Seq(Pcb) /\ current_process' \in Pcb \cup {NULL}
          /\ cpu' \in CpuState
          /\ cpu' = "run" => current_process' \in Pcb
      BY <2>1, <2>3, BlockTypes
    <3>2. UNCHANGED <<pcbFree_h, blocked_pseudo_clock, messages, tree, devices,
                      counters, ssi>>
      BY <1>3, <2>3 DEF ClientReceive, ReceiveBlock
    <3>3. QED
      BY <3>1, <3>2 DEF messages, tree, devices, counters
  <2>4. QED
    BY <1>3, <2>2, <2>3 DEF ClientReceive
<1>4. CASE PassUp_Or_Die
  <2> DEFINE D == Descendants(current_process)
  <2>1. D \in SUBSET Pcb
    BY DEF Descendants
  <2>2. /\ FreeFamily(D)
        /\ UNCHANGED <<p_supportStruct, messages, dev_busy, reg_a1, ssi>>
        /\ \E rq \in Without(ready_queue, D) :
             Resume(NULL, rq, process_count', soft_blocked_count')
    BY <1>4 DEF PassUp_Or_Die
  <2> HIDE DEF D
  <2>3. /\ pcbFree_h' \subseteq Pcb /\ blocked_msg' \subseteq Pcb
        /\ blocked_pseudo_clock' \in Seq(Pcb)
        /\ p_parent' \in [Pcb -> Pcb \cup {NULL}]
        /\ blocked_dev' \in [Dev -> Pcb \cup {NULL}]
        /\ process_count' \in Int /\ soft_blocked_count' \in Int
        /\ \A rq \in Without(ready_queue, D) : rq \in Seq(Pcb)
    BY <2>1, <2>2, FreeFamilyTypes
  <2>4. PICK rq \in Without(ready_queue, D) :
          Resume(NULL, rq, process_count', soft_blocked_count')
    BY <2>2
  <2>5. /\ ready_queue' \in Seq(Pcb) /\ current_process' \in Pcb \cup {NULL}
        /\ cpu' \in CpuState
        /\ cpu' = "run" => current_process' \in Pcb
    BY <2>3, <2>4, ResumeTypes
  <2>6. QED
    BY <2>2, <2>3, <2>5 DEF messages
<1>5. QED
  BY <1>1, <1>2, <1>3, <1>4

\* The interrupts keep the types.
LEMMA InterruptTypes ==
  ASSUME TypeInv, Running,
         \/ LocalTimerInterrupt
         \/ IntervalTimerInterrupt
         \/ \E d \in Dev : DeviceInterrupt(d) \/ TwoDevicesPending(d)
         \/ NullStored
  PROVE  TypeInv'
<1> USE DEF TypeInv, TypeOK, Actors
<1>1. CASE LocalTimerInterrupt
  <2>1. insertProcQ(ready_queue, current_process) \in Seq(Pcb)
    BY <1>1, InsertProcQ DEF LocalTimerInterrupt
  <2>2. /\ ready_queue' \in Seq(Pcb) /\ current_process' \in Pcb \cup {NULL}
        /\ cpu' \in CpuState
        /\ cpu' = "run" => current_process' \in Pcb
    BY <1>1, <2>1, ResumeTypes DEF LocalTimerInterrupt
  <2>3. QED
    BY <1>1, <2>2 DEF LocalTimerInterrupt, tree, messages, devices, counters
<1>2. CASE IntervalTimerInterrupt
  <2>1. ready_queue \o blocked_pseudo_clock \in Seq(Pcb) /\ <<>> \in Seq(Pcb)
    BY MoveQueue
  <2>2. /\ ready_queue' \in Seq(Pcb) /\ current_process' \in Pcb \cup {NULL}
        /\ cpu' \in CpuState
        /\ cpu' = "run" => current_process' \in Pcb
    BY <1>2, <2>1, ResumeTypes DEF IntervalTimerInterrupt
  <2>3. soft_blocked_count' \in Int
    BY <1>2, LenProperties DEF IntervalTimerInterrupt
  <2>4. QED
    BY <1>2, <2>1, <2>2, <2>3 DEF IntervalTimerInterrupt, tree, messages, devices
<1>3. ASSUME NEW d \in Dev, DeviceInterrupt(d)
      PROVE  TypeInv'
  <2> DEFINE w == blocked_dev[d]
             m == [m_sender |-> ssi_pcb, m_payload |-> Reply]
  <2>1. /\ blocked_dev' \in [Dev -> Pcb \cup {NULL}] /\ dev_busy' \subseteq Dev
        /\ UNCHANGED <<pcbFree_h, blocked_pseudo_clock, tree, process_count, reg_a1, ssi>>
    BY <1>3 DEF DeviceInterrupt
  <2>2. CASE w # NULL
    <3>1. w \in Pcb
      BY <2>2
    <3>2. m \in Message
      BY KernelAssumption, MessageType
    <3>3. /\ msg_inbox' = [msg_inbox EXCEPT ![w] = pushMessage(@, m)]
          /\ msgFree_h' = msgFree_h - 1 /\ ~OutOfMessages
          /\ blocked_msg' = blocked_msg \ {w}
          /\ soft_blocked_count' = soft_blocked_count - 1
          /\ Resume(current_process, insertProcQ(ready_queue, w),
                    process_count, soft_blocked_count')
      BY <1>3, <2>2 DEF DeviceInterrupt
    <3> HIDE DEF w, m
    <3>4. pushMessage(msg_inbox[w], m) \in Seq(Message)
      BY <3>1, <3>2, InboxOperations
    <3>5. msg_inbox' \in [Pcb -> Seq(Message)] /\ msgFree_h' \in Nat
      BY <3>1, <3>3, <3>4 DEF OutOfMessages
    <3>6. insertProcQ(ready_queue, w) \in Seq(Pcb)
      BY <3>1, InsertProcQ
    <3>7. /\ ready_queue' \in Seq(Pcb) /\ current_process' \in Pcb \cup {NULL}
          /\ cpu' \in CpuState
          /\ cpu' = "run" => current_process' \in Pcb
      BY <3>3, <3>6, ResumeTypes
    <3>8. QED
      BY <2>1, <3>3, <3>5, <3>7 DEF tree
  <2>3. CASE w = NULL
    <3>1. /\ Resume(current_process, ready_queue, process_count, soft_blocked_count)
          /\ UNCHANGED <<messages, blocked_msg, soft_blocked_count>>
      BY <1>3, <2>3 DEF DeviceInterrupt
    <3>2. /\ ready_queue' \in Seq(Pcb) /\ current_process' \in Pcb \cup {NULL}
          /\ cpu' \in CpuState
          /\ cpu' = "run" => current_process' \in Pcb
      BY <3>1, ResumeTypes
    <3>3. QED
      BY <2>1, <3>1, <3>2 DEF tree, messages
  <2>4. QED
    BY <2>2, <2>3
<1>4. ASSUME NEW d \in Dev, TwoDevicesPending(d)
      PROVE  TypeInv'
  BY <1>4 DEF TwoDevicesPending, queues, tree, messages, devices, counters, CpuState
<1>5. CASE NullStored
  BY <1>5 DEF NullStored, queues, tree, messages, devices, counters, CpuState
<1>6. QED
  BY <1>1, <1>2, <1>3, <1>4, <1>5

\* The disjuncts of Next, by the lemmas that are about them.
LEMMA NextCases ==
  ASSUME [Next]_vars
  PROVE  \/ Running /\ SsiStep
         \/ /\ Running
            /\ \/ \E dest \in Pcb \ {ssi_pcb} : ClientSend(dest)
               \/ \E r \in Requests : ClientRequest(r)
               \/ \E from \in Pcb \cup {NULL} : ClientReceive(from)
               \/ PassUp_Or_Die
         \/ /\ Running
            /\ \/ LocalTimerInterrupt
               \/ IntervalTimerInterrupt
               \/ \E d \in Dev : DeviceInterrupt(d) \/ TwoDevicesPending(d)
               \/ NullStored
         \/ UNCHANGED vars
BY DEF Next, Process, SendFails, Slice, Tick, Device, Stopped

\* main() leaves values of the right types.
LEMMA InitTypes == Init => TypeInv
<1> SUFFICES ASSUME Init PROVE TypeInv
  OBVIOUS
<1>1. <<test_pcb>> \in Seq(Pcb) /\ <<>> \in Seq(Pcb) /\ <<>> \in Seq(Message)
  BY KernelAssumption
<1>2. Idle \in SsiState
  BY DEF Idle, SsiState
<1>3. QED
  BY <1>1, <1>2, KernelAssumption DEF Init, TypeInv, TypeOK, Actors, Idle, CpuState

\* So every step keeps the types.
LEMMA NextTypes == TypeInv /\ [Next]_vars => TypeInv'
<1> SUFFICES ASSUME TypeInv, [Next]_vars PROVE TypeInv'
  OBVIOUS
<1>1. CASE UNCHANGED vars
  BY <1>1 DEF vars, queues, tree, messages, devices, counters, TypeInv, TypeOK, Actors
<1>2. QED
  BY <1>1, NextCases, SsiTypes, ClientTypes, InterruptTypes

\* Type correctness, with a process on the processor whenever it runs: no
\* interleaving of processes, services and interrupts leaves the kernel with
\* a value outside its types, whatever the sizes of the pools.
THEOREM Types == Spec => []TypeInv
<1>1. QED
  BY InitTypes, NextTypes, PTL DEF Spec

\* Every variable of the kernel keeps its type, for every size of the pools.
THEOREM TypeCorrect == Spec => []TypeOK
<1>1. TypeInv => TypeOK
  BY DEF TypeInv
<1>2. QED
  BY <1>1, Types, PTL

-----------------------------------------------------------------------------
\* What sets the SSI apart from its clients: it has no parent, is never
\* terminated, and asks itself for nothing.
SsiApart ==
  /\ p_parent[ssi_pcb] = NULL /\ ssi_pcb \notin pcbFree_h
  /\ \A m \in Range(msg_inbox[ssi_pcb]) : m.m_sender # ssi_pcb
  /\ ssi.at # "receive" => ssi.sender # ssi_pcb
  /\ \A d \in Dev : blocked_dev[d] # ssi_pcb

\* The processes that can run, and the four places where a PCB may be.
Runnable == Range(ready_queue) \cup ({current_process} \ {NULL})

Disjoint(R, C, B, F) ==
  /\ R \cap C = {} /\ R \cap B = {} /\ R \cap F = {}
  /\ C \cap B = {} /\ C \cap F = {} /\ B \cap F = {}

Separate ==
  /\ IsInjective(ready_queue) /\ IsInjective(blocked_pseudo_clock)
  /\ current_process \notin Range(ready_queue)
  /\ Disjoint(Runnable, Range(blocked_pseudo_clock), blocked_msg, pcbFree_h)

Somewhere == Pcb = Runnable \cup Range(blocked_pseudo_clock) \cup blocked_msg \cup pcbFree_h

\* Separate is another way to say QueuesIntact.
LEMMA QueuesIntactIsSeparate == TypeInv => (QueuesIntact <=> Separate)
<1> SUFFICES ASSUME TypeInv PROVE QueuesIntact <=> Separate
  OBVIOUS
<1>1. /\ Range(ready_queue) \subseteq Pcb /\ Range(blocked_pseudo_clock) \subseteq Pcb
      /\ blocked_msg \subseteq Pcb /\ pcbFree_h \subseteq Pcb
      /\ current_process \in Pcb \cup {NULL} /\ NULL \notin Pcb
  BY KernelAssumption, LenProperties DEF TypeInv, TypeOK, Range
<1>2. QED
  BY <1>1 DEF QueuesIntact, InLists, Separate, Disjoint, Runnable

\* And Somewhere to say that no PCB is lost.
LEMMA NothingLostIsSomewhere ==
  TypeInv => (Pcb \subseteq pcbFree_h \cup InLists \cup {current_process} <=> Somewhere)
<1> SUFFICES ASSUME TypeInv
             PROVE  Pcb \subseteq pcbFree_h \cup InLists \cup {current_process} <=> Somewhere
  OBVIOUS
<1>1. /\ Range(ready_queue) \subseteq Pcb /\ Range(blocked_pseudo_clock) \subseteq Pcb
      /\ blocked_msg \subseteq Pcb /\ pcbFree_h \subseteq Pcb
      /\ current_process \in Pcb \cup {NULL} /\ NULL \notin Pcb
  BY KernelAssumption, LenProperties DEF TypeInv, TypeOK, Range
<1>2. QED
  BY <1>1 DEF InLists, Somewhere, Runnable

\* Resume hands the runnable processes on: one of them runs, the others stay
\* in the ready queue.
LEMMA ResumeSets ==
  ASSUME NEW cur \in Pcb \cup {NULL}, NEW rq \in Seq(Pcb), NEW count, NEW soft,
         Resume(cur, rq, count, soft)
  PROVE  /\ Runnable' = Range(rq) \cup ({cur} \ {NULL})
         /\ IsInjective(rq) /\ cur \notin Range(rq)
              => IsInjective(ready_queue') /\ current_process' \notin Range(ready_queue')
<1>1. CASE cur # NULL
  BY <1>1 DEF Resume, Runnable
<1>2. CASE cur = NULL /\ rq # <<>>
  <2>1. current_process' = Head(rq) /\ ready_queue' = Tail(rq)
    BY <1>2 DEF Resume, scheduler
  <2>2. QED
    BY <1>2, <2>1, RemoveProcQ, KernelAssumption DEF Runnable
<1>3. CASE cur = NULL /\ rq = <<>>
  <2>1. current_process' = NULL /\ ready_queue' = <<>>
    BY <1>3 DEF Resume, scheduler
  <2>2. Range(<<>>) = {}
    BY DEF Range
  <2>3. IsInjective(<<>>)
    BY DEF IsInjective
  <2>4. QED
    BY <1>3, <2>1, <2>2, <2>3 DEF Runnable
<1>4. QED
  BY <1>1, <1>2, <1>3

\* The inductive invariant: types, the SSI apart, and no PCB lost while the
\* lists can be followed.
IInv == TypeInv /\ SsiApart /\ (Intact => Somewhere)

\* The states a step starts from.
Before == TypeInv /\ SsiApart /\ Separate /\ TreeIntact /\ Somewhere

\* What a step shows.
Kept == Separate' /\ TreeIntact' /\ Somewhere'
-----------------------------------------------------------------------------
\* A step that frees no PCB and hangs none keeps the tree.
LEMMA TreeKept ==
  ASSUME TreeIntact, UNCHANGED <<p_parent, pcbFree_h>>
  PROVE  TreeIntact'
BY DEF TreeIntact, Live

\* SEND moves its destination from blocked_msg to the ready queue, if at all.
\* It never puts a message of the SSI into the inbox of the SSI.
LEMMA SendSets ==
  ASSUME Before, TypeInv', current_process \in Pcb, NEW dest \in Pcb,
         NEW payload \in Requests \cup {Data, Reply},
         dest = ssi_pcb => current_process # ssi_pcb,
         SendMessage(dest, payload), UNCHANGED p_parent
  PROVE  /\ Kept
         /\ \A m \in Range(msg_inbox'[ssi_pcb]) : m.m_sender # ssi_pcb
<1> USE DEF Before
<1>1. TreeIntact'
  BY TreeKept DEF SendMessage
<1>2. Separate' /\ Somewhere'
  <2>1. CASE dest \in blocked_msg /\ Awaits(dest, current_process)
    <3>1. /\ blocked_msg' = blocked_msg \ {dest}
          /\ ready_queue' = insertProcQ(ready_queue, dest)
          /\ UNCHANGED <<pcbFree_h, blocked_pseudo_clock, current_process>>
      BY <2>1 DEF SendMessage
    <3>2. /\ Range(ready_queue') = Range(ready_queue) \cup {dest}
          /\ IsInjective(ready_queue) /\ dest \notin Range(ready_queue)
               => IsInjective(ready_queue')
      BY <3>1, InsertProcQ DEF TypeInv, TypeOK
    <3>3. dest \notin Runnable /\ dest \notin Range(blocked_pseudo_clock) /\ dest \notin pcbFree_h
      BY <2>1 DEF Separate, Disjoint
    <3>4. dest # current_process /\ dest \notin Range(ready_queue)
      BY <3>3, KernelAssumption DEF Runnable
    <3>5. Runnable' = Runnable \cup {dest}
      BY <3>1, <3>2 DEF Runnable
    <3>6. QED
      BY <2>1, <3>1, <3>2, <3>3, <3>4, <3>5 DEF Separate, Disjoint, Somewhere
  <2>2. CASE ~(dest \in blocked_msg /\ Awaits(dest, current_process))
    <3>1. UNCHANGED <<blocked_msg, ready_queue, pcbFree_h, blocked_pseudo_clock, current_process>>
      BY <2>2 DEF SendMessage
    <3>2. QED
      BY <3>1 DEF Separate, Disjoint, Somewhere, Runnable
  <2>3. QED
    BY <2>1, <2>2
<1>3. ASSUME NEW m \in Range(msg_inbox'[ssi_pcb])
      PROVE  m.m_sender # ssi_pcb
  <2> DEFINE n == [m_sender |-> current_process, m_payload |-> payload]
  <2>1. n \in Message /\ n.m_sender = current_process
    BY MessageType
  <2>2. ssi_pcb \in Pcb /\ msg_inbox[ssi_pcb] \in Seq(Message)
    BY KernelAssumption DEF TypeInv, TypeOK
  <2> HIDE DEF n
  <2>3. CASE dest = ssi_pcb
    <3>1. \/ msg_inbox'[ssi_pcb] = pushMessage(msg_inbox[ssi_pcb], n)
          \/ msg_inbox'[ssi_pcb] = msg_inbox[ssi_pcb]
      BY <2>2, <2>3 DEF SendMessage, TypeInv, TypeOK, n
    <3>2. m \in Range(msg_inbox[ssi_pcb]) \cup {n}
      BY <2>1, <2>2, <3>1, InboxOperations
    <3>3. QED
      BY <2>1, <2>3, <3>2 DEF SsiApart
  <2>4. CASE dest # ssi_pcb
    <3>1. msg_inbox'[ssi_pcb] = msg_inbox[ssi_pcb]
      BY <2>2, <2>4 DEF SendMessage, TypeInv, TypeOK
    <3>2. QED
      BY <3>1 DEF SsiApart
  <2>5. QED
    BY <2>3, <2>4
<1>4. QED
  BY <1>1, <1>2, <1>3 DEF Kept

\* RECEIVE that finds a message moves no PCB.
LEMMA TakeSets ==
  ASSUME Before, current_process \in Pcb, NEW from,
         NEW i \in DOMAIN msg_inbox[current_process], ReceiveTake(from, i),
         UNCHANGED p_parent
  PROVE  /\ Kept
         /\ \A m \in Range(msg_inbox'[ssi_pcb]) : m.m_sender # ssi_pcb
<1> USE DEF Before
<1>1. UNCHANGED <<queues, current_process>>
  BY DEF ReceiveTake
<1>2. Kept
  BY <1>1, TreeKept DEF Kept, queues, Separate, Disjoint, Somewhere, Runnable
<1>3. msg_inbox \in [Pcb -> Seq(Message)] /\ ssi_pcb \in Pcb
  BY KernelAssumption DEF TypeInv, TypeOK
<1>4. msg_inbox' = [msg_inbox EXCEPT ![current_process] = RemoveAt(@, i)]
  BY DEF ReceiveTake
<1>5. Range(RemoveAt(msg_inbox[current_process], i)) \subseteq Range(msg_inbox[current_process])
  BY <1>3, InboxOperations
<1>6. Range(msg_inbox'[ssi_pcb]) \subseteq Range(msg_inbox[ssi_pcb])
  BY <1>3, <1>4, <1>5
<1>7. QED
  BY <1>2, <1>6 DEF SsiApart

\* RECEIVE that finds none moves the receiver to blocked_msg, and dispatches.
LEMMA BlockSets ==
  ASSUME Before, current_process \in Pcb, NEW from, ReceiveBlock(from),
         UNCHANGED p_parent
  PROVE  Kept /\ UNCHANGED msg_inbox
<1> USE DEF Before
<1>1. /\ UNCHANGED <<pcbFree_h, blocked_pseudo_clock, msg_inbox>>
      /\ blocked_msg' = blocked_msg \cup {current_process}
      /\ Resume(NULL, ready_queue, process_count, soft_blocked_count)
  BY DEF ReceiveBlock, messages
<1>2. current_process \in Runnable /\ NULL \notin Range(ready_queue) /\ ready_queue \in Seq(Pcb)
  BY KernelAssumption, LenProperties DEF Runnable, TypeInv, TypeOK, Range
<1>3. /\ Runnable' = Range(ready_queue)
      /\ IsInjective(ready_queue) => IsInjective(ready_queue') /\ current_process' \notin Range(ready_queue')
  BY <1>1, <1>2, ResumeSets
<1>4. Range(ready_queue) = Runnable \ {current_process}
  BY <1>2, KernelAssumption DEF Runnable, Separate
<1>5. Separate' /\ Somewhere'
  BY <1>1, <1>2, <1>3, <1>4 DEF Separate, Disjoint, Somewhere
<1>6. QED
  BY <1>1, <1>5, TreeKept DEF Kept

\* The termination of the family of a process p that is not the SSI: the rest
\* of every list, and of the tree, is intact.  rq is the ready queue without
\* the family.
LEMMA FamilySets ==
  ASSUME Before, NEW p \in Pcb \ {ssi_pcb}, FreeFamily(Descendants(p)),
         NEW rq \in Without(ready_queue, Descendants(p))
  PROVE  LET D == Descendants(p)
         IN  /\ D \subseteq Pcb /\ p \in D /\ ssi_pcb \notin D
             /\ pcbFree_h' = pcbFree_h \cup D /\ blocked_msg' = blocked_msg \ D
             /\ Range(blocked_pseudo_clock') = Range(blocked_pseudo_clock) \ D
             /\ IsInjective(blocked_pseudo_clock')
             /\ rq \in Seq(Pcb) /\ Range(rq) = Range(ready_queue) \ D /\ IsInjective(rq)
             /\ TreeIntact'
             /\ p_parent'[ssi_pcb] = NULL /\ ssi_pcb \notin pcbFree_h'
             /\ \A d \in Dev : blocked_dev'[d] # ssi_pcb
<1> USE DEF Before
<1> DEFINE D == Descendants(p)
<1>1. /\ D \subseteq Pcb /\ p \in D /\ ssi_pcb \notin D
      /\ \A c \in Pcb : p_parent[c] \in D => c \in D
  BY Families, KernelAssumption DEF SsiApart
<1> HIDE DEF D
<1>2. /\ pcbFree_h' = pcbFree_h \cup D /\ blocked_msg' = blocked_msg \ D
      /\ blocked_pseudo_clock' \in Without(blocked_pseudo_clock, D)
      /\ p_parent' = [q \in Pcb |-> IF q \in D THEN NULL ELSE p_parent[q]]
      /\ blocked_dev' = [d \in Dev |-> IF d \in Cleared(D) THEN NULL ELSE blocked_dev[d]]
  BY DEF FreeFamily, D
<1>3. /\ Range(blocked_pseudo_clock') = Range(blocked_pseudo_clock) \ D
      /\ IsInjective(blocked_pseudo_clock')
  BY <1>2, OutProcQ, KernelAssumption DEF TypeInv, TypeOK
<1>4. rq \in Seq(Pcb) /\ Range(rq) = Range(ready_queue) \ D /\ IsInjective(rq)
  BY OutProcQ, KernelAssumption DEF TypeInv, TypeOK, D
<1>5. TreeIntact'
  <2> SUFFICES ASSUME NEW q \in Pcb, p_parent'[q] # NULL
               PROVE  p_parent'[q] \in Pcb \ pcbFree_h' /\ p_parent'[q] # q
    BY DEF TreeIntact, Live
  <2>1. q \notin D /\ p_parent'[q] = p_parent[q] /\ p_parent[q] # NULL
    BY <1>2
  <2>2. p_parent[q] \in Live /\ p_parent[q] # q
    BY <2>1 DEF TreeIntact
  <2>3. p_parent[q] \notin D
    BY <1>1, <2>1
  <2>4. QED
    BY <1>2, <2>1, <2>2, <2>3 DEF Live
<1>6. p_parent'[ssi_pcb] = NULL /\ ssi_pcb \notin pcbFree_h'
  BY <1>1, <1>2, KernelAssumption DEF SsiApart
<1>7. \A d \in Dev : blocked_dev'[d] # ssi_pcb
  BY <1>2, KernelAssumption DEF SsiApart
<1>8. QED
  BY <1>1, <1>2, <1>3, <1>4, <1>5, <1>6, <1>7 DEF D

\* The services that move PCBs.
LEMMA CreateSets ==
  ASSUME Before, createProcess
  PROVE  Separate' /\ Somewhere' /\ (TreeIntact' \/ LateRequest) /\ SsiApart'
<1> USE DEF Before
<1>1. /\ UNCHANGED <<blocked_dev, current_process>>
      /\ ssi.sender \in Pcb /\ ssi.sender # ssi_pcb /\ ThenReply
      /\ ssi_pcb \in Pcb
  BY KernelAssumption DEF createProcess, allocPcb, Serving, devices, TypeInv, Actors, SsiApart
<1>2. ssi'.at # "receive" => ssi'.sender # ssi_pcb
  BY <1>1 DEF ThenReply, TypeInv, TypeOK, SsiState
<1>3. CASE pcbFree_h = {} /\ UNCHANGED <<queues, tree, msg_inbox, reg_a1, process_count>>
  <2>1. UNCHANGED <<queues, p_parent, msg_inbox>>
    BY <1>3 DEF tree
  <2>2. Separate' /\ Somewhere' /\ TreeIntact'
    BY <1>1, <2>1, TreeKept DEF queues, Separate, Disjoint, Somewhere, Runnable
  <2>3. QED
    BY <1>1, <1>2, <2>1, <2>2 DEF queues, SsiApart
<1>4. ASSUME NEW c \in pcbFree_h,
             pcbFree_h' = pcbFree_h \ {c},
             msg_inbox' = [msg_inbox EXCEPT ![c] = <<>>],
             p_parent' = insertChild(ssi.sender, c),
             ready_queue' = insertProcQ(ready_queue, c),
             UNCHANGED <<blocked_msg, blocked_pseudo_clock>>
      PROVE  Separate' /\ Somewhere' /\ (TreeIntact' \/ LateRequest) /\ SsiApart'
  <2>1. c \in Pcb /\ c # ssi_pcb /\ c # NULL /\ c \notin Runnable
    BY <1>4, KernelAssumption DEF TypeInv, TypeOK, SsiApart, Separate, Disjoint
  <2>2. /\ Range(ready_queue') = Range(ready_queue) \cup {c}
        /\ IsInjective(ready_queue')
    BY <1>4, <2>1, InsertProcQ DEF TypeInv, TypeOK, Separate, Runnable
  <2>3. Runnable' = Runnable \cup {c} /\ current_process # c
    BY <1>1, <2>1, <2>2 DEF Runnable
  <2>4. Separate' /\ Somewhere'
    BY <1>1, <1>4, <2>1, <2>2, <2>3 DEF Separate, Disjoint, Somewhere
  <2>5. p_parent' = [p_parent EXCEPT ![c] = ssi.sender]
    BY <1>4 DEF insertChild
  <2>6. ASSUME ssi.sender \in pcbFree_h
        PROVE  LateRequest
    BY <2>6 DEF LateRequest, createProcess, allocPcb, Serving
  <2>7. ASSUME ssi.sender \notin pcbFree_h
        PROVE  TreeIntact'
    <3>1. ssi.sender \in Live' /\ ssi.sender # c
      BY <1>1, <1>4, <2>7 DEF Live
    <3>2. \A q \in Pcb : p_parent'[q] # NULL => p_parent'[q] \in Live' /\ p_parent'[q] # q
      BY <1>4, <2>5, <3>1 DEF TreeIntact, Live, TypeInv, TypeOK
    <3>3. QED
      BY <3>2 DEF TreeIntact
  <2>8. SsiApart'
    BY <1>1, <1>2, <1>4, <2>1, <2>5 DEF SsiApart, TypeInv, TypeOK
  <2>9. QED
    BY <2>4, <2>6, <2>7, <2>8
<1>5. QED
  BY <1>3, <1>4 DEF createProcess, allocPcb

\* Whom terminateProcess terminates is never the SSI.
LEMMA TargetApart ==
  ASSUME TypeInv, SsiApart, terminateProcess
  PROVE  Target \in Pcb \ {ssi_pcb}
<1>1. CASE ssi.request.service = "TERMPROCESS" /\ ssi.request.target # NULL
  <2>1. ssi.request \in Request
    BY <1>1, KernelAssumption DEF TypeInv, TypeOK, SsiState, Data, Reply
  <2>2. ssi.request.target \in (Pcb \ {ssi_pcb}) \cup {NULL}
    BY <1>1, <2>1 DEF Request
  <2>3. QED
    BY <1>1, <2>2 DEF Target
<1>2. CASE ~(ssi.request.service = "TERMPROCESS" /\ ssi.request.target # NULL)
  <2>1. Target = ssi.sender
    BY <1>2 DEF Target
  <2>2. ssi.sender \in Pcb /\ ssi.sender # ssi_pcb
    BY DEF terminateProcess, Serving, TypeInv, Actors, SsiApart
  <2>3. QED
    BY <2>1, <2>2
<1>3. QED
  BY <1>1, <1>2

\* terminateProcess keeps lists and tree intact, whoever asked and whenever.
LEMMA TerminateSets ==
  ASSUME Before, terminateProcess
  PROVE  Kept /\ SsiApart'
<1> USE DEF Before
<1>1. /\ UNCHANGED <<msg_inbox, current_process>> /\ current_process = ssi_pcb
      /\ ssi.sender \in Pcb /\ ssi.sender # ssi_pcb /\ (ThenReply \/ ThenReceive)
  BY DEF terminateProcess, Serving, messages, TypeInv, Actors, SsiApart
<1>2. ssi'.at # "receive" => ssi'.sender # ssi_pcb
  BY DEF terminateProcess, Serving, SsiApart, ThenReply, ThenReceive, Idle, TypeInv, TypeOK, SsiState
<1>3. CASE UNCHANGED <<queues, p_parent, blocked_dev, counters>>
  <2>1. Kept
    BY <1>1, <1>3, TreeKept DEF Kept, queues, Separate, Disjoint, Somewhere, Runnable
  <2>2. QED
    BY <1>1, <1>2, <1>3, <2>1 DEF queues, SsiApart
<1>4. CASE /\ FreeFamily(Descendants(Target))
           /\ ready_queue' \in Without(ready_queue, Descendants(Target))
  <2>1. Target \in Pcb \ {ssi_pcb}
    BY TargetApart
  <2> DEFINE D == Descendants(Target)
  <2>2. /\ D \subseteq Pcb /\ ssi_pcb \notin D
        /\ pcbFree_h' = pcbFree_h \cup D /\ blocked_msg' = blocked_msg \ D
        /\ Range(blocked_pseudo_clock') = Range(blocked_pseudo_clock) \ D
        /\ IsInjective(blocked_pseudo_clock')
        /\ Range(ready_queue') = Range(ready_queue) \ D /\ IsInjective(ready_queue')
        /\ TreeIntact'
        /\ p_parent'[ssi_pcb] = NULL /\ ssi_pcb \notin pcbFree_h'
        /\ \A d \in Dev : blocked_dev'[d] # ssi_pcb
    BY <1>4, <2>1, FamilySets
  <2> HIDE DEF D
  <2>3. Runnable' = Runnable \ D
    BY <1>1, <2>2 DEF Runnable
  <2>4. Separate' /\ Somewhere'
    BY <1>1, <2>2, <2>3 DEF Separate, Disjoint, Somewhere
  <2>5. QED
    BY <1>1, <1>2, <2>2, <2>4 DEF Kept, SsiApart
<1>5. QED
  BY <1>3, <1>4 DEF terminateProcess

\* waitForClock breaks the lists only for a sender that is not blocked.
LEMMA ClockSets ==
  ASSUME Before, waitForClock
  PROVE  (Kept \/ LateRequest) /\ (Separate' => Somewhere') /\ SsiApart'
<1> USE DEF Before
<1>1. /\ UNCHANGED <<pcbFree_h, ready_queue, current_process, p_parent, msg_inbox, blocked_dev>>
      /\ ssi.sender \in Pcb /\ ssi.sender # ssi_pcb /\ ThenReply
      /\ blocked_msg' = blocked_msg \ {ssi.sender}
      /\ blocked_pseudo_clock' = insertProcQ(blocked_pseudo_clock, ssi.sender)
  BY DEF waitForClock, Serving, tree, messages, devices, TypeInv, Actors, SsiApart
<1>2. SsiApart'
  BY <1>1 DEF ThenReply, SsiApart, TypeInv, TypeOK, SsiState
<1>3. /\ Range(blocked_pseudo_clock') = Range(blocked_pseudo_clock) \cup {ssi.sender}
      /\ IsInjective(blocked_pseudo_clock) /\ ssi.sender \notin Range(blocked_pseudo_clock)
           => IsInjective(blocked_pseudo_clock')
  BY <1>1, InsertProcQ DEF TypeInv, TypeOK
<1>4. Runnable' = Runnable
  BY <1>1 DEF Runnable
<1>5. Somewhere'
  BY <1>1, <1>3, <1>4 DEF Somewhere
<1>6. CASE ssi.sender \in blocked_msg
  <2>1. Separate'
    BY <1>1, <1>3, <1>4, <1>6 DEF Separate, Disjoint
  <2>2. QED
    BY <1>1, <1>2, <1>5, <2>1, TreeKept DEF Kept
<1>7. CASE ssi.sender \notin blocked_msg
  BY <1>2, <1>5, <1>7 DEF LateRequest, waitForClock
<1>8. QED
  BY <1>6, <1>7
-----------------------------------------------------------------------------
\* A step of the SSI keeps the lists and the tree, or serves a late request.
LEMMA SsiKeeps ==
  ASSUME Before, TypeInv', SsiStep
  PROVE  (Kept \/ LateRequest) /\ (Separate' => Somewhere') /\ SsiApart'
<1> USE DEF Before
<1>1. CASE SsiReceive
  <2>1. /\ UNCHANGED <<p_parent, blocked_dev>> /\ current_process = ssi_pcb
        /\ ssi_pcb \in Pcb
    BY <1>1, KernelAssumption DEF SsiReceive, tree, devices
  <2>2. ASSUME NEW i \in DOMAIN msg_inbox[ssi_pcb], ReceiveTake(NULL, i),
               ssi' = [at |-> "serve", sender |-> msg_inbox[ssi_pcb][i].m_sender,
                       request |-> msg_inbox[ssi_pcb][i].m_payload]
        PROVE  Kept /\ SsiApart'
    <3>1. Kept /\ \A m \in Range(msg_inbox'[ssi_pcb]) : m.m_sender # ssi_pcb
      BY <2>1, <2>2, TakeSets
    <3>2. msg_inbox[ssi_pcb][i] \in Range(msg_inbox[ssi_pcb])
      BY DEF Range
    <3>3. ssi'.sender # ssi_pcb
      BY <2>2, <3>2 DEF SsiApart
    <3>4. UNCHANGED pcbFree_h
      BY <2>2 DEF ReceiveTake, queues
    <3>5. QED
      BY <2>1, <3>1, <3>3, <3>4 DEF SsiApart
  <2>3. CASE ReceiveBlock(NULL) /\ UNCHANGED ssi
    <3>1. Kept /\ UNCHANGED msg_inbox
      BY <2>1, <2>3, BlockSets
    <3>2. UNCHANGED pcbFree_h
      BY <2>3 DEF ReceiveBlock
    <3>3. QED
      BY <2>1, <2>3, <3>1, <3>2 DEF SsiApart, Kept
  <2>4. QED
    BY <1>1, <2>2, <2>3 DEF SsiReceive, Kept
<1>2. CASE createProcess
  BY <1>2, CreateSets DEF Kept
<1>3. CASE terminateProcess
  BY <1>3, TerminateSets DEF Kept
<1>4. CASE doIO
  <2>1. /\ UNCHANGED <<queues, p_parent, msg_inbox, current_process>> /\ ThenReceive
        /\ ssi.sender # ssi_pcb
        /\ blocked_dev' = [blocked_dev EXCEPT ![ssi.request.dev] = ssi.sender]
    BY <1>4 DEF doIO, tree, messages, Serving, SsiApart
  <2>2. Kept
    BY <2>1, TreeKept DEF Kept, queues, Separate, Disjoint, Somewhere, Runnable
  <2>3. SsiApart'
    BY <2>1 DEF SsiApart, queues, ThenReceive, Idle, TypeInv, TypeOK
  <2>4. QED
    BY <2>2, <2>3 DEF Kept
<1>5. CASE waitForClock
  BY <1>5, ClockSets
<1>6. CASE getData
  <2>1. /\ UNCHANGED <<queues, p_parent, msg_inbox, current_process, blocked_dev>>
        /\ ThenReply \/ UNCHANGED ssi
        /\ ssi.sender # ssi_pcb
    BY <1>6 DEF getData, tree, messages, devices, Serving, SsiApart
  <2>2. Kept
    BY <2>1, TreeKept DEF Kept, queues, Separate, Disjoint, Somewhere, Runnable
  <2>3. SsiApart'
    BY <2>1 DEF SsiApart, queues, ThenReply, TypeInv, TypeOK, SsiState
  <2>4. QED
    BY <2>2, <2>3 DEF Kept
<1>7. CASE SsiReply
  <2>1. /\ UNCHANGED <<p_parent, blocked_dev>> /\ ThenReceive
        /\ current_process \in Pcb /\ SendMessage(ssi.sender, Reply)
        /\ ssi.sender \in Pcb /\ ssi.sender # ssi_pcb
    BY <1>7, KernelAssumption DEF SsiReply, tree, devices, TypeInv, Actors, SsiApart
  <2>2. Kept /\ \A m \in Range(msg_inbox'[ssi_pcb]) : m.m_sender # ssi_pcb
    BY <2>1, SendSets
  <2>3. UNCHANGED pcbFree_h
    BY <2>1 DEF SendMessage
  <2>4. QED
    BY <2>1, <2>2, <2>3 DEF Kept, SsiApart, ThenReceive, Idle
<1>8. QED
  BY <1>1, <1>2, <1>3, <1>4, <1>5, <1>6, <1>7 DEF SsiStep

\* No step of another process breaks the lists or the tree.
LEMMA ClientKeeps ==
  ASSUME Before, TypeInv',
         \/ \E dest \in Pcb \ {ssi_pcb} : ClientSend(dest)
         \/ \E r \in Requests : ClientRequest(r)
         \/ \E from \in Pcb \cup {NULL} : ClientReceive(from)
         \/ PassUp_Or_Die
  PROVE  Kept /\ SsiApart'
<1> USE DEF Before
<1>1. ASSUME NEW dest \in Pcb \ {ssi_pcb}, ClientSend(dest)
      PROVE  Kept /\ SsiApart'
  <2>1. /\ UNCHANGED <<p_parent, blocked_dev, ssi>> /\ current_process \in Pcb
        /\ SendMessage(dest, Data)
    BY <1>1 DEF ClientSend, UserCode, tree, devices
  <2>2. Kept /\ \A m \in Range(msg_inbox'[ssi_pcb]) : m.m_sender # ssi_pcb
    BY <2>1, SendSets
  <2>3. QED
    BY <2>1, <2>2 DEF SsiApart, SendMessage
<1>2. ASSUME NEW r \in Requests, ClientRequest(r)
      PROVE  Kept /\ SsiApart'
  <2>1. /\ UNCHANGED <<p_parent, blocked_dev, ssi>> /\ current_process \in Pcb \ {ssi_pcb}
        /\ ssi_pcb \in Pcb /\ SendMessage(ssi_pcb, r)
    BY <1>2, KernelAssumption DEF ClientRequest, UserCode, tree, devices
  <2>2. Kept /\ \A m \in Range(msg_inbox'[ssi_pcb]) : m.m_sender # ssi_pcb
    BY <2>1, SendSets
  <2>3. QED
    BY <2>1, <2>2 DEF SsiApart, SendMessage
<1>3. ASSUME NEW from \in Pcb \cup {NULL}, ClientReceive(from)
      PROVE  Kept /\ SsiApart'
  <2>1. UNCHANGED <<p_parent, blocked_dev, ssi>> /\ current_process \in Pcb
    BY <1>3 DEF ClientReceive, tree, devices
  <2>2. ASSUME NEW i \in DOMAIN msg_inbox[current_process], ReceiveTake(from, i)
        PROVE  Kept /\ SsiApart'
    <3>1. Kept /\ \A m \in Range(msg_inbox'[ssi_pcb]) : m.m_sender # ssi_pcb
      BY <2>1, <2>2, TakeSets
    <3>2. QED
      BY <2>1, <2>2, <3>1 DEF SsiApart, ReceiveTake, queues
  <2>3. CASE ReceiveBlock(from)
    <3>1. Kept /\ UNCHANGED msg_inbox
      BY <2>1, <2>3, BlockSets
    <3>2. QED
      BY <2>1, <2>3, <3>1 DEF SsiApart, ReceiveBlock
  <2>4. QED
    BY <1>3, <2>2, <2>3 DEF ClientReceive
<1>4. CASE PassUp_Or_Die
  <2> DEFINE D == Descendants(current_process)
  <2>1. /\ UNCHANGED <<msg_inbox, ssi>> /\ current_process \in Pcb \ {ssi_pcb}
        /\ FreeFamily(D)
    BY <1>4 DEF PassUp_Or_Die, UserCode, messages
  <2>2. PICK rq \in Without(ready_queue, D) :
          Resume(NULL, rq, process_count', soft_blocked_count')
    BY <1>4 DEF PassUp_Or_Die
  <2>3. /\ D \subseteq Pcb /\ current_process \in D
        /\ pcbFree_h' = pcbFree_h \cup D /\ blocked_msg' = blocked_msg \ D
        /\ Range(blocked_pseudo_clock') = Range(blocked_pseudo_clock) \ D
        /\ IsInjective(blocked_pseudo_clock')
        /\ rq \in Seq(Pcb) /\ Range(rq) = Range(ready_queue) \ D /\ IsInjective(rq)
        /\ TreeIntact'
        /\ p_parent'[ssi_pcb] = NULL /\ ssi_pcb \notin pcbFree_h'
        /\ \A d \in Dev : blocked_dev'[d] # ssi_pcb
    BY <2>1, <2>2, FamilySets
  <2> HIDE DEF D
  <2>4. NULL \notin Range(rq)
    BY <2>3, KernelAssumption, LenProperties DEF TypeInv, TypeOK, Range
  <2>5. /\ Runnable' = Range(rq)
        /\ IsInjective(ready_queue') /\ current_process' \notin Range(ready_queue')
    BY <2>2, <2>3, <2>4, ResumeSets
  <2>6. Range(rq) = Runnable \ D
    BY <2>3 DEF Runnable
  <2>7. Separate' /\ Somewhere'
    BY <2>3, <2>5, <2>6 DEF Separate, Disjoint, Somewhere
  <2>8. QED
    BY <2>1, <2>3, <2>7 DEF Kept, SsiApart
<1>5. QED
  BY <1>1, <1>2, <1>3, <1>4

\* An interrupt breaks the lists only by readying a process that is not blocked.
LEMMA InterruptKeeps ==
  ASSUME Before, TypeInv',
         \/ LocalTimerInterrupt
         \/ IntervalTimerInterrupt
         \/ \E d \in Dev : DeviceInterrupt(d) \/ TwoDevicesPending(d)
         \/ NullStored
  PROVE  (Kept \/ LateRequest) /\ (Separate' => Somewhere') /\ SsiApart'
<1> USE DEF Before
<1>1. /\ Range(ready_queue) \subseteq Pcb /\ NULL \notin Range(ready_queue)
      /\ Range(blocked_pseudo_clock) \subseteq Pcb
      /\ ready_queue \in Seq(Pcb) /\ blocked_pseudo_clock \in Seq(Pcb)
      /\ current_process \in Pcb \cup {NULL} /\ NULL \notin Pcb
  BY KernelAssumption, LenProperties DEF TypeInv, TypeOK, Range
<1>2. CASE LocalTimerInterrupt
  <2> DEFINE rq == insertProcQ(ready_queue, current_process)
  <2>1. /\ UNCHANGED <<pcbFree_h, blocked_msg, blocked_pseudo_clock, p_parent, msg_inbox,
                       blocked_dev, ssi>>
        /\ Resume(NULL, rq, process_count, soft_blocked_count)
        /\ current_process \in Pcb
    BY <1>2 DEF LocalTimerInterrupt, tree, messages, devices, TypeInv, Actors
  <2>2. /\ rq \in Seq(Pcb) /\ Range(rq) = Range(ready_queue) \cup {current_process}
        /\ IsInjective(rq)
    BY <1>1, <2>1, InsertProcQ DEF Separate
  <2> HIDE DEF rq
  <2>3. /\ Runnable' = Range(rq) /\ NULL \notin Range(rq)
        /\ IsInjective(ready_queue') /\ current_process' \notin Range(ready_queue')
    BY <1>1, <2>1, <2>2, ResumeSets
  <2>4. Range(rq) = Runnable
    BY <1>1, <2>1, <2>2 DEF Runnable
  <2>5. Separate' /\ Somewhere' /\ TreeIntact'
    BY <2>1, <2>3, <2>4, TreeKept DEF Separate, Disjoint, Somewhere
  <2>6. QED
    BY <2>1, <2>5 DEF Kept, SsiApart
<1>3. CASE IntervalTimerInterrupt
  <2> DEFINE rq == ready_queue \o blocked_pseudo_clock
  <2>1. /\ UNCHANGED <<pcbFree_h, blocked_msg, p_parent, msg_inbox, blocked_dev, ssi>>
        /\ blocked_pseudo_clock' = <<>>
        /\ Resume(current_process, rq, process_count, soft_blocked_count')
    BY <1>3 DEF IntervalTimerInterrupt, tree, messages, devices
  <2>2. Range(ready_queue) \cap Range(blocked_pseudo_clock) = {}
    BY DEF Separate, Disjoint, Runnable
  <2>3. /\ rq \in Seq(Pcb) /\ Range(rq) = Range(ready_queue) \cup Range(blocked_pseudo_clock)
        /\ IsInjective(rq)
    BY <1>1, <2>2, MoveQueue DEF Separate
  <2> HIDE DEF rq
  <2>4. current_process \notin Range(rq)
    BY <1>1, <2>3 DEF Separate, Disjoint, Runnable
  <2>5. /\ Runnable' = Range(rq) \cup ({current_process} \ {NULL})
        /\ IsInjective(ready_queue') /\ current_process' \notin Range(ready_queue')
    BY <1>1, <2>1, <2>3, <2>4, ResumeSets
  <2>6. Runnable' = Runnable \cup Range(blocked_pseudo_clock)
    BY <2>3, <2>5 DEF Runnable
  <2>7. Range(blocked_pseudo_clock') = {} /\ IsInjective(blocked_pseudo_clock')
    BY <2>1 DEF Range, IsInjective
  <2>8. Separate' /\ Somewhere' /\ TreeIntact'
    BY <2>1, <2>5, <2>6, <2>7, TreeKept DEF Separate, Disjoint, Somewhere
  <2>9. QED
    BY <2>1, <2>8 DEF Kept, SsiApart
<1>4. ASSUME NEW d \in Dev, DeviceInterrupt(d)
      PROVE  (Kept \/ LateRequest) /\ (Separate' => Somewhere') /\ SsiApart'
  <2> DEFINE w  == blocked_dev[d]
             rq == insertProcQ(ready_queue, w)
             m  == [m_sender |-> ssi_pcb, m_payload |-> Reply]
  <2>1. /\ UNCHANGED <<pcbFree_h, blocked_pseudo_clock, p_parent, ssi>>
        /\ blocked_dev' = [blocked_dev EXCEPT ![d] = NULL]
        /\ w \in Pcb \cup {NULL} /\ w # ssi_pcb /\ ssi_pcb \in Pcb
        /\ blocked_dev \in [Dev -> Pcb \cup {NULL}]
    BY <1>4, KernelAssumption DEF DeviceInterrupt, tree, TypeInv, TypeOK, SsiApart
  <2>2. (\A e \in Dev : blocked_dev'[e] # ssi_pcb) /\ TreeIntact'
    BY <2>1, KernelAssumption, TreeKept DEF SsiApart
  <2>3. CASE w # NULL
    <3>1. /\ msg_inbox' = [msg_inbox EXCEPT ![w] = pushMessage(@, m)]
          /\ blocked_msg' = blocked_msg \ {w}
          /\ Resume(current_process, rq, process_count, soft_blocked_count')
          /\ w \in Pcb
      BY <1>4, <2>1, <2>3 DEF DeviceInterrupt
    <3>2. /\ rq \in Seq(Pcb) /\ Range(rq) = Range(ready_queue) \cup {w}
          /\ IsInjective(ready_queue) /\ w \notin Range(ready_queue) => IsInjective(rq)
      BY <1>1, <3>1, InsertProcQ
    <3>3. msg_inbox'[ssi_pcb] = msg_inbox[ssi_pcb]
      BY <2>1, <3>1 DEF TypeInv, TypeOK
    <3>4. SsiApart'
      BY <2>1, <2>2, <3>3 DEF SsiApart
    <3>5. blocked_dev'[d] = NULL
      BY <2>1
    <3> HIDE DEF rq, m
    <3>6. Runnable' = Runnable \cup {w}
      <4>1. Runnable' = Range(rq) \cup ({current_process} \ {NULL})
        BY <1>1, <3>1, <3>2, ResumeSets
      <4>2. QED
        BY <3>2, <4>1 DEF Runnable
    <3>7. Somewhere'
      BY <2>1, <3>1, <3>6 DEF Somewhere
    <3>8. CASE w \in blocked_msg
      <4>1. w \notin Runnable /\ w \notin Range(blocked_pseudo_clock) /\ w \notin pcbFree_h
        BY <3>8 DEF Separate, Disjoint
      <4>2. w \notin Range(ready_queue) /\ w # current_process
        BY <2>3, <4>1 DEF Runnable
      <4>3. current_process \notin Range(rq) /\ IsInjective(rq)
        BY <3>2, <4>2 DEF Separate
      <4>4. IsInjective(ready_queue') /\ current_process' \notin Range(ready_queue')
        BY <1>1, <3>1, <3>2, <4>3, ResumeSets
      <4>5. Separate'
        BY <2>1, <3>1, <3>6, <4>1, <4>4 DEF Separate, Disjoint
      <4>6. QED
        BY <2>2, <3>4, <3>7, <4>5 DEF Kept
    <3>9. CASE w \notin blocked_msg
      <4>1. LateRequest
        BY <2>3, <3>5, <3>9 DEF LateRequest
      <4>2. QED
        BY <3>4, <3>7, <4>1
    <3>10. QED
      BY <3>8, <3>9
  <2>4. CASE w = NULL
    <3>1. /\ UNCHANGED <<msg_inbox, blocked_msg>>
          /\ Resume(current_process, ready_queue, process_count, soft_blocked_count)
      BY <1>4, <2>4 DEF DeviceInterrupt, messages
    <3>2. /\ Runnable' = Runnable
          /\ IsInjective(ready_queue') /\ current_process' \notin Range(ready_queue')
      BY <1>1, <3>1, ResumeSets DEF Separate, Runnable
    <3>3. Separate' /\ Somewhere'
      BY <2>1, <3>1, <3>2 DEF Separate, Disjoint, Somewhere
    <3>4. QED
      BY <2>1, <2>2, <3>1, <3>3 DEF Kept, SsiApart
  <2>5. QED
    BY <2>3, <2>4
<1>5. ASSUME \/ \E d \in Dev : TwoDevicesPending(d)
             \/ NullStored
      PROVE  Kept /\ SsiApart'
  <2>1. UNCHANGED <<queues, p_parent, msg_inbox, blocked_dev, current_process, ssi>>
    BY <1>5 DEF TwoDevicesPending, NullStored, tree, messages, devices
  <2>2. QED
    BY <2>1, TreeKept DEF Kept, SsiApart, queues, Separate, Disjoint, Somewhere, Runnable
<1>6. QED
  BY <1>2, <1>3, <1>4, <1>5 DEF Kept
-----------------------------------------------------------------------------
\* main() establishes the invariant.
LEMMA InitIInv == Init => IInv
<1> SUFFICES ASSUME Init PROVE IInv
  OBVIOUS
<1>1. TypeInv
  BY InitTypes
<1>2. SsiApart
  BY KernelAssumption DEF Init, SsiApart, Idle, Range
<1>3. Somewhere
  <2>1. Range(<<test_pcb>>) = {test_pcb}
    BY DEF Range
  <2>2. ready_queue = <<test_pcb>> /\ current_process = ssi_pcb
    BY DEF Init
  <2>3. ssi_pcb \in Runnable /\ test_pcb \in Runnable
    <3>1. ssi_pcb \in {current_process} \ {NULL}
      BY <2>2, KernelAssumption
    <3>2. test_pcb \in Range(ready_queue)
      BY <2>1, <2>2
    <3>3. QED
      BY <3>1, <3>2 DEF Runnable
  <2>4. Runnable \subseteq Pcb /\ Range(blocked_pseudo_clock) = {}
    <3>1. Range(<< >>) = {}
      BY DEF Range
    <3>2. Range(ready_queue) \subseteq Pcb
      BY <2>1, <2>2, KernelAssumption
    <3>3. Range(blocked_pseudo_clock) = {}
      BY <3>1 DEF Init
    <3>4. {current_process} \ {NULL} \subseteq Pcb
      BY <2>2, KernelAssumption
    <3>5. QED
      BY <3>2, <3>3, <3>4 DEF Runnable
  <2>5. pcbFree_h = Pcb \ {ssi_pcb, test_pcb} /\ blocked_msg = {}
    BY DEF Init
  <2>6. QED
    BY <2>3, <2>4, <2>5 DEF Somewhere
<1>4. QED
  BY <1>1, <1>2, <1>3 DEF IInv

\* The heart of the argument: one step from a state that can be followed.
LEMMA RunningStep ==
  ASSUME IInv, [Next]_vars, Intact, TypeInv'
  PROVE  /\ ~Intact' => LateRequest
         /\ SsiApart' /\ (Intact' => Somewhere')
<1>1. Separate /\ TreeIntact
  BY QueuesIntactIsSeparate DEF Intact, IInv
<1>2. QueuesIntact' <=> Separate'
  <2>1. (TypeInv => (QueuesIntact <=> Separate))'
    BY QueuesIntactIsSeparate, PTL
  <2>2. QED
    BY <2>1
<1>3. Before
  BY <1>1 DEF Before, IInv
<1>4. CASE UNCHANGED vars
  <2>1. UNCHANGED <<queues, p_parent, msg_inbox, blocked_dev, current_process, ssi>>
    BY <1>4 DEF vars, tree, messages, devices
  <2>2. Kept /\ SsiApart'
    BY <1>3, <2>1, TreeKept
    DEF Before, Kept, SsiApart, queues, Separate, Disjoint, Somewhere, Runnable
  <2>3. QED
    BY <1>2, <2>2 DEF Kept, Intact
<1>5. CASE ~UNCHANGED vars
  <2>1. (Kept \/ LateRequest) /\ (Separate' => Somewhere') /\ SsiApart'
    BY <1>3, <1>5, NextCases, SsiKeeps, ClientKeeps, InterruptKeeps DEF Kept
  <2>2. QED
    BY <1>2, <2>1 DEF Kept, Intact
<1>6. QED
  BY <1>4, <1>5

\* The invariant is inductive: a state that cannot be followed has no step.
LEMMA NextIInv == IInv /\ [Next]_vars => IInv'
<1> SUFFICES ASSUME IInv, [Next]_vars PROVE IInv'
  OBVIOUS
<1>1. TypeInv'
  BY NextTypes DEF IInv
<1>2. CASE Intact
  BY <1>1, <1>2, RunningStep DEF IInv
<1>3. CASE ~Intact
  <2>1. UNCHANGED vars
    BY <1>3 DEF Next, Slice, Tick, Device, Running, Stopped
  <2>2. UNCHANGED <<queues, p_parent, msg_inbox, blocked_dev, current_process, ssi>>
    BY <2>1 DEF vars, tree, messages, devices
  <2>3. ~Intact'
    BY <1>3, <2>2 DEF Intact, QueuesIntact, TreeIntact, InLists, Live, queues
  <2>4. SsiApart'
    BY <2>2 DEF IInv, SsiApart, queues
  <2>5. QED
    BY <1>1, <2>3, <2>4 DEF IInv
<1>4. QED
  BY <1>2, <1>3

\* Every reachable state satisfies the inductive invariant: SSIServer never
\* serves itself or waits for a device, and no PCB is lost.
THEOREM Invariant == Spec => []IInv
BY InitIInv, NextIInv, PTL DEF Spec

\* No PCB is ever lost, while the lists can be followed: every combination of
\* system calls, services, terminations and interrupts leaves each one free,
\* ready, blocked, waiting for the clock or running.
THEOREM NoPcbLost == Spec => []NothingLost
<1>1. IInv => NothingLost
  BY NothingLostIsSomewhere DEF IInv, NothingLost
<1>2. QED
  BY <1>1, Invariant, PTL

\* The lists and the tree of the kernel are corrupted by a late request, or
\* not at all.
THEOREM OnlyLateRequestsBreak == Spec => BreakOnlyByLateRequest
<1>1. IInv /\ [Next]_vars => [Intact /\ ~Intact' => LateRequest]_vars
  <2> SUFFICES ASSUME IInv, [Next]_vars, Intact, ~Intact'
               PROVE  LateRequest
    OBVIOUS
  <2>1. TypeInv'
    BY NextTypes DEF IInv
  <2>2. QED
    BY <2>1, RunningStep
<1>2. QED
  BY <1>1, Invariant, PTL DEF Spec, BreakOnlyByLateRequest
=============================================================================
