---------------------------- MODULE CountProofs -----------------------------
(***************************************************************************)
(* Theorems about whom the nucleus wakes and what it counts: no lost wakeup; *)
(* processes, waits and families, and the verdict the scheduler draws from  *)
(* the counters.                                                            *)
(***************************************************************************)
EXTENDS NucleusProofs, Foundations

\* Nobody who is blocked in a RECEIVE has a message to take.
Asleep == \A p \in blocked_msg : Matches(msg_inbox[p], reg_a1[p]) = {}

\* What popMessage finds is a question about the set of messages of an inbox:
\* the order in which they arrived plays no part in it.
LEMMA NoMatch ==
  ASSUME NEW box, NEW from
  PROVE  Matches(box, from) = {}
           <=> \A m \in Range(box) : from # NULL /\ m.m_sender # from
BY DEF Matches, Range

\* A step that blocks nobody, and leaves alone the inboxes and the register of
\* those who stay blocked, wakes whom it should.
LEMMA NobodyBlocks ==
  ASSUME Asleep, blocked_msg' \subseteq blocked_msg,
         \A p \in blocked_msg' : msg_inbox'[p] = msg_inbox[p] /\ reg_a1'[p] = reg_a1[p]
  PROVE  Asleep'
BY DEF Asleep

\* SEND: a message that the destination waits for readies it, and the others
\* leave it with nothing to take.  The register of the sender may change.
LEMMA SendWakes ==
  ASSUME TypeInv, Asleep, QueuesIntact, current_process \in Pcb, NEW dest \in Pcb,
         NEW payload \in Requests \cup {Data, Reply}, SendMessage(dest, payload),
         \A p \in Pcb \ {current_process} : reg_a1'[p] = reg_a1[p]
  PROVE  Asleep'
<1> DEFINE m == [m_sender |-> current_process, m_payload |-> payload]
<1>1. m \in Message /\ m.m_sender = current_process
  BY MessageType
<1>2. /\ msg_inbox' = [msg_inbox EXCEPT ![dest] = pushMessage(@, m)]
         \/ UNCHANGED msg_inbox
      /\ blocked_msg' = IF dest \in blocked_msg /\ Awaits(dest, current_process)
                        THEN blocked_msg \ {dest} ELSE blocked_msg
  BY DEF SendMessage
<1> HIDE DEF m
<1> SUFFICES ASSUME NEW p \in blocked_msg'
             PROVE  (Matches(msg_inbox[p], reg_a1[p]) = {})'
  BY DEF Asleep
<1>3. p \in blocked_msg /\ p \in Pcb /\ p # current_process /\ reg_a1'[p] = reg_a1[p]
  BY <1>2 DEF QueuesIntact, InLists, TypeInv, TypeOK
<1>4. \A n \in Range(msg_inbox[p]) : reg_a1[p] # NULL /\ n.m_sender # reg_a1[p]
  BY <1>3, NoMatch DEF Asleep
<1>5. CASE msg_inbox'[p] = msg_inbox[p]
  BY <1>3, <1>4, <1>5, NoMatch
<1>6. CASE p = dest /\ msg_inbox'[p] = pushMessage(msg_inbox[p], m)
  <2>1. reg_a1[p] # NULL /\ reg_a1[p] # current_process
    BY <1>2, <1>3, <1>6 DEF Awaits
  <2>2. Range(msg_inbox'[p]) = Range(msg_inbox[p]) \cup {m}
    BY <1>1, <1>3, <1>6, InboxOperations DEF TypeInv, TypeOK
  <2>3. QED
    BY <1>1, <1>3, <1>4, <2>1, <2>2, NoMatch
<1>7. QED
  BY <1>2, <1>3, <1>5, <1>6 DEF TypeInv, TypeOK

\* RECEIVE: the receiver is not blocked while it takes a message, and blocks
\* only when there is none to take.
LEMMA ReceiveSleeps ==
  ASSUME TypeInv, Asleep, QueuesIntact, current_process \in Pcb,
         NEW from \in Pcb \cup {NULL},
         \/ /\ \E i \in DOMAIN msg_inbox[current_process] : ReceiveTake(from, i)
            /\ \A p \in Pcb \ {current_process} : reg_a1'[p] = reg_a1[p]
         \/ ReceiveBlock(from)
  PROVE  Asleep'
<1>1. current_process \notin blocked_msg /\ blocked_msg \subseteq Pcb
  BY DEF QueuesIntact, InLists, TypeInv, TypeOK
<1>2. ASSUME NEW i \in DOMAIN msg_inbox[current_process], ReceiveTake(from, i),
             \A p \in Pcb \ {current_process} : reg_a1'[p] = reg_a1[p]
      PROVE  Asleep'
  <2>1. /\ blocked_msg' = blocked_msg
        /\ \A p \in Pcb \ {current_process} : msg_inbox'[p] = msg_inbox[p]
    BY <1>2 DEF ReceiveTake, queues, TypeInv, TypeOK
  <2>2. QED
    BY <1>1, <1>2, <2>1, NobodyBlocks
<1>3. CASE ReceiveBlock(from)
  <2>1. /\ blocked_msg' = blocked_msg \cup {current_process}
        /\ msg_inbox' = msg_inbox
        /\ reg_a1' = [reg_a1 EXCEPT ![current_process] = from]
        /\ Matches(msg_inbox[current_process], from) = {}
    BY <1>3 DEF ReceiveBlock, messages
  <2>2. reg_a1'[current_process] = from
    BY <2>1 DEF TypeInv, TypeOK
  <2>3. \A p \in blocked_msg : reg_a1'[p] = reg_a1[p]
    BY <1>1, <2>1 DEF TypeInv, TypeOK
  <2>4. ASSUME NEW p \in blocked_msg'
        PROVE  Matches(msg_inbox'[p], reg_a1'[p]) = {}
    BY <2>1, <2>2, <2>3 DEF Asleep
  <2>5. QED
    BY <2>4 DEF Asleep
<1>4. QED
  BY <1>2, <1>3
-----------------------------------------------------------------------------
\* The steps of the SSI.
LEMMA SsiWakes ==
  ASSUME TypeInv, Asleep, QueuesIntact, SsiStep
  PROVE  Asleep'
<1>1. CASE SsiReceive
  <2>1. /\ current_process = ssi_pcb /\ ssi_pcb \in Pcb
        /\ \/ (\E i \in DOMAIN msg_inbox[current_process] : ReceiveTake(NULL, i))
                /\ UNCHANGED reg_a1
           \/ ReceiveBlock(NULL)
    BY <1>1, KernelAssumption DEF SsiReceive
  <2>2. QED
    BY <2>1, ReceiveSleeps
<1>2. CASE createProcess
  <2>1. blocked_msg' = blocked_msg
    BY <1>2 DEF createProcess, allocPcb, queues
  <2>2. CASE UNCHANGED <<msg_inbox, reg_a1>>
    BY <2>1, <2>2, NobodyBlocks
  <2>3. ASSUME NEW new \in pcbFree_h,
               msg_inbox' = [msg_inbox EXCEPT ![new] = <<>>],
               reg_a1' = [reg_a1 EXCEPT ![new] = NORECV]
        PROVE  Asleep'
    <3>1. new \notin blocked_msg /\ blocked_msg \subseteq Pcb
      BY DEF QueuesIntact, InLists, TypeInv, TypeOK
    <3>2. \A p \in blocked_msg : msg_inbox'[p] = msg_inbox[p] /\ reg_a1'[p] = reg_a1[p]
      BY <2>3, <3>1 DEF TypeInv, TypeOK
    <3>3. QED
      BY <2>1, <3>2, NobodyBlocks
  <2>4. QED
    BY <1>2, <2>2, <2>3 DEF createProcess, allocPcb
<1>3. CASE terminateProcess
  <2>1. blocked_msg' \subseteq blocked_msg /\ UNCHANGED <<msg_inbox, reg_a1>>
    BY <1>3 DEF terminateProcess, FreeFamily, queues, messages
  <2>2. QED
    BY <2>1, NobodyBlocks
<1>4. CASE doIO \/ waitForClock \/ getData
  <2>1. blocked_msg' \subseteq blocked_msg /\ UNCHANGED <<msg_inbox, reg_a1>>
    BY <1>4 DEF doIO, waitForClock, getData, queues, messages
  <2>2. QED
    BY <2>1, NobodyBlocks
<1>5. CASE SsiReply
  <2>1. /\ current_process \in Pcb /\ ssi.sender \in Pcb
        /\ SendMessage(ssi.sender, Reply) /\ UNCHANGED reg_a1
    BY <1>5, KernelAssumption DEF SsiReply, TypeInv, Actors
  <2>2. QED
    BY <2>1, SendWakes
<1>6. QED
  BY <1>1, <1>2, <1>3, <1>4, <1>5 DEF SsiStep

\* The steps of the other processes.
LEMMA ClientWakes ==
  ASSUME TypeInv, Asleep, QueuesIntact,
         \/ \E dest \in Pcb \ {ssi_pcb} : ClientSend(dest)
         \/ \E r \in Requests : ClientRequest(r)
         \/ \E from \in Pcb \cup {NULL} : ClientReceive(from)
         \/ PassUp_Or_Die
  PROVE  Asleep'
<1>1. ASSUME NEW dest \in Pcb \ {ssi_pcb}, ClientSend(dest)
      PROVE  Asleep'
  BY <1>1, SendWakes DEF ClientSend, UserCode
<1>2. ASSUME NEW r \in Requests, ClientRequest(r)
      PROVE  Asleep'
  <2>1. /\ current_process \in Pcb /\ ssi_pcb \in Pcb /\ SendMessage(ssi_pcb, r)
        /\ \A p \in Pcb \ {current_process} : reg_a1'[p] = reg_a1[p]
    BY <1>2, KernelAssumption DEF ClientRequest, UserCode, TypeInv, TypeOK
  <2>2. QED
    BY <2>1, SendWakes
<1>3. ASSUME NEW from \in Pcb \cup {NULL}, ClientReceive(from)
      PROVE  Asleep'
  <2>1. /\ current_process \in Pcb
        /\ \/ /\ \E i \in DOMAIN msg_inbox[current_process] : ReceiveTake(from, i)
              /\ reg_a1' = [reg_a1 EXCEPT ![current_process] = NORECV]
           \/ ReceiveBlock(from)
    BY <1>3 DEF ClientReceive
  <2>2. QED
    BY <2>1, ReceiveSleeps DEF TypeInv, TypeOK
<1>4. CASE PassUp_Or_Die
  <2>1. blocked_msg' \subseteq blocked_msg /\ UNCHANGED <<msg_inbox, reg_a1>>
    BY <1>4 DEF PassUp_Or_Die, FreeFamily, messages
  <2>2. QED
    BY <2>1, NobodyBlocks
<1>5. QED
  BY <1>1, <1>2, <1>3, <1>4

\* Interrupts: the only inbox a device writes to is that of the process it
\* readies.
LEMMA InterruptWakes ==
  ASSUME TypeInv, Asleep,
         \/ LocalTimerInterrupt
         \/ IntervalTimerInterrupt
         \/ \E d \in Dev : DeviceInterrupt(d) \/ TwoDevicesPending(d)
         \/ NullStored
  PROVE  Asleep'
<1>1. CASE \/ LocalTimerInterrupt
           \/ IntervalTimerInterrupt
           \/ \E d \in Dev : TwoDevicesPending(d)
           \/ NullStored
  <2>1. UNCHANGED <<blocked_msg, msg_inbox, reg_a1>>
    BY <1>1 DEF LocalTimerInterrupt, IntervalTimerInterrupt, TwoDevicesPending,
                NullStored, queues, messages
  <2>2. QED
    BY <2>1, NobodyBlocks
<1>2. ASSUME NEW d \in Dev, DeviceInterrupt(d)
      PROVE  Asleep'
  <2> DEFINE w == blocked_dev[d]
  <2>1. UNCHANGED reg_a1
    BY <1>2 DEF DeviceInterrupt
  <2>2. /\ blocked_msg' \subseteq blocked_msg
        /\ \A p \in blocked_msg' : msg_inbox'[p] = msg_inbox[p]
    <3>1. CASE w = NULL
      BY <1>2, <3>1 DEF DeviceInterrupt, messages
    <3>2. CASE w # NULL
      BY <1>2, <3>2 DEF DeviceInterrupt, TypeInv, TypeOK
    <3>3. QED
      BY <3>1, <3>2
  <2>3. QED
    BY <2>1, <2>2, NobodyBlocks
<1>3. QED
  BY <1>1, <1>2
-----------------------------------------------------------------------------
\* NoLostWakeup is inductive once the types are known: a state that can be
\* followed comes from one that can, as the model ends at the others.
LEMMA NextWakes == TypeInv /\ NoLostWakeup /\ [Next]_vars => NoLostWakeup'
<1> SUFFICES ASSUME TypeInv, NoLostWakeup, [Next]_vars, Intact'
             PROVE  Asleep'
  BY DEF NoLostWakeup, Asleep
<1>1. CASE UNCHANGED vars
  <2>1. UNCHANGED <<queues, current_process, p_parent, msg_inbox, reg_a1>>
    BY <1>1 DEF vars, tree, messages
  <2>2. Intact
    BY <2>1 DEF Intact, QueuesIntact, TreeIntact, InLists, Live, queues
  <2>3. QED
    BY <2>1, <2>2 DEF NoLostWakeup, Asleep, queues
<1>2. CASE ~UNCHANGED vars
  <2>1. Running
    BY <1>2 DEF Next, Slice, Tick, Device, Stopped
  <2>2. QueuesIntact /\ Asleep
    BY <2>1 DEF Running, Intact, NoLostWakeup, Asleep
  <2>3. QED
    BY <1>2, <2>2, NextCases, SsiWakes, ClientWakes, InterruptWakes
<1>3. QED
  BY <1>1, <1>2

\* No process sleeps in RECEIVE on an inbox that holds a message it waits
\* for, whatever SEND, answer of the SSI, device response, clock tick,
\* creation or termination came between.
THEOREM WakeupSafe == Spec => []NoLostWakeup
<1>1. Init => NoLostWakeup
  BY DEF Init, NoLostWakeup
<1>2. QED
  BY <1>1, Types, NextWakes, PTL DEF Spec
-----------------------------------------------------------------------------
\* A SEND reaches only those who are in a list or run.
LEMMA SendToTheLiving ==
  ASSUME TypeInv, QueuesIntact, NEW dest, NEW payload, SendMessage(dest, payload),
         NEW p \in pcbFree_h
  PROVE  msg_inbox'[p] = msg_inbox[p]
<1>1. Exists(dest) => dest # p
  BY DEF Exists, QueuesIntact, InLists
<1>2. QED
  BY <1>1 DEF SendMessage, TypeInv, TypeOK

\* A RECEIVE changes the inbox of the process that runs.
LEMMA ReceiveOfTheLiving ==
  ASSUME TypeInv, QueuesIntact, NEW from,
         \/ \E i \in DOMAIN msg_inbox[current_process] : ReceiveTake(from, i)
         \/ ReceiveBlock(from),
         NEW p \in pcbFree_h
  PROVE  msg_inbox'[p] = msg_inbox[p]
BY DEF ReceiveTake, ReceiveBlock, messages, QueuesIntact, TypeInv, TypeOK

\* So no step writes to the inbox of a PCB that is free before and after it, but
\* the interrupt of a device whose slot names that PCB.
LEMMA InboxOfTheDead ==
  ASSUME TypeInv, QueuesIntact, [Next]_vars, NEW p \in pcbFree_h, p \in pcbFree_h'
  PROVE  \/ msg_inbox'[p] = msg_inbox[p]
         \/ \E d \in Dev : blocked_dev[d] = p /\ blocked_dev'[d] = NULL
<1>1. CASE SsiStep
  <2>1. CASE SsiReceive
    <3>1. \/ \E i \in DOMAIN msg_inbox[current_process] : ReceiveTake(NULL, i)
          \/ ReceiveBlock(NULL)
      BY <2>1 DEF SsiReceive
    <3>2. QED
      BY <3>1, ReceiveOfTheLiving
  <2>2. CASE createProcess
    BY <2>2 DEF createProcess, allocPcb, TypeInv, TypeOK
  <2>3. CASE terminateProcess \/ doIO \/ waitForClock \/ getData
    BY <2>3 DEF terminateProcess, doIO, waitForClock, getData, messages
  <2>4. CASE SsiReply
    BY <2>4, SendToTheLiving DEF SsiReply
  <2>5. QED
    BY <1>1, <2>1, <2>2, <2>3, <2>4 DEF SsiStep
<1>2. CASE \/ \E dest \in Pcb \ {ssi_pcb} : ClientSend(dest)
           \/ \E r \in Requests : ClientRequest(r)
  BY <1>2, SendToTheLiving DEF ClientSend, ClientRequest
<1>3. ASSUME NEW from \in Pcb \cup {NULL}, ClientReceive(from)
      PROVE  msg_inbox'[p] = msg_inbox[p]
  <2>1. \/ \E i \in DOMAIN msg_inbox[current_process] : ReceiveTake(from, i)
        \/ ReceiveBlock(from)
    BY <1>3 DEF ClientReceive
  <2>2. QED
    BY <2>1, ReceiveOfTheLiving
<1>4. CASE \/ PassUp_Or_Die
           \/ LocalTimerInterrupt
           \/ IntervalTimerInterrupt
           \/ \E d \in Dev : TwoDevicesPending(d)
           \/ NullStored
           \/ UNCHANGED vars
  BY <1>4 DEF PassUp_Or_Die, LocalTimerInterrupt, IntervalTimerInterrupt,
     TwoDevicesPending, NullStored, vars, messages
<1>5. ASSUME NEW d \in Dev, DeviceInterrupt(d)
      PROVE  \/ msg_inbox'[p] = msg_inbox[p]
             \/ blocked_dev[d] = p /\ blocked_dev'[d] = NULL
  <2>1. CASE blocked_dev[d] = p
    BY <1>5, <2>1 DEF DeviceInterrupt, TypeInv, TypeOK
  <2>2. CASE blocked_dev[d] # p
    BY <1>5, <2>2 DEF DeviceInterrupt, messages, TypeInv, TypeOK
  <2>3. QED
    BY <2>1, <2>2
<1>6. QED
  BY <1>1, <1>2, <1>3, <1>4, <1>5, NextCases

\* syscall.c:35-55: no SEND and no answer of SSIServer reaches the inbox
\* of a free PCB; only a device does whose slot names it (interrupts.c:103-108).
THEOREM DeadIsLeftAlone == Spec => DeadReceiveOnlyFromDevices
<1>1. TypeInv /\ [Next]_vars =>
        [\A p \in pcbFree_h \cap pcbFree_h' : msg_inbox'[p] # msg_inbox[p] =>
           \E d \in Dev : blocked_dev[d] = p /\ blocked_dev'[d] = NULL]_vars
  <2> SUFFICES ASSUME TypeInv, [Next]_vars, ~UNCHANGED vars,
                      NEW p \in pcbFree_h \cap pcbFree_h', msg_inbox'[p] # msg_inbox[p]
               PROVE  \E d \in Dev : blocked_dev[d] = p /\ blocked_dev'[d] = NULL
    OBVIOUS
  <2>1. QueuesIntact
    BY DEF Next, Slice, Tick, Device, Running, Stopped, Intact
  <2>2. QED
    BY <2>1, InboxOfTheDead
<1>2. QED
  BY <1>1, Types, PTL DEF Spec, DeadReceiveOnlyFromDevices

-----------------------------------------------------------------------------
\* The devices somebody waits for.
Occupied == {d \in Dev : blocked_dev[d] # NULL}

\* The counters and the tree tell the truth; soft_blocked_count may only err
\* by counting too many.  The SSI never waits for the clock.
Accounts ==
  /\ \A p \in pcbFree_h : p_parent[p] = NULL
  /\ process_count = Cardinality(Live)
  /\ Live \ {ssi_pcb} \subseteq Descendants(test_pcb)
  /\ soft_blocked_count >= Waiting
  /\ ssi_pcb \notin Range(blocked_pseudo_clock)

AInv == IInv /\ (Intact => Accounts)

\* What the accounts are about.
books == <<pcbFree_h, p_parent, process_count, soft_blocked_count,
           blocked_pseudo_clock, blocked_dev>>

\* The drift of soft_blocked_count is the same, or one DOIO more.
Drift == soft_blocked_count - Waiting

DriftKept ==
  \/ Drift' = Drift
  \/ Drift' = Drift + 1 /\ Serving({"DOIO"}) /\ blocked_dev[ssi.request.dev] # NULL
-----------------------------------------------------------------------------
\* A queue in which nobody stands twice is as long as it has members.
LEMMA InjectiveLength ==
  ASSUME NEW q \in Seq(Pcb), IsInjective(q)
  PROVE  /\ IsFiniteSet(Range(q)) /\ Len(q) = Cardinality(Range(q))
         /\ Len(q) \in Nat /\ Range(q) \subseteq Pcb
<1>1. Len(q) \in Nat /\ DOMAIN q = 1..Len(q) /\ q \in [1..Len(q) -> Pcb]
  BY LenProperties
<1>2. q \in [1..Len(q) -> Range(q)] /\ Range(q) \subseteq Pcb
  BY <1>1 DEF Range
<1>3. q \in Bijection(1..Len(q), Range(q))
  BY <1>1, <1>2 DEF Bijection, Injection, Surjection, Range
<1>4. ExistsBijection(1..Len(q), Range(q))
  BY <1>3 DEF ExistsBijection
<1>5. Cardinality(Range(q)) = Len(q)
  BY <1>1, <1>4, FS_CountingElements
<1>6. IsFiniteSet(Range(q))
  BY <1>1, <1>4, FS_NatBijection
<1>7. QED
  BY <1>1, <1>2, <1>5, <1>6

\* How many wait, as numbers.
LEMMA WaitingType ==
  ASSUME TypeInv
  PROVE  /\ IsFiniteSet(Dev) /\ IsFiniteSet(Occupied) /\ Occupied \subseteq Dev
         /\ Cardinality(Occupied) \in Nat /\ Len(blocked_pseudo_clock) \in Nat
         /\ Waiting = Len(blocked_pseudo_clock) + Cardinality(Occupied)
         /\ Waiting \in Nat /\ soft_blocked_count \in Int /\ process_count \in Int
<1>1. IsFiniteSet(Dev)
  BY KernelAssumption, FS_Interval DEF Dev
<1>2. IsFiniteSet(Occupied) /\ Occupied \subseteq Dev /\ Cardinality(Occupied) \in Nat
  BY <1>1, FS_Subset, FS_CardinalityType DEF Occupied
<1>3. Waiting = Len(blocked_pseudo_clock) + Cardinality(Occupied)
  BY DEF Waiting, Occupied
<1>4. Len(blocked_pseudo_clock) \in Nat
  BY LenProperties DEF TypeInv, TypeOK
<1>5. QED
  BY <1>1, <1>2, <1>3, <1>4 DEF TypeInv, TypeOK

\* What is left as it was stays true.
LEMMA BooksClosed ==
  ASSUME Accounts, TypeInv, UNCHANGED books
  PROVE  Accounts' /\ Drift' = Drift
<1>1. /\ UNCHANGED <<pcbFree_h, p_parent, process_count, soft_blocked_count>>
      /\ UNCHANGED <<blocked_pseudo_clock, blocked_dev>>
  BY DEF books
<1>2. Live' = Live /\ Waiting' = Waiting /\ Descendants(test_pcb)' = Descendants(test_pcb)
  BY <1>1 DEF Live, Waiting, Descendants
<1>3. QED
  BY <1>1, <1>2 DEF Accounts, Drift

\* Accounts from its parts after a step that leaves the processes alone.
LEMMA WaitsOnly ==
  ASSUME Accounts, TypeInv, TypeInv', UNCHANGED <<pcbFree_h, p_parent, process_count>>,
         Drift' = Drift \/ Drift' = Drift + 1,
         ssi_pcb \notin Range(blocked_pseudo_clock')
  PROVE  Accounts'
<1>1. Live' = Live /\ Descendants(test_pcb)' = Descendants(test_pcb)
  BY DEF Live, Descendants
<1>2. TypeInv' => Waiting' \in Nat /\ soft_blocked_count' \in Int
  <2>1. (TypeInv => Waiting \in Nat /\ soft_blocked_count \in Int)'
    BY WaitingType, PTL
  <2>2. QED
    BY <2>1
<1>3. Waiting \in Nat /\ soft_blocked_count \in Int
  BY WaitingType
<1>4. soft_blocked_count' >= Waiting'
  BY <1>2, <1>3 DEF Accounts, Drift
<1>5. QED
  BY <1>1, <1>4 DEF Accounts
-----------------------------------------------------------------------------
\* The family of a process consists of processes.
LEMMA FamilyLives ==
  ASSUME TreeIntact, \A q \in pcbFree_h : p_parent[q] = NULL, NULL \notin Pcb,
         NEW p \in Live
  PROVE  Descendants(p) \subseteq Live
<1>1. p \in Pcb /\ Live \in SUBSET Pcb
  BY DEF Live
<1>2. ASSUME NEW c \in Pcb, p_parent[c] \in Live
      PROVE  c \in Live
  BY <1>2 DEF Live
<1>3. QED
  BY <1>1, <1>2 DEF Descendants

\* createProcess counts the process it makes, under a process of test's family.
LEMMA CreateAccounts ==
  ASSUME Before, Accounts, createProcess, TreeIntact'
  PROVE  Accounts' /\ Drift' = Drift
<1> USE DEF Before
<1>1. UNCHANGED <<soft_blocked_count, blocked_dev>>
  BY DEF createProcess, devices
<1>2. CASE pcbFree_h = {} /\ UNCHANGED <<queues, tree, msg_inbox, reg_a1, process_count>>
  BY <1>1, <1>2, BooksClosed DEF queues, tree, books
<1>3. ASSUME NEW c \in pcbFree_h,
             pcbFree_h' = pcbFree_h \ {c},
             p_parent' = insertChild(ssi.sender, c),
             process_count' = process_count + 1,
             UNCHANGED blocked_pseudo_clock
      PROVE  Accounts' /\ Drift' = Drift
  <2> DEFINE s == ssi.sender
  <2>1. /\ c \in Pcb /\ c # ssi_pcb /\ s \in Pcb /\ s # ssi_pcb /\ p_parent[c] = NULL
        /\ NULL \notin Pcb /\ test_pcb \in Pcb
    BY <1>3, KernelAssumption
    DEF TypeInv, TypeOK, SsiApart, Actors, createProcess, Serving, Accounts
  <2>2. p_parent' = [p_parent EXCEPT ![c] = s]
    BY <1>3 DEF insertChild
  <2>3. s \in Live /\ s # c
    <3>1. p_parent'[c] = s
      BY <2>1, <2>2 DEF TypeInv, TypeOK
    <3>2. s \in Live' /\ s # c
      BY <2>1, <3>1 DEF TreeIntact
    <3>3. QED
      BY <1>3, <3>2 DEF Live
  <2>4. Live' = Live \cup {c} /\ c \notin Live
    BY <1>3, <2>1 DEF Live
  <2>5. process_count' = Cardinality(Live')
    <3>1. IsFiniteSet(Live)
      BY KernelAssumption, FS_Subset DEF Live
    <3>2. QED
      BY <1>3, <2>4, <3>1, FS_AddElement DEF Accounts
  <2>6. \A p \in pcbFree_h' : p_parent'[p] = NULL
    BY <1>3, <2>2 DEF Accounts, TypeInv, TypeOK
  <2>7. Live' \ {ssi_pcb} \subseteq Descendants(test_pcb)'
    <3> SUFFICES ASSUME NEW p \in Live' \ {ssi_pcb}, NEW S \in SUBSET Pcb, test_pcb \in S,
                        \A d \in Pcb : p_parent'[d] \in S => d \in S
                 PROVE  p \in S
      BY DEF Descendants, Live
    <3>1. \A d \in Pcb : p_parent[d] \in S => d \in S
      BY <2>1, <2>2 DEF TypeInv, TypeOK
    <3>2. Descendants(test_pcb) \subseteq S
      BY <3>1 DEF Descendants
    <3>3. s \in S
      BY <2>1, <2>3, <3>2 DEF Accounts
    <3>4. c \in S
      BY <2>1, <2>2, <3>3 DEF TypeInv, TypeOK
    <3>5. QED
      BY <2>4, <3>2, <3>4 DEF Accounts
  <2>8. Waiting' = Waiting
    BY <1>1, <1>3 DEF Waiting
  <2>9. QED
    BY <1>1, <1>3, <2>5, <2>6, <2>7, <2>8 DEF Accounts, Drift
<1>4. QED
  BY <1>2, <1>3 DEF createProcess, allocPcb

\* The end of a family: its members are counted out, those that waited too,
\* and nobody is left who does not descend from test.
LEMMA FamilyAccounts ==
  ASSUME Before, TypeInv', Accounts, NEW p \in Live \ {ssi_pcb}, FreeFamily(Descendants(p))
  PROVE  Accounts' /\ Drift' = Drift
<1> USE DEF Before
<1> DEFINE D == Descendants(p)
<1>1. /\ D \subseteq Live /\ D \subseteq Pcb
      /\ NULL \notin Pcb /\ NULL \notin D /\ test_pcb \in Pcb /\ ssi_pcb \in Pcb
      /\ \A c \in Pcb : p_parent[c] \in D => c \in D
  <2>1. NULL \notin Pcb /\ test_pcb \in Pcb /\ ssi_pcb \in Pcb /\ p \in Pcb
    BY KernelAssumption DEF Live
  <2>2. D \subseteq Live /\ D \subseteq Pcb
    BY <2>1, FamilyLives, Families DEF Accounts
  <2>3. QED
    BY <2>1, <2>2, Families
<1>2. /\ pcbFree_h' = pcbFree_h \cup D
      /\ blocked_pseudo_clock' \in Without(blocked_pseudo_clock, D)
      /\ p_parent' = [q \in Pcb |-> IF q \in D THEN NULL ELSE p_parent[q]]
      /\ blocked_dev' = [d \in Dev |-> IF d \in Cleared(D) THEN NULL ELSE blocked_dev[d]]
      /\ process_count' = process_count - Cardinality(D)
      /\ soft_blocked_count' = soft_blocked_count - Cardinality(Cleared(D))
                                 - Cardinality(D \cap Range(blocked_pseudo_clock))
  BY DEF FreeFamily, CountWithout, SoftWithout
<1> HIDE DEF D
<1>3. \A q \in pcbFree_h' : p_parent'[q] = NULL
  BY <1>1, <1>2 DEF Accounts, TypeInv, TypeOK
<1>4. Live' = Live \ D
  BY <1>2 DEF Live
<1>5. process_count' = Cardinality(Live')
  <2>1. IsFiniteSet(Live) /\ Live \cap D = D
    BY <1>1, KernelAssumption, FS_Subset DEF Live
  <2>2. QED
    BY <1>2, <1>4, <2>1, FS_Difference DEF Accounts
<1>6. Live' \ {ssi_pcb} \subseteq Descendants(test_pcb)'
  <2> SUFFICES ASSUME NEW q \in Live' \ {ssi_pcb}, NEW S \in SUBSET Pcb, test_pcb \in S,
                      \A c \in Pcb : p_parent'[c] \in S => c \in S
               PROVE  q \in S
    BY DEF Descendants, Live
  <2>1. S \cup D \in SUBSET Pcb /\ test_pcb \in S \cup D
    BY <1>1
  <2>2. \A c \in Pcb : p_parent[c] \in S \cup D => c \in S \cup D
    BY <1>1, <1>2
  <2>3. Descendants(test_pcb) \subseteq S \cup D
    BY <2>1, <2>2 DEF Descendants
  <2>4. q \in Descendants(test_pcb) /\ q \notin D
    BY <1>4 DEF Accounts
  <2>5. QED
    BY <2>3, <2>4
<1>7. /\ Range(blocked_pseudo_clock') = Range(blocked_pseudo_clock) \ D
      /\ IsInjective(blocked_pseudo_clock')
      /\ blocked_pseudo_clock \in Seq(Pcb) /\ blocked_pseudo_clock' \in Seq(Pcb)
      /\ IsInjective(blocked_pseudo_clock)
  BY <1>2, OutProcQ, KernelAssumption DEF TypeInv, TypeOK, Separate
<1>8. Len(blocked_pseudo_clock') =
        Len(blocked_pseudo_clock) - Cardinality(D \cap Range(blocked_pseudo_clock))
  <2> DEFINE R == Range(blocked_pseudo_clock)
  <2>1. IsFiniteSet(R) /\ Len(blocked_pseudo_clock) = Cardinality(R)
    BY <1>7, InjectiveLength
  <2>2. Len(blocked_pseudo_clock') = Cardinality(R \ D)
    BY <1>7, InjectiveLength
  <2>3. R \cap D = D \cap R
    OBVIOUS
  <2> HIDE DEF R
  <2>4. Cardinality(R \ D) = Cardinality(R) - Cardinality(D \cap R)
    BY <2>1, <2>3, FS_Difference
  <2>5. QED
    BY <2>1, <2>2, <2>4 DEF R
<1>9. Cardinality(Occupied') = Cardinality(Occupied) - Cardinality(Cleared(D))
  <2>1. Cleared(D) \subseteq Occupied /\ Occupied \cap Cleared(D) = Cleared(D)
    BY <1>1 DEF Cleared, Occupied
  <2>2. Occupied' = Occupied \ Cleared(D)
    BY <1>2 DEF Occupied
  <2>3. IsFiniteSet(Occupied)
    BY WaitingType
  <2>4. Cardinality(Occupied \ Cleared(D)) = Cardinality(Occupied) - Cardinality(Occupied \cap Cleared(D))
    BY <2>3, FS_Difference
  <2>5. Cardinality(Occupied') = Cardinality(Occupied \ Cleared(D))
    BY <2>2
  <2>6. QED
    BY <2>1, <2>4, <2>5
<1>10. Drift' = Drift
  <2>1. Waiting = Len(blocked_pseudo_clock) + Cardinality(Occupied)
        /\ Cardinality(Occupied) \in Nat /\ Len(blocked_pseudo_clock) \in Nat
        /\ soft_blocked_count \in Int
    BY WaitingType
  <2>2. (TypeInv => Waiting = Len(blocked_pseudo_clock) + Cardinality(Occupied))'
    BY WaitingType, PTL
  <2>3. Cardinality(Cleared(D)) \in Nat /\ Cardinality(D \cap Range(blocked_pseudo_clock)) \in Nat
    <3>1. IsFiniteSet(Cleared(D))
      BY WaitingType, FS_Subset DEF Cleared
    <3>2. IsFiniteSet(D \cap Range(blocked_pseudo_clock))
      BY <1>1, KernelAssumption, FS_Subset
    <3>3. QED
      BY <3>1, <3>2, FS_CardinalityType
  <2>4. QED
    BY <1>2, <1>8, <1>9, <2>1, <2>2, <2>3 DEF Drift
<1>11. soft_blocked_count' >= Waiting'
  <2>1. (TypeInv => Waiting \in Nat /\ soft_blocked_count \in Int)'
    BY WaitingType, PTL
  <2>2. Waiting \in Nat /\ soft_blocked_count \in Int
    BY WaitingType
  <2>3. QED
    BY <1>10, <2>1, <2>2 DEF Accounts, Drift
<1>12. QED
  BY <1>3, <1>5, <1>6, <1>7, <1>10, <1>11 DEF Accounts
-----------------------------------------------------------------------------
\* The waits begin: doIO and waitForClock.
LEMMA WaitBegins ==
  ASSUME Before, TypeInv', Accounts, doIO \/ waitForClock
  PROVE  Accounts' /\ DriftKept
<1> USE DEF Before
<1>0. /\ ssi.sender \in Pcb /\ ssi.sender # ssi_pcb /\ ssi.sender # NULL
      /\ UNCHANGED <<pcbFree_h, p_parent, process_count>>
      /\ soft_blocked_count' = soft_blocked_count + 1
  BY KernelAssumption DEF doIO, waitForClock, Serving, SsiApart, TypeInv, Actors, queues, tree
<1>1. /\ Waiting = Len(blocked_pseudo_clock) + Cardinality(Occupied)
      /\ Cardinality(Occupied) \in Nat /\ Len(blocked_pseudo_clock) \in Nat
      /\ IsFiniteSet(Occupied) /\ soft_blocked_count \in Int
  BY WaitingType
<1>2. (TypeInv => Waiting = Len(blocked_pseudo_clock) + Cardinality(Occupied))'
  BY WaitingType, PTL
<1>3. CASE doIO
  <2> DEFINE d == ssi.request.dev
  <2>1. /\ blocked_dev' = [blocked_dev EXCEPT ![d] = ssi.sender]
        /\ UNCHANGED blocked_pseudo_clock
        /\ Serving({"DOIO"})
    BY <1>3 DEF doIO, queues
  <2>2. d \in Dev
    BY <2>1, KernelAssumption DEF Serving, TypeInv, TypeOK, SsiState, Data, Reply, Request
  <2> HIDE DEF d
  <2>3. Occupied' = Occupied \cup {d}
    BY <1>0, <2>1, <2>2 DEF Occupied, TypeInv, TypeOK
  <2>4. Cardinality(Occupied') =
          IF d \in Occupied THEN Cardinality(Occupied) ELSE Cardinality(Occupied) + 1
    BY <1>1, <2>3, FS_AddElement
  <2>5. CASE d \in Occupied
    <3>1. Drift' = Drift + 1
      BY <1>0, <1>1, <1>2, <2>1, <2>4, <2>5 DEF Drift
    <3>2. DriftKept
      BY <2>1, <2>5, <3>1 DEF DriftKept, Occupied, d
    <3>3. QED
      BY <1>0, <2>1, <3>1, <3>2, WaitsOnly DEF Accounts
  <2>6. CASE d \notin Occupied
    <3>1. Drift' = Drift
      BY <1>0, <1>1, <1>2, <2>1, <2>4, <2>6 DEF Drift
    <3>2. QED
      BY <1>0, <2>1, <3>1, WaitsOnly DEF Accounts, DriftKept
  <2>7. QED
    BY <2>5, <2>6
<1>4. CASE waitForClock
  <2>1. /\ blocked_pseudo_clock' = insertProcQ(blocked_pseudo_clock, ssi.sender)
        /\ UNCHANGED blocked_dev /\ blocked_pseudo_clock \in Seq(Pcb)
    BY <1>4 DEF waitForClock, devices, TypeInv, TypeOK
  <2>2. Range(blocked_pseudo_clock') = Range(blocked_pseudo_clock) \cup {ssi.sender}
    BY <1>0, <2>1, InsertProcQ
  <2>3. Len(blocked_pseudo_clock') = Len(blocked_pseudo_clock) + 1
    BY <1>0, <2>1, AppendProperties DEF insertProcQ
  <2>4. Cardinality(Occupied') = Cardinality(Occupied)
    BY <2>1 DEF Occupied
  <2>5. Drift' = Drift
    BY <1>0, <1>1, <1>2, <2>3, <2>4 DEF Drift
  <2>6. QED
    BY <1>0, <2>2, <2>5, WaitsOnly DEF Accounts, DriftKept
<1>5. QED
  BY <1>3, <1>4

\* The waits end: the tick of the clock and the interrupt of a device.
LEMMA WaitEnds ==
  ASSUME Before, TypeInv', Accounts,
         IntervalTimerInterrupt \/ \E d \in Dev : DeviceInterrupt(d)
  PROVE  Accounts' /\ Drift' = Drift
<1> USE DEF Before
<1>1. /\ Waiting = Len(blocked_pseudo_clock) + Cardinality(Occupied)
      /\ Cardinality(Occupied) \in Nat /\ Len(blocked_pseudo_clock) \in Nat
      /\ IsFiniteSet(Occupied) /\ soft_blocked_count \in Int
  BY WaitingType
<1>2. (TypeInv => Waiting = Len(blocked_pseudo_clock) + Cardinality(Occupied))'
  BY WaitingType, PTL
<1>3. CASE IntervalTimerInterrupt
  <2>1. /\ blocked_pseudo_clock' = <<>>
        /\ soft_blocked_count' = soft_blocked_count - Len(blocked_pseudo_clock)
        /\ UNCHANGED <<pcbFree_h, p_parent, process_count, blocked_dev>>
    BY <1>3 DEF IntervalTimerInterrupt, tree, devices
  <2>2. Len(blocked_pseudo_clock') = 0 /\ Range(blocked_pseudo_clock') = {}
    BY <2>1 DEF Range
  <2>3. Cardinality(Occupied') = Cardinality(Occupied)
    BY <2>1 DEF Occupied
  <2>4. Drift' = Drift
    BY <1>1, <1>2, <2>1, <2>2, <2>3 DEF Drift
  <2>5. QED
    BY <2>1, <2>2, <2>4, WaitsOnly
<1>4. ASSUME NEW d \in Dev, DeviceInterrupt(d)
      PROVE  Accounts' /\ Drift' = Drift
  <2>1. /\ blocked_dev' = [blocked_dev EXCEPT ![d] = NULL]
        /\ UNCHANGED <<pcbFree_h, p_parent, process_count, blocked_pseudo_clock>>
        /\ soft_blocked_count' = IF blocked_dev[d] # NULL THEN soft_blocked_count - 1
                                 ELSE soft_blocked_count
    BY <1>4 DEF DeviceInterrupt, tree
  <2>2. Occupied' = Occupied \ {d}
    BY <2>1 DEF Occupied, TypeInv, TypeOK
  <2>3. Cardinality(Occupied') =
          IF d \in Occupied THEN Cardinality(Occupied) - 1 ELSE Cardinality(Occupied)
    BY <1>1, <2>2, FS_RemoveElement
  <2>4. Drift' = Drift
    BY <1>1, <1>2, <2>1, <2>3 DEF Drift, Occupied
  <2>5. QED
    BY <2>1, <2>4, WaitsOnly DEF Accounts
<1>5. QED
  BY <1>3, <1>4
-----------------------------------------------------------------------------
\* Every step keeps the accounts, and the drift but for one case.
LEMMA StepAccounts ==
  ASSUME Before, TypeInv', Accounts, [Next]_vars, TreeIntact'
  PROVE  Accounts' /\ DriftKept
<1> USE DEF Before
<1>1. CASE SsiStep
  <2>1. CASE SsiReceive \/ getData \/ SsiReply
    <3>1. UNCHANGED books
      BY <2>1 DEF SsiReceive, getData, SsiReply, ReceiveTake, ReceiveBlock, SendMessage,
                  books, queues, tree, devices, counters
    <3>2. QED
      BY <3>1, BooksClosed DEF DriftKept
  <2>2. CASE createProcess
    BY <2>2, CreateAccounts DEF DriftKept
  <2>3. CASE terminateProcess
    <3>1. CASE Target \in pcbFree_h
      <4>1. UNCHANGED books
        BY <2>3, <3>1 DEF terminateProcess, books, queues, counters
      <4>2. QED
        BY <4>1, BooksClosed DEF DriftKept
    <3>2. CASE Target \notin pcbFree_h
      <4>1. Target \in Live \ {ssi_pcb} /\ FreeFamily(Descendants(Target))
        BY <2>3, <3>2, TargetApart DEF terminateProcess, Live
      <4>2. QED
        BY <4>1, FamilyAccounts DEF DriftKept
    <3>3. QED
      BY <3>1, <3>2
  <2>4. CASE doIO \/ waitForClock
    BY <2>4, WaitBegins
  <2>5. QED
    BY <1>1, <2>1, <2>2, <2>3, <2>4 DEF SsiStep
<1>2. CASE \/ \E dest \in Pcb \ {ssi_pcb} : ClientSend(dest)
           \/ \E r \in Requests : ClientRequest(r)
           \/ \E from \in Pcb \cup {NULL} : ClientReceive(from)
           \/ LocalTimerInterrupt
           \/ \E d \in Dev : TwoDevicesPending(d)
           \/ NullStored
           \/ UNCHANGED vars
  <2>1. UNCHANGED books
    BY <1>2 DEF ClientSend, ClientRequest, ClientReceive, ReceiveTake, ReceiveBlock,
       SendMessage, LocalTimerInterrupt, TwoDevicesPending, NullStored, vars,
       books, queues, tree, devices, counters
  <2>2. QED
    BY <2>1, BooksClosed DEF DriftKept
<1>3. CASE PassUp_Or_Die
  <2>1. current_process \in Live \ {ssi_pcb} /\ FreeFamily(Descendants(current_process))
    BY <1>3, KernelAssumption
    DEF PassUp_Or_Die, UserCode, Live, Separate, Disjoint, Runnable
  <2>2. QED
    BY <2>1, FamilyAccounts DEF DriftKept
<1>4. CASE IntervalTimerInterrupt \/ \E d \in Dev : DeviceInterrupt(d)
  BY <1>4, WaitEnds DEF DriftKept
<1>5. QED
  BY <1>1, <1>2, <1>3, <1>4, NextCases
-----------------------------------------------------------------------------
\* What stops the processor: the scheduler with nothing to dispatch, getDevNum,
\* or an access through NULL.
Idles ==
  /\ current_process = NULL /\ ready_queue = <<>>
  /\ cpu = Verdict(process_count, soft_blocked_count)

TwoPending == \E d, e \in dev_busy : d # e /\ Line[d] = Line[e]

\* With true accounts the scheduler draws the right conclusions.
LEMMA VerdictRight ==
  ASSUME TypeInv, SsiApart, Somewhere, Intact, Accounts, Idles
  PROVE  SchedulerVerdict
<1>1. /\ Pcb = Range(blocked_pseudo_clock) \cup blocked_msg \cup pcbFree_h
      /\ pcbFree_h \cap (Range(blocked_pseudo_clock) \cup blocked_msg) = {}
  BY DEF Idles, Somewhere, Runnable, Intact, QueuesIntact, InLists, Range
<1>2. Live = Range(blocked_pseudo_clock) \cup blocked_msg
  BY <1>1 DEF Live
<1>3. ssi_pcb \in Live /\ ssi_pcb \in blocked_msg
  BY <1>1, <1>2, KernelAssumption DEF SsiApart, Accounts
<1>4. IsFiniteSet(Live) /\ Cardinality(Live) \in Nat
  BY KernelAssumption, FS_Subset, FS_CardinalityType DEF Live
<1>5. Cardinality(Live) # 0
  BY <1>3, <1>4, FS_EmptySet
<1>6. Waiting \in Nat /\ soft_blocked_count \in Int /\ soft_blocked_count >= Waiting
      /\ Waiting = Len(blocked_pseudo_clock) + Cardinality(Occupied)
      /\ Cardinality(Occupied) \in Nat /\ Len(blocked_pseudo_clock) \in Nat
  BY WaitingType DEF Accounts
<1>7. process_count = Cardinality(Live) /\ process_count > 0
  BY <1>4, <1>5 DEF Accounts
<1>8. cpu = "halt" => Live = {ssi_pcb}
  <2>1. cpu = "halt" => process_count = 1
    BY DEF Idles, Verdict
  <2>2. Cardinality(Live) = 1 => \E x : Live = {x}
    BY <1>4, FS_Singleton
  <2>3. QED
    BY <1>3, <1>7, <2>1, <2>2
<1>9. cpu = "panic" => Live = blocked_msg /\ blocked_dev = [d \in Dev |-> NULL]
  <2> SUFFICES ASSUME cpu = "panic"
               PROVE  Live = blocked_msg /\ blocked_dev = [d \in Dev |-> NULL]
    OBVIOUS
  <2>1. soft_blocked_count = 0
    BY <1>6, <1>7 DEF Idles, Verdict
  <2>2. Len(blocked_pseudo_clock) = 0 /\ Cardinality(Occupied) = 0
    BY <1>6, <2>1
  <2>3. blocked_pseudo_clock = <<>> /\ Occupied = {}
    BY <2>2, WaitingType, FS_EmptySet, EmptySeq DEF TypeInv, TypeOK
  <2>4. Live = blocked_msg
    BY <1>2, <2>3 DEF Range
  <2>5. QED
    BY <2>3, <2>4 DEF Occupied, TypeInv, TypeOK
<1>10. cpu # "lost"
  <2>1. /\ cpu = Verdict(process_count, soft_blocked_count)
        /\ \/ process_count = 1
           \/ process_count > 1 /\ soft_blocked_count > 0
           \/ process_count > 1 /\ soft_blocked_count = 0
    BY <1>4, <1>6, <1>7 DEF Idles
  <2>2. QED
    BY <1>4, <1>6, <1>7, <2>1 DEF Verdict
<1>11. QED
  BY <1>3, <1>8, <1>9, <1>10 DEF SchedulerVerdict

\* The ways a step leaves the processor.
LEMMA StepCpu ==
  ASSUME TypeInv, [Next]_vars
  PROVE  \/ cpu' \in {"run", "wait", "null"} \/ (cpu' = "panic" /\ TwoPending')
         \/ Idles' \/ UNCHANGED vars
<1>1. ASSUME NEW cur, NEW rq, Resume(cur, rq, process_count', soft_blocked_count')
      PROVE  cpu' = "run" \/ Idles'
  BY <1>1 DEF Resume, scheduler, Idles
<1>2. ASSUME Running, SsiStep
      PROVE  cpu' \in {"run", "wait", "null"} \/ Idles'
  <2>1. CASE SsiReceive
    BY <1>1, <1>2, <2>1 DEF SsiReceive, ReceiveTake, ReceiveBlock, counters, Running
  <2>2. CASE ~SsiReceive
    BY <1>2, <2>2
    DEF SsiStep, createProcess, terminateProcess, doIO, waitForClock, getData, SsiReply,
        SendMessage, Running
  <2>3. QED
    BY <2>1, <2>2
<1>3. ASSUME Running,
             \/ \E dest \in Pcb \ {ssi_pcb} : ClientSend(dest)
             \/ \E r \in Requests : ClientRequest(r)
             \/ \E from \in Pcb \cup {NULL} : ClientReceive(from)
             \/ PassUp_Or_Die
      PROVE  cpu' \in {"run", "wait", "null"} \/ Idles'
  <2>1. CASE \/ \E dest \in Pcb \ {ssi_pcb} : ClientSend(dest)
             \/ \E r \in Requests : ClientRequest(r)
    BY <1>3, <2>1 DEF ClientSend, ClientRequest, SendMessage, Running
  <2>2. ASSUME NEW from \in Pcb \cup {NULL}, ClientReceive(from)
        PROVE  cpu' \in {"run", "wait"} \/ Idles'
    <3>1. CASE ReceiveBlock(from)
      BY <1>1, <2>2, <3>1 DEF ClientReceive, ReceiveBlock, counters
    <3>2. CASE ~ReceiveBlock(from)
      BY <1>3, <2>2, <3>2 DEF ClientReceive, ReceiveTake, Running
    <3>3. QED
      BY <3>1, <3>2
  <2>3. CASE PassUp_Or_Die
    BY <1>1, <2>3 DEF PassUp_Or_Die
  <2>4. QED
    BY <1>3, <2>1, <2>2, <2>3
<1>4. ASSUME Running,
             \/ LocalTimerInterrupt
             \/ IntervalTimerInterrupt
             \/ \E d \in Dev : DeviceInterrupt(d) \/ TwoDevicesPending(d)
             \/ NullStored
      PROVE  \/ cpu' \in {"run", "wait", "null"} \/ (cpu' = "panic" /\ TwoPending')
             \/ Idles'
  <2>1. CASE LocalTimerInterrupt \/ IntervalTimerInterrupt \/ NullStored
    BY <1>1, <2>1 DEF LocalTimerInterrupt, IntervalTimerInterrupt, NullStored, counters
  <2>2. ASSUME NEW d \in Dev, DeviceInterrupt(d)
        PROVE  cpu' = "run" \/ Idles'
    BY <1>1, <2>2 DEF DeviceInterrupt
  <2>3. ASSUME NEW d \in Dev, TwoDevicesPending(d)
        PROVE  cpu' = "panic" /\ TwoPending'
    BY <2>3 DEF TwoDevicesPending, TwoPending, devices
  <2>4. QED
    BY <1>4, <2>1, <2>2, <2>3
<1>5. QED
  BY <1>2, <1>3, <1>4, NextCases
-----------------------------------------------------------------------------
\* The accounts are true in the states that can be followed, and the verdicts
\* right.
LEMMA InitAccounts == Init => AInv /\ SchedulerVerdict
<1> SUFFICES ASSUME Init PROVE AInv /\ SchedulerVerdict
  OBVIOUS
<1>1. IInv /\ TypeInv
  BY InitIInv, InitTypes
<1>2. Live = {ssi_pcb, test_pcb}
  BY KernelAssumption DEF Init, Live
<1>3. Cardinality({ssi_pcb, test_pcb}) = 2
  <2>1. IsFiniteSet({ssi_pcb}) /\ Cardinality({ssi_pcb}) = 1
    BY FS_Singleton
  <2>2. {ssi_pcb, test_pcb} = {ssi_pcb} \cup {test_pcb} /\ test_pcb \notin {ssi_pcb}
    BY KernelAssumption
  <2>3. QED
    BY <2>1, <2>2, FS_AddElement
<1>4. Live \ {ssi_pcb} \subseteq Descendants(test_pcb)
  BY <1>2, Families, KernelAssumption
<1>5. Waiting = 0
  <2>1. Occupied = {} /\ Len(blocked_pseudo_clock) = 0
    BY DEF Init, Occupied
  <2>2. QED
    BY <1>1, <2>1, WaitingType, FS_EmptySet
<1>6. Accounts
  BY <1>2, <1>3, <1>4, <1>5 DEF Accounts, Init, Range, TypeInv, TypeOK
<1>7. SchedulerVerdict
  BY DEF Init, SchedulerVerdict
<1>8. QED
  BY <1>1, <1>6, <1>7 DEF AInv

\* One step, from a state that can be followed to another or not.
LEMMA NextAccounts ==
  ASSUME AInv, SchedulerVerdict, [Next]_vars
  PROVE  /\ AInv' /\ SchedulerVerdict'
         /\ Intact /\ Intact' => DriftKept
<1>1. IInv' /\ TypeInv' /\ TypeInv
  BY NextIInv DEF AInv, IInv
<1>2. CASE ~Intact \/ UNCHANGED vars
  <2>1. UNCHANGED vars
    BY <1>2 DEF Next, Slice, Tick, Device, Running, Stopped
  <2>2. UNCHANGED <<queues, current_process, p_parent, blocked_dev, dev_busy, cpu,
                    process_count, soft_blocked_count>>
    BY <2>1 DEF vars, tree, devices, counters
  <2>3. Intact' <=> Intact
    BY <2>2 DEF Intact, QueuesIntact, TreeIntact, InLists, Live, queues
  <2>4. UNCHANGED books
    BY <2>2 DEF books, queues
  <2>5. Intact => Accounts' /\ DriftKept
    BY <1>1, <2>4, BooksClosed DEF AInv, DriftKept
  <2>6. SchedulerVerdict'
    BY <2>2, <2>3 DEF SchedulerVerdict, Live, queues
  <2>7. QED
    BY <1>1, <2>3, <2>5, <2>6 DEF AInv
<1>3. CASE Intact /\ ~UNCHANGED vars
  <2>1. Before /\ Accounts
    BY <1>3, QueuesIntactIsSeparate DEF Before, AInv, IInv, Intact
  <2>2. Intact' => Accounts' /\ DriftKept
    BY <1>1, <2>1, StepAccounts DEF Intact
  <2>3. SchedulerVerdict'
    <3>1. (TypeInv /\ SsiApart /\ Somewhere /\ Intact /\ Accounts /\ Idles => SchedulerVerdict)'
      BY VerdictRight, PTL
    <3>2. CASE ~Intact'
      BY <3>2 DEF SchedulerVerdict
    <3>3. CASE Intact' /\ Idles'
      BY <1>1, <2>2, <3>1, <3>3 DEF IInv
    <3>4. CASE cpu' \in {"run", "wait", "null"}
      BY <3>4 DEF SchedulerVerdict
    <3>5. CASE cpu' = "panic" /\ TwoPending'
      BY <3>5 DEF SchedulerVerdict, TwoPending
    <3>6. QED
      BY <1>1, <1>3, <3>2, <3>3, <3>4, <3>5, StepCpu
  <2>4. QED
    BY <1>1, <2>2, <2>3 DEF AInv
<1>4. QED
  BY <1>2, <1>3

\* The inductive invariant of the counters.
THEOREM AccountsHold == Spec => [](AInv /\ SchedulerVerdict)
<1>1. AInv /\ SchedulerVerdict /\ [Next]_vars => (AInv /\ SchedulerVerdict)'
  BY NextAccounts
<1>2. QED
  BY <1>1, InitAccounts, PTL DEF Spec

\* process_count is the number of processes, through creation, recursive
\* termination and traps, while the lists can be followed.
THEOREM CountExact == Spec => []ProcessCountExact
<1>1. AInv => ProcessCountExact
  BY DEF AInv, Accounts, ProcessCountExact
<1>2. QED
  BY <1>1, AccountsHold, PTL

\* Every process but the SSI descends from test: none survives its family.
THEOREM AllOfTest == Spec => []FamilyOfTest
<1>1. AInv => FamilyOfTest
  BY DEF AInv, Accounts, FamilyOfTest
<1>2. QED
  BY <1>1, AccountsHold, PTL

\* scheduler() halts, waits and panics when it should.
THEOREM VerdictSound == Spec => []SchedulerVerdict
<1>1. QED
  BY AccountsHold, PTL

\* soft_blocked_count departs from the number of waits by overwritten slots of
\* blocked_dev only.
THEOREM DriftExplained == Spec => SoftCountDriftsOnlyByOverwrite
<1> DEFINE A == LET drift == soft_blocked_count - Waiting
                IN  \/ ~Intact' \/ drift' = drift
                    \/ /\ drift' = drift + 1
                       /\ Serving({"DOIO"}) /\ blocked_dev[ssi.request.dev] # NULL
<1>1. AInv /\ SchedulerVerdict /\ [Next]_vars => [A]_vars
  <2> SUFFICES ASSUME AInv, SchedulerVerdict, [Next]_vars, ~UNCHANGED vars
               PROVE  A
    OBVIOUS
  <2>1. Intact
    BY DEF Next, Slice, Tick, Device, Running, Stopped
  <2>2. QED
    BY <2>1, NextAccounts DEF DriftKept, Drift
<1>2. QED
  BY <1>1, AccountsHold, PTL DEF Spec, SoftCountDriftsOnlyByOverwrite
-----------------------------------------------------------------------------
\* SumFunction by its recursion: the item taken first, one round over all
\* subsets of S, and the sums that a round leaves as they are.
First(s) == CHOOSE x \in s : TRUE

Round(f, S, sum) ==
  [s \in SUBSET S |-> IF s = {} THEN 0 ELSE f[First(s)] + sum[s \ {First(s)}]]

Sums(f, S) == CHOOSE sum : sum = Round(f, S, sum)

SubsetSums(S) == [SUBSET S -> Int]

Numbers(f, S) == \A x \in S : f[x] \in Int

LEMMA SumIsRecursive == \A f, S : SumFunctionOnSet(f, S) = Sums(f, S)[S]
BY DEF SumFunctionOnSet, FoldFunctionOnSet, MapThenFoldSet, Sums, Round, First

AtMost(s, n) == Cardinality(s) <= n

\* Subsets of a finite set, by size: the first item leaves a smaller one.
LEMMA FirstTaken ==
  ASSUME NEW S, IsFiniteSet(S), NEW s \in SUBSET S
  PROVE  /\ AtMost(s, Cardinality(S))
         /\ AtMost(s, 0) => s = {}
         /\ \A n \in Nat : s # {} /\ AtMost(s, n + 1) => AtMost(s \ {First(s)}, n)
         /\ s # {} => First(s) \in S
<1>1. IsFiniteSet(s) /\ Cardinality(s) \in Nat
  BY FS_Subset, FS_CardinalityType
<1>2. Cardinality(s) = 0 <=> s = {}
  BY <1>1, FS_EmptySet
<1>3. ASSUME s # {}
      PROVE  /\ First(s) \in s /\ s \ {First(s)} \in SUBSET S
             /\ Cardinality(s \ {First(s)}) = Cardinality(s) - 1
  <2>1. First(s) \in s
    BY <1>3 DEF First
  <2>2. QED
    BY <1>1, <2>1, FS_RemoveElement
<1>4. Cardinality(s) <= Cardinality(S)
  BY FS_Subset
<1>5. AtMost(s, 0) => s = {}
  BY <1>1, <1>2 DEF AtMost
<1>6. ASSUME NEW n \in Nat, s # {}, AtMost(s, n + 1)
      PROVE  AtMost(s \ {First(s)}, n)
  <2>1. Cardinality(s) <= n + 1 /\ Cardinality(s \ {First(s)}) = Cardinality(s) - 1
    BY <1>3, <1>6 DEF AtMost
  <2>2. QED
    BY <2>1, <1>1 DEF AtMost
<1>7. QED
  BY <1>3, <1>4, <1>5, <1>6 DEF AtMost

\* What one round computes.
LEMMA RoundFacts ==
  ASSUME NEW S, NEW f, Numbers(f, S), NEW g \in SubsetSums(S)
  PROVE  /\ Round(f, S, g) \in SubsetSums(S)
         /\ Round(f, S, g)[{}] = 0
         /\ \A s \in SUBSET S :
              s # {} => Round(f, S, g)[s] = f[First(s)] + g[s \ {First(s)}]
<1>1. ASSUME NEW s \in SUBSET S, s # {}
      PROVE  f[First(s)] + g[s \ {First(s)}] \in Int
  <2>1. First(s) \in S
    BY <1>1 DEF First
  <2>2. f[First(s)] \in Int /\ g[s \ {First(s)}] \in Int
    BY <2>1 DEF Numbers, SubsetSums
  <2>3. QED
    BY <2>2
<1>2. Round(f, S, g) \in SubsetSums(S)
  BY <1>1 DEF Round, SubsetSums
<1>3. QED
  BY <1>2 DEF Round

\* The sums of the subsets of a finite set exist: they are reached after as
\* many rounds as the set has members.
LEMMA SumsExist ==
  ASSUME NEW S, IsFiniteSet(S), NEW f, Numbers(f, S)
  PROVE  /\ Sums(f, S) = Round(f, S, Sums(f, S))
         /\ Sums(f, S) \in SubsetSums(S)
<1> DEFINE zero == [s \in SUBSET S |-> 0]
           step == [n \in Nat |-> [g \in SubsetSums(S) |-> Round(f, S, g)]]
<1>1. zero \in SubsetSums(S) /\ step \in [Nat -> [SubsetSums(S) -> SubsetSums(S)]]
  <2>1. \A g \in SubsetSums(S) : Round(f, S, g) \in SubsetSums(S)
    BY RoundFacts
  <2>2. zero \in SubsetSums(S)
    BY DEF SubsetSums
  <2>3. QED
    BY <2>1, <2>2
<1>2. \A n \in Nat, g \in SubsetSums(S) : step[n][g] = Round(f, S, g)
  OBVIOUS
<1>3. \A s \in SUBSET S : zero[s] = 0
  OBVIOUS
<1> HIDE DEF zero, step
<1>4. PICK F \in [Nat -> SubsetSums(S)] : Recurs(F, zero, step)
  BY <1>1, Recursion
<1>5. F[0] = zero /\ \A n \in Nat : F[n] \in SubsetSums(S) /\ F[n + 1] = Round(f, S, F[n])
  <2>1. F[0] = zero /\ \A n \in Nat : F[n + 1] = step[n][F[n]]
    BY <1>4 DEF Recurs
  <2>2. QED
    BY <2>1, <1>2
<1> DEFINE T == {n \in Nat : \A s \in SUBSET S :
                   AtMost(s, n) => F[n + 1][s] = F[n][s]}
<1>6. 0 \in T
  <2> SUFFICES ASSUME NEW s \in SUBSET S, AtMost(s, 0)
               PROVE  F[0 + 1][s] = F[0][s]
    OBVIOUS
  <2>1. s = {}
    BY FirstTaken
  <2>2. F[0 + 1][{}] = 0
    <3>1. F[0 + 1] = Round(f, S, zero) /\ zero \in SubsetSums(S)
      BY <1>1, <1>5
    <3>2. Round(f, S, zero)[{}] = 0
      BY <3>1, RoundFacts
    <3>3. QED
      BY <3>1, <3>2
  <2>3. QED
    BY <2>1, <2>2, <1>3, <1>5
<1>7. ASSUME NEW n \in Nat, n \in T PROVE n + 1 \in T
  <2> SUFFICES ASSUME NEW s \in SUBSET S, AtMost(s, n + 1)
               PROVE  F[(n + 1) + 1][s] = F[n + 1][s]
    OBVIOUS
  <2> DEFINE g == F[n]
             h == F[n + 1]
  <2>1. /\ F[(n + 1) + 1] = Round(f, S, h) /\ F[n + 1] = Round(f, S, g)
        /\ h \in SubsetSums(S) /\ g \in SubsetSums(S)
    <3>1. n + 1 \in Nat
      OBVIOUS
    <3>2. QED
      BY <1>5, <3>1
  <2> HIDE DEF g, h
  <2>2. /\ Round(f, S, h)[{}] = 0 /\ Round(f, S, g)[{}] = 0
        /\ s # {} => /\ Round(f, S, h)[s] = f[First(s)] + h[s \ {First(s)}]
                     /\ Round(f, S, g)[s] = f[First(s)] + g[s \ {First(s)}]
    BY <2>1, RoundFacts
  <2>3. CASE s = {}
    BY <2>1, <2>3, <2>2
  <2>4. CASE s # {}
    <3>1. s \ {First(s)} \in SUBSET S /\ AtMost(s \ {First(s)}, n)
      BY <2>4, FirstTaken
    <3>2. h[s \ {First(s)}] = g[s \ {First(s)}]
      BY <3>1, <1>7 DEF g, h
    <3>3. /\ F[(n + 1) + 1][s] = f[First(s)] + h[s \ {First(s)}]
          /\ F[n + 1][s] = f[First(s)] + g[s \ {First(s)}]
      BY <2>2, <2>1, <2>4
    <3>4. QED
      BY <3>2, <3>3
  <2>5. QED
    BY <2>3, <2>4
<1>8. Nat \subseteq T
  <2> HIDE DEF T
  <2>1. QED
    BY <1>6, <1>7, NatSetInduction
<1> DEFINE N == Cardinality(S)
<1>9. F[N] = Round(f, S, F[N])
  <2>1. N \in Nat
    BY FS_CardinalityType
  <2>2. ASSUME NEW s \in SUBSET S
        PROVE  F[N + 1][s] = F[N][s]
    <3>1. AtMost(s, N)
      BY FirstTaken
    <3>2. N \in T
      BY <1>8, <2>1
    <3>3. QED
      BY <3>1, <3>2
  <2> HIDE DEF N, T
  <2>3. F[N] \in [SUBSET S -> Int] /\ F[N + 1] \in [SUBSET S -> Int]
    <3>1. N + 1 \in Nat
      BY <2>1
    <3>2. QED
      BY <1>5, <2>1, <3>1 DEF SubsetSums
  <2>4. F[N] = F[N + 1]
    BY <2>2, <2>3
  <2>5. QED
    BY <2>1, <2>4, <1>5
<1>10. Sums(f, S) = Round(f, S, Sums(f, S))
  <2>1. \E sum : sum = Round(f, S, sum)
    BY <1>9
  <2>2. QED
    BY <2>1 DEF Sums
<1> DEFINE G == Sums(f, S)
           U == {n \in Nat : \A s \in SUBSET S : AtMost(s, n) => G[s] \in Int}
<1>11. /\ G = [s \in SUBSET S |-> G[s]]
       /\ \A s \in SUBSET S : G[s] = IF s = {} THEN 0 ELSE f[First(s)] + G[s \ {First(s)}]
  BY <1>10 DEF Round
<1> HIDE DEF G
<1>12. 0 \in U
  <2>1. ASSUME NEW s \in SUBSET S, AtMost(s, 0) PROVE G[s] \in Int
    <3>1. s = {}
      BY <2>1, FirstTaken
    <3>2. G[s] = 0
      BY <3>1, <1>11
    <3>3. QED
      BY <3>2
  <2>2. QED
    BY <2>1
<1>13. ASSUME NEW n \in Nat, n \in U PROVE n + 1 \in U
  <2> SUFFICES ASSUME NEW s \in SUBSET S, AtMost(s, n + 1)
               PROVE  G[s] \in Int
    OBVIOUS
  <2>1. CASE s = {}
    <3>1. G[s] = 0
      BY <2>1, <1>11
    <3>2. QED
      BY <3>1
  <2>2. CASE s # {}
    <3>1. First(s) \in S /\ s \ {First(s)} \in SUBSET S /\ AtMost(s \ {First(s)}, n)
      BY <2>2, FirstTaken
    <3>2. G[s \ {First(s)}] \in Int /\ f[First(s)] \in Int
      BY <3>1, <1>13 DEF Numbers
    <3>3. G[s] = f[First(s)] + G[s \ {First(s)}]
      BY <2>2, <1>11
    <3>4. QED
      BY <3>2, <3>3
  <2>3. QED
    BY <2>1, <2>2
<1>14. Nat \subseteq U
  <2> HIDE DEF U
  <2>1. QED
    BY <1>12, <1>13, NatSetInduction
<1>15. \A s \in SUBSET S : G[s] \in Int
  <2>1. Cardinality(S) \in U
    BY <1>14, FS_CardinalityType
  <2>2. QED
    BY <2>1, FirstTaken
<1>16. G \in SubsetSums(S)
  BY <1>11, <1>15 DEF SubsetSums
<1>17. QED
  BY <1>10, <1>16 DEF G

\* The sum follows a change of one number.
LEMMA SumChanges ==
  ASSUME NEW S, IsFiniteSet(S), NEW f, NEW g, NEW p \in S,
         Numbers(f, S), Numbers(g, S), \A x \in S \ {p} : g[x] = f[x]
  PROVE  /\ SumFunctionOnSet(f, S) \in Int
         /\ SumFunctionOnSet(g, S) = SumFunctionOnSet(f, S) + (g[p] - f[p])
<1> DEFINE F == Sums(f, S)
           G == Sums(g, S)
           more(s) == IF p \in s THEN g[p] - f[p] ELSE 0
           T == {n \in Nat : \A s \in SUBSET S :
                               AtMost(s, n) => G[s] = F[s] + more(s)}
<1>1. /\ F \in SubsetSums(S) /\ G \in SubsetSums(S)
      /\ F = Round(f, S, F) /\ G = Round(g, S, G)
  BY SumsExist
<1> HIDE DEF F, G
<1>2. /\ F[{}] = 0 /\ G[{}] = 0
      /\ \A s \in SUBSET S : s # {} => /\ F[s] = f[First(s)] + F[s \ {First(s)}]
                                       /\ G[s] = g[First(s)] + G[s \ {First(s)}]
  <2>1. /\ Round(f, S, F)[{}] = 0
        /\ \A s \in SUBSET S : s # {} => Round(f, S, F)[s] = f[First(s)] + F[s \ {First(s)}]
    <3>1. F \in SubsetSums(S)
      BY <1>1
    <3>2. QED
      BY ONLY <3>1, Numbers(f, S), RoundFacts
  <2>2. /\ Round(g, S, G)[{}] = 0
        /\ \A s \in SUBSET S : s # {} => Round(g, S, G)[s] = g[First(s)] + G[s \ {First(s)}]
    <3>1. G \in SubsetSums(S)
      BY <1>1
    <3>2. QED
      BY ONLY <3>1, Numbers(g, S), RoundFacts
  <2>3. QED
    BY <1>1, <2>1, <2>2
<1>3. 0 \in T
  <2>1. ASSUME NEW s \in SUBSET S, AtMost(s, 0) PROVE G[s] = F[s] + more(s)
    <3>1. s = {}
      BY <2>1, FirstTaken
    <3>2. QED
      BY <3>1, <1>2
  <2>2. QED
    BY <2>1
<1>4. ASSUME NEW n \in Nat, n \in T PROVE n + 1 \in T
  <2> SUFFICES ASSUME NEW s \in SUBSET S, AtMost(s, n + 1)
               PROVE  G[s] = F[s] + more(s)
    OBVIOUS
  <2>1. CASE s = {}
    BY <2>1, <1>2
  <2>2. CASE s # {}
    <3> DEFINE x == First(s)
               t == s \ {x}
    <3>1. x \in s /\ x \in S /\ t \in SUBSET S /\ AtMost(t, n)
      BY <2>2, FirstTaken DEF First
    <3>2. F[s] = f[x] + F[t] /\ G[s] = g[x] + G[t]
      BY <1>2, <2>2
    <3>3. G[t] = F[t] + more(t)
      BY <3>1, <1>4
    <3>4. F[t] \in Int /\ f[p] \in Int /\ g[p] \in Int /\ f[x] \in Int /\ g[x] \in Int
      BY <1>1, <3>1 DEF Numbers, SubsetSums
    <3>5. CASE x = p
      <4>1. p \in s /\ p \notin t
        BY <3>1, <3>5
      <4>2. QED
        BY <4>1, <3>2, <3>3, <3>4, <3>5
    <3>6. CASE x # p
      <4>1. g[x] = f[x] /\ (p \in t <=> p \in s)
        BY <3>1, <3>6
      <4>2. QED
        BY <4>1, <3>2, <3>3, <3>4
    <3>7. QED
      BY <3>5, <3>6
  <2>3. QED
    BY <2>1, <2>2
<1>5. Nat \subseteq T
  <2> HIDE DEF T
  <2>1. QED
    BY <1>3, <1>4, NatSetInduction
<1>6. G[S] = F[S] + (g[p] - f[p])
  <2>1. Cardinality(S) \in T /\ AtMost(S, Cardinality(S)) /\ S \in SUBSET S
    BY <1>5, FS_CardinalityType, FirstTaken
  <2>2. QED
    BY <2>1
<1>7. F[S] \in Int
  BY <1>1 DEF SubsetSums
<1>8. QED
  BY <1>6, <1>7, SumIsRecursive DEF F, G
-----------------------------------------------------------------------------
\* pushMessage (msg.c:54) makes an inbox longer by one.
LEMMA PushLength ==
  ASSUME NEW M, NEW box \in Seq(M), NEW m \in M
  PROVE  /\ pushMessage(box, m) \in Seq(M)
         /\ Len(pushMessage(box, m)) = Len(box) + 1
BY ConcatProperties, LenProperties DEF pushMessage

\* The lengths of the inboxes, which Cells adds up.
Lengths == [p \in Pcb |-> Len(msg_inbox[p])]

\* One inbox grows or shrinks by as many cells as the pool loses or gains.
CellMoves ==
  \E q \in Pcb : \E box \in Seq(Message) :
    /\ msg_inbox' = [msg_inbox EXCEPT ![q] = box]
    /\ msgFree_h' = msgFree_h - (Len(box) - Len(msg_inbox[q]))

\* The number of cells as a number.
LEMMA CellsType ==
  ASSUME TypeInv
  PROVE  /\ Cells = msgFree_h + SumFunctionOnSet(Lengths, Pcb)
         /\ msgFree_h \in Nat /\ Numbers(Lengths, Pcb)
         /\ \A p \in Pcb : Len(msg_inbox[p]) \in Nat
<1>1. \A p \in Pcb : Len(msg_inbox[p]) \in Nat
  BY LenProperties DEF TypeInv, TypeOK
<1>2. Cells = msgFree_h + SumFunctionOnSet(Lengths, Pcb)
  BY DEF Cells, Lengths, SumFunction
<1>3. QED
  BY <1>1, <1>2 DEF Numbers, Lengths, TypeInv, TypeOK

\* When one inbox changes, Cells changes by what that inbox and the pool gain.
LEMMA OneInboxChanges ==
  ASSUME TypeInv, TypeInv', NEW q \in Pcb, NEW box \in Seq(Message),
         msg_inbox' = [msg_inbox EXCEPT ![q] = box]
  PROVE  Cells' = Cells + (msgFree_h' - msgFree_h) + (Len(box) - Len(msg_inbox[q]))
<1> DEFINE n == [p \in Pcb |-> Len(msg_inbox'[p])]
<1>1. /\ Cells = msgFree_h + SumFunctionOnSet(Lengths, Pcb)
      /\ msgFree_h \in Nat /\ Numbers(Lengths, Pcb)
      /\ \A p \in Pcb : Len(msg_inbox[p]) \in Nat
  BY CellsType
<1>2. /\ Cells' = msgFree_h' + SumFunctionOnSet(n, Pcb)
      /\ msgFree_h' \in Nat /\ Numbers(n, Pcb)
  <2>1. (TypeInv => /\ Cells = msgFree_h + SumFunctionOnSet(Lengths, Pcb)
                    /\ msgFree_h \in Nat /\ Numbers(Lengths, Pcb))'
    BY CellsType, PTL
  <2>2. Lengths' = n
    BY DEF Lengths
  <2>3. QED
    BY <2>1, <2>2
<1>3. msg_inbox'[q] = box /\ \A p \in Pcb \ {q} : msg_inbox'[p] = msg_inbox[p]
  BY DEF TypeInv, TypeOK
<1>4. /\ n[q] = Len(box) /\ Lengths[q] = Len(msg_inbox[q])
      /\ \A p \in Pcb \ {q} : n[p] = Lengths[p]
  BY <1>3 DEF Lengths
<1> HIDE DEF n
<1>5. /\ SumFunctionOnSet(Lengths, Pcb) \in Int
      /\ SumFunctionOnSet(n, Pcb) = SumFunctionOnSet(Lengths, Pcb) + (n[q] - Lengths[q])
  <2> DEFINE l == Lengths
  <2>1. IsFiniteSet(Pcb) /\ Numbers(l, Pcb) /\ Numbers(n, Pcb)
    BY <1>1, <1>2, KernelAssumption
  <2>2. \A x \in Pcb \ {q} : n[x] = l[x]
    BY <1>4
  <2> HIDE DEF l
  <2>3. /\ SumFunctionOnSet(l, Pcb) \in Int
        /\ SumFunctionOnSet(n, Pcb) = SumFunctionOnSet(l, Pcb) + (n[q] - l[q])
    BY <2>1, <2>2, SumChanges
  <2>4. QED
    BY <2>3 DEF l
<1>6. Len(box) \in Nat /\ Len(msg_inbox[q]) \in Nat
  BY <1>1, LenProperties
<1>7. QED
  BY <1>1, <1>2, <1>4, <1>5, <1>6

\* SEND takes a cell from the pool for one inbox, or gives it back.
LEMMA SendCells ==
  ASSUME TypeInv, current_process \in Pcb, NEW dest \in Pcb,
         NEW payload \in Requests \cup {Data, Reply}, SendMessage(dest, payload)
  PROVE  CellMoves \/ UNCHANGED messages
<1> DEFINE m == [m_sender |-> current_process, m_payload |-> payload]
           box == pushMessage(msg_inbox[dest], m)
<1>1. CASE ~Exists(dest)
  BY <1>1 DEF SendMessage, messages
<1>2. CASE Exists(dest)
  <2>1. /\ msg_inbox' = [msg_inbox EXCEPT ![dest] = box]
        /\ msgFree_h' = msgFree_h - 1
    BY <1>2 DEF SendMessage
  <2>2. m \in Message /\ msg_inbox[dest] \in Seq(Message)
    BY MessageType DEF TypeInv, TypeOK
  <2> HIDE DEF m
  <2>3. box \in Seq(Message) /\ Len(box) = Len(msg_inbox[dest]) + 1
    <3> DEFINE old == msg_inbox[dest]
    <3> HIDE DEF old
    <3>1. old \in Seq(Message)
      BY <2>2 DEF old
    <3>2. pushMessage(old, m) \in Seq(Message) /\ Len(pushMessage(old, m)) = Len(old) + 1
      BY <2>2, <3>1, PushLength
    <3>3. QED
      BY <3>2 DEF old
  <2>4. Len(msg_inbox[dest]) \in Nat
    BY <2>2, LenProperties
  <2> HIDE DEF box
  <2>5. msgFree_h' = msgFree_h - (Len(box) - Len(msg_inbox[dest]))
    BY <2>1, <2>3, <2>4 DEF TypeInv, TypeOK
  <2>6. QED
    BY <2>1, <2>3, <2>5 DEF CellMoves
<1>3. QED
  BY <1>1, <1>2

\* RECEIVE gives back the cell it takes out of an inbox.
LEMMA TakeCells ==
  ASSUME TypeInv, current_process \in Pcb, NEW from, NEW i, ReceiveTake(from, i)
  PROVE  CellMoves
<1> DEFINE old == msg_inbox[current_process]
           box == RemoveAt(old, i)
<1>1. /\ i \in DOMAIN old
      /\ msg_inbox' = [msg_inbox EXCEPT ![current_process] = box]
      /\ msgFree_h' = msgFree_h + 1
  BY DEF ReceiveTake, Matches
<1>2. old \in Seq(Message)
  BY DEF TypeInv, TypeOK
<1> HIDE DEF old
<1>3. box \in Seq(Message) /\ Len(box) = Len(old) - 1 /\ Len(old) \in Nat
  BY <1>1, <1>2, AllButFacts DEF RemoveAt, AllBut
<1> HIDE DEF box
<1>4. msgFree_h' = msgFree_h - (Len(box) - Len(old))
  BY <1>1, <1>3 DEF TypeInv, TypeOK
<1>5. QED
  BY <1>1, <1>3, <1>4 DEF CellMoves, old

\* Every step but an allocation accounts for its cells.
LEMMA StepCells ==
  ASSUME TypeInv, [Next]_vars, ~UNCHANGED vars
  PROVE  CellMoves \/ UNCHANGED messages \/ createProcess
<1> USE DEF messages
<1>1. Running
  BY DEF Next, Slice, Tick, Device, Stopped
<1>2. CASE SsiStep
  <2>1. CASE SsiReceive
    <3>1. current_process \in Pcb
      BY <2>1, KernelAssumption DEF SsiReceive
    <3>2. QED
      BY <2>1, <3>1, TakeCells DEF SsiReceive, ReceiveBlock
  <2>2. CASE SsiReply
    <3>1. current_process \in Pcb /\ ssi.sender \in Pcb
      BY <2>2, KernelAssumption DEF SsiReply, TypeInv, Actors
    <3>2. QED
      BY <2>2, <3>1, SendCells DEF SsiReply
  <2>3. QED
    BY <1>2, <2>1, <2>2
       DEF SsiStep, terminateProcess, doIO, waitForClock, getData
<1>3. ASSUME NEW dest \in Pcb \ {ssi_pcb}, ClientSend(dest)
      PROVE  CellMoves \/ UNCHANGED messages
  BY <1>3, SendCells DEF ClientSend, UserCode
<1>4. ASSUME NEW r \in Requests, ClientRequest(r)
      PROVE  CellMoves \/ UNCHANGED messages
  BY <1>4, SendCells, KernelAssumption DEF ClientRequest, UserCode
<1>5. ASSUME NEW from \in Pcb \cup {NULL}, ClientReceive(from)
      PROVE  CellMoves \/ UNCHANGED messages
  BY <1>5, TakeCells DEF ClientReceive, ReceiveBlock
<1>6. CASE \/ PassUp_Or_Die \/ LocalTimerInterrupt \/ IntervalTimerInterrupt
           \/ \E d \in Dev : TwoDevicesPending(d)
           \/ NullStored
  BY <1>6 DEF PassUp_Or_Die, LocalTimerInterrupt, IntervalTimerInterrupt,
              TwoDevicesPending, NullStored
<1>7. ASSUME NEW d \in Dev, DeviceInterrupt(d)
      PROVE  CellMoves \/ UNCHANGED messages
  <2> DEFINE w == blocked_dev[d]
             m == [m_sender |-> ssi_pcb, m_payload |-> Reply]
             box == pushMessage(msg_inbox[w], m)
  <2>1. CASE w = NULL
    BY <1>7, <2>1 DEF DeviceInterrupt
  <2>2. CASE w # NULL
    <3>1. /\ msg_inbox' = [msg_inbox EXCEPT ![w] = box]
          /\ msgFree_h' = msgFree_h - 1
      BY <1>7, <2>2 DEF DeviceInterrupt
    <3>2. w \in Pcb /\ m \in Message /\ msg_inbox[w] \in Seq(Message)
      BY <2>2, KernelAssumption DEF TypeInv, TypeOK, Message
    <3> HIDE DEF w, m
    <3>3. box \in Seq(Message) /\ Len(box) = Len(msg_inbox[w]) + 1
      <4> DEFINE old == msg_inbox[w]
      <4> HIDE DEF old
      <4>1. old \in Seq(Message)
        BY <3>2 DEF old
      <4>2. pushMessage(old, m) \in Seq(Message) /\ Len(pushMessage(old, m)) = Len(old) + 1
        BY <3>2, <4>1, PushLength
      <4>3. QED
        BY <4>2 DEF old
    <3>4. Len(msg_inbox[w]) \in Nat
      BY <3>2, LenProperties
    <3>5. msgFree_h' = msgFree_h - (Len(box) - Len(msg_inbox[w]))
      BY <3>1, <3>3, <3>4 DEF TypeInv, TypeOK
    <3> HIDE DEF box
    <3>6. QED
      BY <3>1, <3>2, <3>3, <3>5 DEF CellMoves
  <2>3. QED
    BY <2>1, <2>2
<1>8. QED
  BY <1>2, <1>3, <1>4, <1>5, <1>6, <1>7, NextCases

\* A message cell is lost in one way only: when the PCB of a terminated process
\* with unread messages is allocated again (pcb.c:49).
THEOREM CellsAccounted == Spec => CellsLostOnlyByReuse
<1> DEFINE A == Cells' # Cells =>
                  \E p \in pcbFree_h \ pcbFree_h' :
                    msg_inbox[p] # <<>> /\ Cells' = Cells - Len(msg_inbox[p])
<1>1. TypeInv /\ [Next]_vars => [A]_vars
  <2> SUFFICES ASSUME TypeInv, [Next]_vars, ~UNCHANGED vars PROVE A
    OBVIOUS
  <2>1. TypeInv'
    BY NextTypes
  <2>2. Cells \in Int
    <3>1. PICK q \in Pcb : TRUE
      BY KernelAssumption
    <3>2. IsFiniteSet(Pcb) /\ Numbers(Lengths, Pcb)
      BY CellsType, KernelAssumption
    <3>3. SumFunctionOnSet(Lengths, Pcb) \in Int
      BY <3>1, <3>2, SumChanges
    <3>4. QED
      BY <3>3, CellsType
  <2>3. CASE CellMoves
    <3>1. PICK q \in Pcb, box \in Seq(Message) :
            /\ msg_inbox' = [msg_inbox EXCEPT ![q] = box]
            /\ msgFree_h' = msgFree_h - (Len(box) - Len(msg_inbox[q]))
      BY <2>3 DEF CellMoves
    <3>2. Cells' = Cells + (msgFree_h' - msgFree_h) + (Len(box) - Len(msg_inbox[q]))
      BY <2>1, <3>1, OneInboxChanges
    <3>3. Len(box) \in Nat /\ Len(msg_inbox[q]) \in Nat /\ msgFree_h \in Nat
      BY <3>1, CellsType, LenProperties
    <3>4. Cells' = Cells
      BY <2>2, <3>1, <3>2, <3>3
    <3>5. QED
      BY <3>4
  <2>4. CASE UNCHANGED messages
    BY <2>4 DEF messages, Cells
  <2>5. CASE createProcess
    <3>1. CASE UNCHANGED msg_inbox
      BY <2>5, <3>1 DEF createProcess, Cells
    <3>2. ASSUME NEW p \in pcbFree_h, allocPcb(p), UNCHANGED msgFree_h
          PROVE  A
      <4>1. /\ p \in Pcb /\ p \in pcbFree_h \ pcbFree_h'
            /\ msg_inbox' = [msg_inbox EXCEPT ![p] = <<>>] /\ <<>> \in Seq(Message)
        BY <3>2 DEF allocPcb, TypeInv, TypeOK
      <4>2. Cells' = Cells + (msgFree_h' - msgFree_h) + (Len(<<>>) - Len(msg_inbox[p]))
        BY <2>1, <4>1, OneInboxChanges
      <4>3. msgFree_h' = msgFree_h /\ msgFree_h \in Nat /\ Len(<<>>) = 0
            /\ Len(msg_inbox[p]) \in Nat
        BY <3>2, <4>1, CellsType
      <4>4. Cells' = Cells - Len(msg_inbox[p])
        BY <2>2, <4>2, <4>3
      <4>5. msg_inbox[p] = <<>> => Cells' = Cells
        BY <2>2, <4>3, <4>4
      <4>6. QED
        BY <4>1, <4>4, <4>5
    <3>3. QED
      BY <2>5, <3>1, <3>2 DEF createProcess
  <2>6. QED
    BY <2>3, <2>4, <2>5, StepCells
<1>2. QED
  BY <1>1, Types, PTL DEF Spec, CellsLostOnlyByReuse
-----------------------------------------------------------------------------
\* The messages of s in an inbox, and their number.
Sent(box, s) == {i \in DOMAIN box : box[i].m_sender = s}

From(box, s) == Cardinality(Sent(box, s))

LEMMA FromType ==
  ASSUME NEW box \in Seq(Message), NEW s
  PROVE  IsFiniteSet(Sent(box, s)) /\ From(box, s) \in Nat
<1>1. DOMAIN box = 1..Len(box) /\ Len(box) \in Nat
  BY LenProperties
<1>2. IsFiniteSet(1..Len(box))
  BY <1>1, FS_Interval
<1>3. IsFiniteSet(Sent(box, s))
  BY <1>1, <1>2, FS_Subset DEF Sent
<1>4. QED
  BY <1>3, FS_CardinalityType DEF From

\* An empty inbox has none.
LEMMA FromEmpty == \A s : From(<<>>, s) = 0
<1>1. \A s : Sent(<<>>, s) = {}
  BY DEF Sent
<1>2. QED
  BY <1>1, FS_EmptySet DEF From

\* pushMessage adds one of its sender.
LEMMA FromPush ==
  ASSUME NEW box \in Seq(Message), NEW m \in Message, NEW s
  PROVE  /\ m.m_sender = s => From(pushMessage(box, m), s) = From(box, s) + 1
         /\ m.m_sender # s => From(pushMessage(box, m), s) = From(box, s)
<1> DEFINE old == Sent(box, s)
           new == Sent(pushMessage(box, m), s)
           shift == [i \in old |-> i + 1]
<1>1. /\ Len(box) \in Nat /\ DOMAIN box = 1..Len(box)
      /\ DOMAIN pushMessage(box, m) = 1..(Len(box) + 1)
      /\ pushMessage(box, m)[1] = m
      /\ \A i \in 1..Len(box) : pushMessage(box, m)[i + 1] = box[i]
      /\ \A i \in 2..(Len(box) + 1) : pushMessage(box, m)[i] = box[i - 1]
  BY ConcatProperties, LenProperties DEF pushMessage
<1>2. /\ \A i \in old : i \in 1..Len(box) /\ i + 1 \in new \ {1}
      /\ \A j \in new \ {1} : j - 1 \in old /\ (j - 1) + 1 = j
      /\ 1 \in new <=> m.m_sender = s
  <2>1. ASSUME NEW i \in old PROVE i \in 1..Len(box) /\ i + 1 \in new \ {1}
    BY <1>1 DEF Sent
  <2>2. ASSUME NEW j \in new \ {1} PROVE j - 1 \in old /\ (j - 1) + 1 = j
    <3>1. j \in 2..(Len(box) + 1) /\ pushMessage(box, m)[j].m_sender = s
      BY <1>1 DEF Sent
    <3>2. j - 1 \in 1..Len(box) /\ (j - 1) + 1 = j /\ pushMessage(box, m)[j] = box[j - 1]
      BY <3>1, <1>1
    <3>3. QED
      BY <3>1, <3>2, <1>1 DEF Sent
  <2>3. 1 \in new <=> m.m_sender = s
    BY <1>1 DEF Sent
  <2>4. QED
    BY <2>1, <2>2, <2>3
<1> HIDE DEF old, new
<1>3. shift \in Bijection(old, new \ {1})
  <2>1. shift \in [old -> new \ {1}]
    BY <1>2
  <2>2. \A i, j \in old : shift[i] = shift[j] => i = j
    BY <1>2
  <2>3. \A j \in new \ {1} : \E i \in old : shift[i] = j
    BY <1>2
  <2> HIDE DEF shift
  <2>4. QED
    BY <2>1, <2>2, <2>3 DEF Bijection, Injection, Surjection, IsInjective
<1>4. IsFiniteSet(old)
  BY FromType DEF old
<1>5. Cardinality(new \ {1}) = Cardinality(old)
  BY <1>3, <1>4, FS_Bijection DEF ExistsBijection
<1>6. IsFiniteSet(new)
  BY PushLength, FromType DEF new
<1>7. Cardinality(old) \in Nat /\ Cardinality(new) \in Nat
  BY <1>4, <1>6, FS_CardinalityType
<1>8. Cardinality(new \ {1}) = IF 1 \in new THEN Cardinality(new) - 1 ELSE Cardinality(new)
  BY <1>6, FS_RemoveElement
<1>9. QED
  BY <1>2, <1>5, <1>7, <1>8 DEF From, old, new

\* popMessage takes one of its sender.
LEMMA FromRemove ==
  ASSUME NEW box \in Seq(Message), NEW i \in DOMAIN box, NEW s
  PROVE  /\ box[i].m_sender = s => From(RemoveAt(box, i), s) = From(box, s) - 1
         /\ box[i].m_sender # s => From(RemoveAt(box, i), s) = From(box, s)
<1> DEFINE rest == RemoveAt(box, i)
           old == Sent(box, s)
           new == Sent(rest, s)
           place(k) == IF k < i THEN k ELSE k + 1
           shift == [k \in new |-> place(k)]
<1>1. /\ rest \in Seq(Message)
      /\ DOMAIN box = 1..Len(box) /\ Len(box) \in Nat /\ i \in 1..Len(box)
      /\ DOMAIN rest = 1..(Len(box) - 1)
      /\ \A k \in 1..(Len(box) - 1) : rest[k] = IF k < i THEN box[k] ELSE box[k + 1]
  BY AllButFacts DEF RemoveAt, AllBut
<1> HIDE DEF rest
<1>2. ASSUME NEW k \in new
      PROVE  k \in 1..(Len(box) - 1) /\ place(k) \in old \ {i}
  <2>1. k \in 1..(Len(box) - 1) /\ rest[k].m_sender = s
    BY <1>1 DEF Sent
  <2>2. place(k) \in 1..Len(box) /\ place(k) # i /\ rest[k] = box[place(k)]
    BY <1>1, <2>1
  <2>3. QED
    BY <1>1, <2>1, <2>2 DEF Sent
<1>3. ASSUME NEW j \in old \ {i}
      PROVE  \E k \in new : place(k) = j
  <2>1. j \in 1..Len(box) /\ j # i /\ box[j].m_sender = s
    BY <1>1 DEF Sent
  <2>2. CASE j < i
    <3>1. j \in 1..(Len(box) - 1) /\ rest[j] = box[j] /\ place(j) = j
      BY <1>1, <2>1, <2>2
    <3>2. j \in new
      BY <1>1, <2>1, <3>1 DEF Sent
    <3>3. QED
      BY <3>1, <3>2
  <2>3. CASE j > i
    <3>1. /\ j - 1 \in 1..(Len(box) - 1) /\ rest[j - 1] = box[j]
          /\ place(j - 1) = j
      <4>1. j - 1 \in 1..(Len(box) - 1) /\ ~(j - 1 < i) /\ (j - 1) + 1 = j
        BY <1>1, <2>1, <2>3
      <4>2. QED
        BY <1>1, <4>1
    <3>2. j - 1 \in new
      BY <1>1, <2>1, <3>1 DEF Sent
    <3>3. QED
      BY <3>1, <3>2
  <2>4. QED
    BY <1>1, <2>1, <2>2, <2>3
<1>4. \A k, l \in new : place(k) = place(l) => k = l
  BY <1>1, <1>2
<1>5. shift \in Bijection(new, old \ {i})
  <2>1. shift \in [new -> old \ {i}] /\ \A k \in new : shift[k] = place(k)
    BY <1>2
  <2>2. \A k, l \in new : shift[k] = shift[l] => k = l
    BY <1>4, <2>1
  <2>3. \A j \in old \ {i} : \E k \in new : shift[k] = j
    BY <1>3, <2>1
  <2> HIDE DEF shift, new, old
  <2>4. QED
    BY <2>1, <2>2, <2>3 DEF Bijection, Injection, Surjection, IsInjective
<1>6. i \in old <=> box[i].m_sender = s
  BY <1>1 DEF Sent
<1>7. IsFiniteSet(new) /\ IsFiniteSet(old)
  BY <1>1, FromType
<1> HIDE DEF new, old, shift
<1>8. Cardinality(old \ {i}) = Cardinality(new)
  BY <1>5, <1>7, FS_Bijection DEF ExistsBijection
<1>9. Cardinality(old) \in Nat /\ Cardinality(new) \in Nat
  BY <1>7, FS_CardinalityType
<1>10. Cardinality(old \ {i}) = IF i \in old THEN Cardinality(old) - 1 ELSE Cardinality(old)
  BY <1>7, FS_RemoveElement
<1>11. QED
  BY <1>6, <1>8, <1>9, <1>10 DEF From, old, new, rest
-----------------------------------------------------------------------------
\* The four places where an answer to p may be: its request in the inbox of
\* the SSI, the SSI, a slot of blocked_dev, and its own inbox.
Asked(p)  == From(msg_inbox[ssi_pcb], p)
Served(p) == IF ssi.at # "receive" /\ ssi.sender = p THEN 1 ELSE 0
Slots(p)  == Cardinality({d \in Dev : blocked_dev[d] = p})
Given(p)  == From(msg_inbox[p], ssi_pcb)

\* They are numbers, and add up to AnswersDue.
LEMMA DueParts ==
  ASSUME TypeInv, NEW p \in Pcb
  PROVE  /\ AnswersDue(p) = Asked(p) + Served(p) + Slots(p) + Given(p)
         /\ Asked(p) \in Nat /\ Served(p) \in 0..1 /\ Slots(p) \in Nat /\ Given(p) \in Nat
<1>1. Asked(p) \in Nat /\ Given(p) \in Nat
  BY KernelAssumption, FromType DEF Asked, Given, TypeInv, TypeOK
<1>2. Slots(p) \in Nat
  <2>1. IsFiniteSet(Dev)
    BY KernelAssumption, FS_Interval DEF Dev
  <2>2. QED
    BY <2>1, FS_Subset, FS_CardinalityType DEF Slots
<1>3. /\ Served(p) = Cardinality({s \in {ssi} : s.at # "receive" /\ s.sender = p})
      /\ Served(p) \in 0..1
  <2>1. CASE ssi.at # "receive" /\ ssi.sender = p
    <3>1. {s \in {ssi} : s.at # "receive" /\ s.sender = p} = {ssi}
      BY <2>1
    <3>2. Cardinality({ssi}) = 1
      BY FS_Singleton
    <3>3. Served(p) = 1
      BY <2>1 DEF Served
    <3>4. QED
      BY <3>1, <3>2, <3>3
  <2>2. CASE ~(ssi.at # "receive" /\ ssi.sender = p)
    <3>1. {s \in {ssi} : s.at # "receive" /\ s.sender = p} = {}
      BY <2>2
    <3>2. QED
      BY <2>2, <3>1, FS_EmptySet DEF Served
  <2>3. QED
    BY <2>1, <2>2
<1>4. QED
  BY <1>1, <1>2, <1>3 DEF AnswersDue, Asked, Served, Slots, Given, From, Sent

\* The same of the next state.
LEMMA NextDueParts ==
  ASSUME TypeInv', NEW p \in Pcb
  PROVE  /\ AnswersDue(p)' = Asked(p)' + Served(p)' + Slots(p)' + Given(p)'
         /\ Asked(p)' \in Nat /\ Served(p)' \in 0..1 /\ Slots(p)' \in Nat /\ Given(p)' \in Nat
<1>1. (TypeInv => /\ AnswersDue(p) = Asked(p) + Served(p) + Slots(p) + Given(p)
                  /\ Asked(p) \in Nat /\ Served(p) \in 0..1
                  /\ Slots(p) \in Nat /\ Given(p) \in Nat)'
  BY DueParts, PTL
<1>2. QED
  BY <1>1

\* SEND: a request of p, or an answer to p, is one more.
LEMMA SendDue ==
  ASSUME TypeInv, current_process \in Pcb, NEW dest \in Pcb,
         NEW payload \in Requests \cup {Data, Reply}, SendMessage(dest, payload),
         NEW p \in Pcb \ {ssi_pcb}
  PROVE  /\ \/ Asked(p)' = Asked(p)
            \/ Asked(p)' = Asked(p) + 1 /\ dest = ssi_pcb /\ current_process = p
         /\ \/ Given(p)' = Given(p)
            \/ Given(p)' = Given(p) + 1 /\ dest = p /\ current_process = ssi_pcb
<1> DEFINE m == [m_sender |-> current_process, m_payload |-> payload]
<1>1. \/ UNCHANGED msg_inbox
      \/ msg_inbox' = [msg_inbox EXCEPT ![dest] = pushMessage(@, m)]
  BY DEF SendMessage
<1>2. m \in Message /\ m.m_sender = current_process
  BY MessageType
<1> HIDE DEF m
<1>3. CASE UNCHANGED msg_inbox
  BY <1>3 DEF Asked, Given
<1>4. CASE msg_inbox' = [msg_inbox EXCEPT ![dest] = pushMessage(@, m)]
  <2>1. /\ msg_inbox'[dest] = pushMessage(msg_inbox[dest], m)
        /\ \A q \in Pcb \ {dest} : msg_inbox'[q] = msg_inbox[q]
        /\ ssi_pcb \in Pcb /\ msg_inbox[dest] \in Seq(Message)
    BY <1>4, KernelAssumption DEF TypeInv, TypeOK
  <2>2. /\ current_process = p =>
             From(msg_inbox'[dest], p) = From(msg_inbox[dest], p) + 1
        /\ current_process # p => From(msg_inbox'[dest], p) = From(msg_inbox[dest], p)
    BY <1>2, <2>1, FromPush
  <2>3. /\ current_process = ssi_pcb =>
             From(msg_inbox'[dest], ssi_pcb) = From(msg_inbox[dest], ssi_pcb) + 1
        /\ current_process # ssi_pcb =>
             From(msg_inbox'[dest], ssi_pcb) = From(msg_inbox[dest], ssi_pcb)
    BY <1>2, <2>1, FromPush
  <2>4. QED
    BY <2>1, <2>2, <2>3 DEF Asked, Given
<1>5. QED
  BY <1>1, <1>3, <1>4

\* RECEIVE: the SSI takes a request, p takes a message, perhaps an answer.
LEMMA TakeDue ==
  ASSUME TypeInv, current_process \in Pcb, NEW from, NEW i, ReceiveTake(from, i),
         NEW p \in Pcb \ {ssi_pcb}
  PROVE  /\ Asked(p)' = IF current_process = ssi_pcb /\ msg_inbox[ssi_pcb][i].m_sender = p
                        THEN Asked(p) - 1 ELSE Asked(p)
         /\ Given(p)' = IF current_process = p /\ msg_inbox[p][i].m_sender = ssi_pcb
                        THEN Given(p) - 1 ELSE Given(p)
<1> DEFINE c == current_process
           old == msg_inbox[c]
<1>1. /\ i \in DOMAIN old /\ old \in Seq(Message)
      /\ msg_inbox'[c] = RemoveAt(old, i)
      /\ \A q \in Pcb \ {c} : msg_inbox'[q] = msg_inbox[q]
      /\ ssi_pcb \in Pcb
  BY KernelAssumption DEF ReceiveTake, Matches, TypeInv, TypeOK
<1> HIDE DEF old
<1>2. /\ old[i].m_sender = p => From(RemoveAt(old, i), p) = From(old, p) - 1
      /\ old[i].m_sender # p => From(RemoveAt(old, i), p) = From(old, p)
  BY <1>1, FromRemove
<1>3. /\ old[i].m_sender = ssi_pcb =>
           From(RemoveAt(old, i), ssi_pcb) = From(old, ssi_pcb) - 1
      /\ old[i].m_sender # ssi_pcb => From(RemoveAt(old, i), ssi_pcb) = From(old, ssi_pcb)
  BY <1>1, FromRemove
<1>4. QED
  BY <1>1, <1>2, <1>3 DEF Asked, Given, old

\* The slots that have p, after a step that clears some.
LEMMA ClearedDue ==
  ASSUME TypeInv, NEW p \in Pcb,
         \A d \in Dev : blocked_dev'[d] = p => blocked_dev[d] = p
  PROVE  Slots(p)' <= Slots(p)
<1> DEFINE old == {d \in Dev : blocked_dev[d] = p}
           new == {d \in Dev : blocked_dev'[d] = p}
<1>1. IsFiniteSet(Dev)
  BY KernelAssumption, FS_Interval DEF Dev
<1>2. IsFiniteSet(old) /\ new \in SUBSET old
  BY <1>1, FS_Subset
<1> HIDE DEF old, new
<1>3. Cardinality(new) <= Cardinality(old)
  BY <1>2, FS_Subset
<1>4. QED
  BY <1>3 DEF Slots, old, new

\* One slot given to a process.
LEMMA SlotTaken ==
  ASSUME TypeInv, NEW p \in Pcb, NEW d \in Dev, NEW s,
         blocked_dev' = [blocked_dev EXCEPT ![d] = s]
  PROVE  /\ s = p => Slots(p)' <= Slots(p) + 1
         /\ s # p => Slots(p)' = IF blocked_dev[d] = p THEN Slots(p) - 1 ELSE Slots(p)
<1> DEFINE old == {e \in Dev : blocked_dev[e] = p}
           new == {e \in Dev : blocked_dev'[e] = p}
<1>1. IsFiniteSet(Dev)
  BY WaitingType
<1>2. IsFiniteSet(old) /\ Cardinality(old) \in Nat
  BY <1>1, FS_Subset, FS_CardinalityType
<1>3. /\ s = p => new = old \cup {d}
      /\ s # p => new = old \ {d}
      /\ d \in old <=> blocked_dev[d] = p
  BY DEF TypeInv, TypeOK
<1> HIDE DEF old, new
<1>4. /\ Cardinality(old \cup {d}) = IF d \in old THEN Cardinality(old) ELSE Cardinality(old) + 1
      /\ Cardinality(old \ {d}) = IF d \in old THEN Cardinality(old) - 1 ELSE Cardinality(old)
  BY <1>2, FS_AddElement, FS_RemoveElement
<1>5. Slots(p) = Cardinality(old) /\ Slots(p)' = Cardinality(new)
  BY DEF Slots, old, new
<1>6. QED
  BY <1>2, <1>3, <1>4, <1>5
-----------------------------------------------------------------------------
\* What a step does to the account of p: nothing is added, and the register of
\* p is left alone unless p neither waits nor will wait for the SSI, or is
\* allocated; or p asks for something; or it receives an answer.
NothingAdded(p) ==
  /\ AnswersDue(p)' <= AnswersDue(p)
  /\ \/ reg_a1'[p] = reg_a1[p]
     \/ p = current_process /\ reg_a1[p] # ssi_pcb /\ reg_a1'[p] # ssi_pcb
     \/ p \in pcbFree_h

OneAsked(p) ==
  /\ p = current_process /\ reg_a1[p] = NORECV /\ reg_a1'[p] = ssi_pcb
  /\ AnswersDue(p)' <= AnswersDue(p) + 1

OneGot(p) ==
  /\ p = current_process /\ reg_a1[p] = ssi_pcb /\ reg_a1'[p] = NORECV
  /\ AnswersDue(p)' <= AnswersDue(p) - 1

\* Nothing is added when no part grows.
LEMMA DueFromParts ==
  ASSUME TypeInv, TypeInv', NEW p \in Pcb,
         Asked(p)' + Served(p)' + Slots(p)' + Given(p)'
           <= Asked(p) + Served(p) + Slots(p) + Given(p),
         \/ reg_a1'[p] = reg_a1[p]
         \/ p = current_process /\ reg_a1[p] # ssi_pcb /\ reg_a1'[p] # ssi_pcb
         \/ p \in pcbFree_h
  PROVE  NothingAdded(p)
<1>1. AnswersDue(p) = Asked(p) + Served(p) + Slots(p) + Given(p)
  BY DueParts
<1>2. AnswersDue(p)' = Asked(p)' + Served(p)' + Slots(p)' + Given(p)'
  BY NextDueParts
<1>3. QED
  BY <1>1, <1>2 DEF NothingAdded

\* The seven steps of the SSI add nothing: each moves the account of its sender
\* from one place to another.
LEMMA SsiDue ==
  ASSUME TypeInv, TypeInv', SsiApart, SsiStep, NEW p \in Pcb \ {ssi_pcb}
  PROVE  NothingAdded(p)
<1>1. /\ Asked(p) \in Nat /\ Served(p) \in 0..1 /\ Slots(p) \in Nat /\ Given(p) \in Nat
      /\ Asked(p)' \in Nat /\ Served(p)' \in 0..1 /\ Slots(p)' \in Nat /\ Given(p)' \in Nat
  BY DueParts, NextDueParts
<1>2. ssi_pcb \in Pcb /\ reg_a1 \in [Pcb -> Pcb \cup {NULL, NORECV}]
  BY KernelAssumption DEF TypeInv, TypeOK
<1> DEFINE Sum  == Asked(p) + Served(p) + Slots(p) + Given(p)
           Sum2 == Asked(p)' + Served(p)' + Slots(p)' + Given(p)'
<1>3. CASE SsiReceive
  <2>1. current_process = ssi_pcb /\ ssi.at = "receive" /\ UNCHANGED blocked_dev
    BY <1>3 DEF SsiReceive, devices
  <2>2. ASSUME NEW i \in DOMAIN msg_inbox[ssi_pcb], ReceiveTake(NULL, i), UNCHANGED reg_a1,
               ssi' = [at |-> "serve", sender |-> msg_inbox[ssi_pcb][i].m_sender,
                       request |-> msg_inbox[ssi_pcb][i].m_payload]
        PROVE  Sum2 <= Sum /\ reg_a1'[p] = reg_a1[p]
    <3>1. /\ Asked(p)' = IF msg_inbox[ssi_pcb][i].m_sender = p
                         THEN Asked(p) - 1 ELSE Asked(p)
          /\ Given(p)' = Given(p)
      BY <1>2, <2>1, <2>2, TakeDue
    <3>2. /\ Served(p) = 0
          /\ Served(p)' = IF msg_inbox[ssi_pcb][i].m_sender = p THEN 1 ELSE 0
      BY <2>1, <2>2 DEF Served
    <3>3. Slots(p)' = Slots(p)
      BY <2>1 DEF Slots
    <3>4. QED
      BY <1>1, <2>2, <3>1, <3>2, <3>3
  <2>3. CASE ReceiveBlock(NULL) /\ UNCHANGED ssi
    <3>1. UNCHANGED msg_inbox /\ reg_a1'[p] = reg_a1[p]
      BY <1>2, <2>1, <2>3 DEF ReceiveBlock, messages
    <3>2. /\ Asked(p)' = Asked(p) /\ Served(p)' = Served(p)
          /\ Slots(p)' = Slots(p) /\ Given(p)' = Given(p)
      BY <2>1, <2>3, <3>1 DEF Asked, Served, Slots, Given
    <3>3. QED
      BY <3>1, <3>2, DueFromParts, <1>1
  <2>4. QED
    BY <1>3, <2>2, <2>3, DueFromParts DEF SsiReceive
<1>4. CASE createProcess
  <2>1. /\ ssi.at = "serve" /\ ThenReply /\ UNCHANGED blocked_dev
    BY <1>4 DEF createProcess, Serving, devices
  <2>2. Served(p)' = Served(p) /\ Slots(p)' = Slots(p)
    BY <2>1 DEF ThenReply, Served, Slots, TypeInv, TypeOK, SsiState
  <2>3. CASE UNCHANGED <<msg_inbox, reg_a1>>
    <3>1. Asked(p)' = Asked(p) /\ Given(p)' = Given(p) /\ reg_a1'[p] = reg_a1[p]
      BY <2>3 DEF Asked, Given
    <3>2. QED
      BY <1>1, <2>2, <3>1, DueFromParts
  <2>4. ASSUME NEW q \in pcbFree_h, allocPcb(q) PROVE NothingAdded(p)
    <3>1. q # ssi_pcb /\ q \in Pcb
      BY DEF SsiApart, TypeInv, TypeOK
    <3>2. /\ msg_inbox'[q] = <<>> /\ \A r \in Pcb \ {q} : msg_inbox'[r] = msg_inbox[r]
          /\ \A r \in Pcb \ {q} : reg_a1'[r] = reg_a1[r]
      BY <1>2, <2>4, <3>1 DEF allocPcb, TypeInv, TypeOK
    <3>3. Asked(p)' = Asked(p)
      BY <1>2, <3>1, <3>2 DEF Asked
    <3>4. Given(p)' <= Given(p)
      BY <1>1, <3>2, FromEmpty DEF Given
    <3>5. reg_a1'[p] = reg_a1[p] \/ p \in pcbFree_h
      BY <3>2
    <3>6. QED
      BY <1>1, <2>2, <3>3, <3>4, <3>5, DueFromParts
  <2>5. QED
    BY <1>4, <2>3, <2>4 DEF createProcess
<1>5. CASE terminateProcess
  <2>1. /\ ssi.at = "serve" /\ (ThenReply \/ ThenReceive)
        /\ UNCHANGED <<msg_inbox, reg_a1>>
        /\ \A d \in Dev : blocked_dev'[d] = p => blocked_dev[d] = p
    <3>1. \A d \in Dev : blocked_dev'[d] = p => blocked_dev[d] = p
      BY <1>5, KernelAssumption DEF terminateProcess, FreeFamily
    <3>2. QED
      BY <1>5, <3>1 DEF terminateProcess, Serving, messages
  <2>2. Served(p)' = Served(p) \/ Served(p)' = 0
    <3>1. CASE ThenReply
      BY <2>1, <3>1 DEF ThenReply, Served, TypeInv, TypeOK, SsiState
    <3>2. CASE ThenReceive
      BY <2>1, <3>2 DEF ThenReceive, Idle, Served
    <3>3. QED
      BY <2>1, <3>1, <3>2
  <2>3. Slots(p)' <= Slots(p)
    BY <2>1, ClearedDue
  <2>4. Asked(p)' = Asked(p) /\ Given(p)' = Given(p) /\ reg_a1'[p] = reg_a1[p]
    BY <2>1 DEF Asked, Given
  <2>5. QED
    BY <1>1, <2>2, <2>3, <2>4, DueFromParts
<1>6. CASE doIO
  <2>1. /\ ssi.at = "serve" /\ ThenReceive /\ UNCHANGED <<msg_inbox, reg_a1>>
        /\ ssi.request.service = "DOIO"
        /\ blocked_dev' = [blocked_dev EXCEPT ![ssi.request.dev] = ssi.sender]
    BY <1>6 DEF doIO, Serving, messages
  <2>2. ssi.request.dev \in Dev
    BY <2>1, KernelAssumption DEF TypeInv, TypeOK, SsiState, Request, Data, Reply
  <2>3. /\ Served(p)' = 0
        /\ ssi.sender = p => Served(p) = 1
    BY <2>1 DEF ThenReceive, Idle, Served
  <2>4. /\ ssi.sender = p => Slots(p)' <= Slots(p) + 1
        /\ ssi.sender # p => Slots(p)' \in {Slots(p), Slots(p) - 1}
    BY <2>1, <2>2, SlotTaken
  <2>5. Asked(p)' = Asked(p) /\ Given(p)' = Given(p) /\ reg_a1'[p] = reg_a1[p]
    BY <2>1 DEF Asked, Given
  <2>6. QED
    BY <1>1, <2>3, <2>4, <2>5, DueFromParts
<1>7. CASE waitForClock \/ getData
  <2>1. /\ ssi.at = "serve" /\ (ThenReply \/ UNCHANGED ssi)
        /\ UNCHANGED <<msg_inbox, reg_a1, blocked_dev>>
    BY <1>7 DEF waitForClock, getData, Serving, messages, devices
  <2>2. /\ Asked(p)' = Asked(p) /\ Served(p)' = Served(p)
        /\ Slots(p)' = Slots(p) /\ Given(p)' = Given(p) /\ reg_a1'[p] = reg_a1[p]
    BY <2>1 DEF ThenReply, Asked, Served, Slots, Given, TypeInv, TypeOK, SsiState
  <2>3. QED
    BY <1>1, <2>2, DueFromParts
<1>8. CASE SsiReply
  <2>1. /\ current_process = ssi_pcb /\ ssi.at = "reply" /\ SendMessage(ssi.sender, Reply)
        /\ ThenReceive /\ UNCHANGED <<reg_a1, blocked_dev>>
        /\ ssi.sender \in Pcb /\ ssi.sender # ssi_pcb
    BY <1>8 DEF SsiReply, devices, TypeInv, Actors, SsiApart
  <2>2. /\ Asked(p)' = Asked(p)
        /\ \/ Given(p)' = Given(p)
           \/ Given(p)' = Given(p) + 1 /\ ssi.sender = p
    BY <1>2, <2>1, SendDue
  <2>3. /\ Served(p)' = 0 /\ Slots(p)' = Slots(p) /\ reg_a1'[p] = reg_a1[p]
        /\ ssi.sender = p => Served(p) = 1
    BY <2>1 DEF ThenReceive, Idle, Served, Slots
  <2>4. QED
    BY <1>1, <2>2, <2>3, DueFromParts
<1>9. QED
  BY <1>3, <1>4, <1>5, <1>6, <1>7, <1>8 DEF SsiStep

\* A client asks, receives, or adds nothing.
LEMMA ClientDue ==
  ASSUME TypeInv, TypeInv', NEW p \in Pcb \ {ssi_pcb},
         \/ \E dest \in Pcb \ {ssi_pcb} : ClientSend(dest)
         \/ \E r \in Requests : ClientRequest(r)
         \/ \E from \in Pcb \cup {NULL} : ClientReceive(from)
         \/ PassUp_Or_Die
  PROVE  NothingAdded(p) \/ OneAsked(p) \/ OneGot(p)
<1>1. /\ Asked(p) \in Nat /\ Served(p) \in 0..1 /\ Slots(p) \in Nat /\ Given(p) \in Nat
      /\ Asked(p)' \in Nat /\ Served(p)' \in 0..1 /\ Slots(p)' \in Nat /\ Given(p)' \in Nat
  BY DueParts, NextDueParts
<1>2. /\ AnswersDue(p) = Asked(p) + Served(p) + Slots(p) + Given(p)
      /\ AnswersDue(p)' = Asked(p)' + Served(p)' + Slots(p)' + Given(p)'
  BY DueParts, NextDueParts
<1>3. /\ ssi_pcb \in Pcb /\ reg_a1 \in [Pcb -> Pcb \cup {NULL, NORECV}]
      /\ ssi_pcb # NORECV /\ NULL # ssi_pcb
  BY KernelAssumption DEF TypeInv, TypeOK
<1>4. UNCHANGED <<ssi, blocked_dev>> => Served(p)' = Served(p) /\ Slots(p)' = Slots(p)
  BY DEF Served, Slots
<1>5. ASSUME NEW dest \in Pcb \ {ssi_pcb}, ClientSend(dest)
      PROVE  NothingAdded(p)
  <2>1. /\ current_process \in Pcb /\ current_process # ssi_pcb
        /\ SendMessage(dest, Data) /\ UNCHANGED <<ssi, blocked_dev, reg_a1>>
    BY <1>5 DEF ClientSend, UserCode, devices
  <2>2. Asked(p)' = Asked(p) /\ Given(p)' = Given(p)
    BY <2>1, SendDue
  <2>3. QED
    BY <1>1, <1>4, <2>1, <2>2, DueFromParts
<1>6. ASSUME NEW r \in Requests, ClientRequest(r)
      PROVE  NothingAdded(p) \/ OneAsked(p)
  <2>1. /\ current_process \in Pcb /\ current_process # ssi_pcb
        /\ reg_a1[current_process] = NORECV
        /\ SendMessage(ssi_pcb, r) /\ UNCHANGED <<ssi, blocked_dev>>
        /\ reg_a1' = [reg_a1 EXCEPT ![current_process] = ssi_pcb]
    BY <1>6 DEF ClientRequest, UserCode, devices
  <2>2. /\ \/ Asked(p)' = Asked(p)
           \/ Asked(p)' = Asked(p) + 1 /\ current_process = p
        /\ Given(p)' = Given(p)
    BY <1>3, <2>1, SendDue
  <2>3. CASE p = current_process
    BY <1>1, <1>2, <1>3, <1>4, <2>1, <2>2, <2>3 DEF OneAsked
  <2>4. CASE p # current_process
    BY <1>1, <1>3, <1>4, <2>1, <2>2, <2>4, DueFromParts
  <2>5. QED
    BY <2>3, <2>4
<1>7. ASSUME NEW from \in Pcb \cup {NULL}, ClientReceive(from)
      PROVE  NothingAdded(p) \/ OneGot(p)
  <2>1. /\ current_process \in Pcb /\ current_process # ssi_pcb
        /\ UNCHANGED <<ssi, blocked_dev>>
        /\ reg_a1[current_process] = NORECV => from # ssi_pcb
        /\ reg_a1[current_process] # NORECV => from = reg_a1[current_process]
    BY <1>7 DEF ClientReceive, devices
  <2>2. ASSUME NEW i \in DOMAIN msg_inbox[current_process], ReceiveTake(from, i),
               reg_a1' = [reg_a1 EXCEPT ![current_process] = NORECV]
        PROVE  NothingAdded(p) \/ OneGot(p)
    <3>1. /\ Asked(p)' = Asked(p)
          /\ Given(p)' = IF current_process = p /\ msg_inbox[p][i].m_sender = ssi_pcb
                         THEN Given(p) - 1 ELSE Given(p)
      BY <2>1, <2>2, TakeDue
    <3>2. CASE p # current_process
      BY <1>1, <1>3, <1>4, <2>1, <2>2, <3>1, <3>2, DueFromParts
    <3>3. CASE p = current_process /\ reg_a1[p] # ssi_pcb
      <4>1. reg_a1'[p] # ssi_pcb
        BY <1>3, <2>2, <3>3
      <4>2. QED
        BY <1>1, <1>4, <2>1, <3>1, <3>3, <4>1, DueFromParts
    <3>4. CASE p = current_process /\ reg_a1[p] = ssi_pcb
      <4>1. msg_inbox[p][i].m_sender = ssi_pcb
        BY <1>3, <2>1, <2>2, <3>4 DEF ReceiveTake, Matches
      <4>2. reg_a1'[p] = NORECV
        BY <1>3, <2>2, <3>4
      <4>3. QED
        BY <1>1, <1>2, <1>4, <2>1, <3>1, <3>4, <4>1, <4>2 DEF OneGot
    <3>5. QED
      BY <3>2, <3>3, <3>4
  <2>3. CASE ReceiveBlock(from)
    <3>1. UNCHANGED msg_inbox /\ reg_a1' = [reg_a1 EXCEPT ![current_process] = from]
      BY <2>3 DEF ReceiveBlock, messages
    <3>2. Asked(p)' = Asked(p) /\ Given(p)' = Given(p)
      BY <3>1 DEF Asked, Given
    <3>3. \/ reg_a1'[p] = reg_a1[p]
          \/ p = current_process /\ reg_a1[p] # ssi_pcb /\ reg_a1'[p] # ssi_pcb
      BY <1>3, <2>1, <3>1
    <3>4. QED
      BY <1>1, <1>4, <2>1, <3>2, <3>3, DueFromParts
  <2>4. QED
    BY <1>7, <2>2, <2>3 DEF ClientReceive
<1>8. CASE PassUp_Or_Die
  <2>1. UNCHANGED <<msg_inbox, ssi, reg_a1>>
    BY <1>8 DEF PassUp_Or_Die, messages
  <2>2. \A d \in Dev : blocked_dev'[d] = p => blocked_dev[d] = p
    BY <1>8, KernelAssumption DEF PassUp_Or_Die, FreeFamily
  <2>3. Slots(p)' <= Slots(p)
    BY <2>2, ClearedDue
  <2>4. Asked(p)' = Asked(p) /\ Given(p)' = Given(p) /\ Served(p)' = Served(p)
    BY <2>1 DEF Asked, Given, Served
  <2>5. QED
    BY <1>1, <2>1, <2>3, <2>4, DueFromParts
<1>9. QED
  BY <1>5, <1>6, <1>7, <1>8

\* An interrupt adds nothing: a device moves an answer from a slot to an inbox.
LEMMA InterruptDue ==
  ASSUME TypeInv, TypeInv', SsiApart, NEW p \in Pcb \ {ssi_pcb},
         \/ LocalTimerInterrupt
         \/ IntervalTimerInterrupt
         \/ \E d \in Dev : DeviceInterrupt(d) \/ TwoDevicesPending(d)
         \/ NullStored
         \/ UNCHANGED vars
  PROVE  NothingAdded(p)
<1>1. /\ Asked(p) \in Nat /\ Served(p) \in 0..1 /\ Slots(p) \in Nat /\ Given(p) \in Nat
      /\ Asked(p)' \in Nat /\ Served(p)' \in 0..1 /\ Slots(p)' \in Nat /\ Given(p)' \in Nat
  BY DueParts, NextDueParts
<1>2. CASE \/ LocalTimerInterrupt
           \/ IntervalTimerInterrupt
           \/ \E d \in Dev : TwoDevicesPending(d)
           \/ NullStored
           \/ UNCHANGED vars
  <2>1. UNCHANGED <<msg_inbox, ssi, reg_a1, blocked_dev>>
    BY <1>2 DEF LocalTimerInterrupt, IntervalTimerInterrupt, TwoDevicesPending, NullStored,
                vars, messages, devices
  <2>2. /\ Asked(p)' = Asked(p) /\ Given(p)' = Given(p)
        /\ Served(p)' = Served(p) /\ Slots(p)' = Slots(p)
    BY <2>1 DEF Asked, Given, Served, Slots
  <2>3. QED
    BY <1>1, <2>1, <2>2, DueFromParts
<1>3. ASSUME NEW d \in Dev, DeviceInterrupt(d)
      PROVE  NothingAdded(p)
  <2> DEFINE w == blocked_dev[d]
             m == [m_sender |-> ssi_pcb, m_payload |-> Reply]
  <2>1. /\ UNCHANGED <<ssi, reg_a1>>
        /\ blocked_dev' = [blocked_dev EXCEPT ![d] = NULL]
        /\ w = NULL => UNCHANGED msg_inbox
        /\ w # NULL => msg_inbox' = [msg_inbox EXCEPT ![w] = pushMessage(@, m)]
    BY <1>3 DEF DeviceInterrupt, messages
  <2>2. w \in Pcb \cup {NULL} /\ w # ssi_pcb /\ NULL # p /\ ssi_pcb \in Pcb
    BY KernelAssumption DEF TypeInv, TypeOK, SsiApart
  <2>3. Slots(p)' = IF w = p THEN Slots(p) - 1 ELSE Slots(p)
    BY <2>1, <2>2, SlotTaken
  <2>4. Served(p)' = Served(p)
    BY <2>1 DEF Served
  <2>5. /\ Asked(p)' = Asked(p)
        /\ w = p => Given(p)' = Given(p) + 1
        /\ w # p => Given(p)' = Given(p)
    <3>1. m \in Message /\ m.m_sender = ssi_pcb
      BY <2>2 DEF Message
    <3> HIDE DEF m
    <3>2. CASE w = NULL
      BY <2>1, <2>2, <3>2 DEF Asked, Given
    <3>3. CASE w # NULL
      <4>1. /\ \A q \in Pcb \ {w} : msg_inbox'[q] = msg_inbox[q]
            /\ msg_inbox'[w] = pushMessage(msg_inbox[w], m)
            /\ msg_inbox[w] \in Seq(Message)
        BY <2>1, <2>2, <3>3 DEF TypeInv, TypeOK
      <4>2. From(msg_inbox'[w], ssi_pcb) = From(msg_inbox[w], ssi_pcb) + 1
        BY <3>1, <4>1, FromPush
      <4>3. QED
        BY <2>2, <4>1, <4>2 DEF Asked, Given
    <3>4. QED
      BY <3>2, <3>3
  <2>6. reg_a1'[p] = reg_a1[p]
    BY <2>1
  <2> HIDE DEF w
  <2>7. QED
    BY <1>1, <2>3, <2>4, <2>5, <2>6, DueFromParts
<1>4. QED
  BY <1>2, <1>3

\* A step, seen from p.
LEMMA StepDue ==
  ASSUME TypeInv, TypeInv', SsiApart, [Next]_vars, NEW p \in Pcb \ {ssi_pcb}
  PROVE  NothingAdded(p) \/ OneAsked(p) \/ OneGot(p)
BY NextCases, SsiDue, ClientDue, InterruptDue

\* The account of a process stays right while the process lives.
LEMMA AccountKept ==
  ASSUME TypeInv, TypeInv', SsiApart, [Next]_vars,
         NEW p \in (Live \cap Live') \ {ssi_pcb}, AnswersMatch(p)
  PROVE  AnswersMatch(p)'
<1>1. p \in Pcb \ {ssi_pcb} /\ p \notin pcbFree_h /\ NORECV # ssi_pcb
  BY KernelAssumption DEF Live
<1>2. AnswersDue(p) \in Nat /\ AnswersDue(p)' \in Nat
  <2>1. AnswersDue(p) \in Nat
    BY <1>1, DueParts
  <2>2. AnswersDue(p)' \in Nat
    BY <1>1, NextDueParts
  <2>3. QED
    BY <2>1, <2>2
<1>3. CASE NothingAdded(p)
  BY <1>1, <1>2, <1>3 DEF NothingAdded, AnswersMatch
<1>4. CASE OneAsked(p)
  BY <1>1, <1>2, <1>4 DEF OneAsked, AnswersMatch
<1>5. CASE OneGot(p)
  BY <1>1, <1>2, <1>5 DEF OneGot, AnswersMatch
<1>6. QED
  BY <1>1, <1>3, <1>4, <1>5, StepDue

\* Whoever starts with no answer coming never has more than the one it waits
\* for, as long as it lives: services, devices, preemption and terminations of
\* others included.
THEOREM AnswersMixByReuseOnly == Spec => AnswersMixOnlyByReuse
<1>1. IInv /\ [Next]_vars => [AnswersKept]_vars
  <2> SUFFICES ASSUME IInv, [Next]_vars PROVE AnswersKept
    OBVIOUS
  <2>1. TypeInv /\ TypeInv' /\ SsiApart
    BY NextTypes DEF IInv
  <2>2. QED
    BY <2>1, AccountKept DEF AnswersKept
<1>2. QED
  BY <1>1, Invariant, PTL DEF Spec, AnswersMixOnlyByReuse
-----------------------------------------------------------------------------
\* Clients that do not reuse PCBs: nobody asks to be terminated or to terminate,
\* and only test has no support structure, so only test can die of a trap.
Lasting ==
  \A r \in Requests : /\ r.service \notin {"TERMPROCESS", "OTHER"}
                      /\ r.service = "CREATEPROCESS" => r.support

\* Nothing is on its way to a free PCB, and a trap kills test or nobody, while
\* test lives.
Unused ==
  test_pcb \in Live =>
    /\ \A p \in pcbFree_h : AnswersDue(p) = 0
    /\ \A p \in Live \ {ssi_pcb, test_pcb} : p_supportStruct[p]

AllMatch == \A p \in Live \ {ssi_pcb} : AnswersMatch(p)

LastingInv == Intact => AllMatch /\ Unused

\* The steps that allocate or free a PCB.
LEMMA PoolSteps ==
  ASSUME [Next]_vars
  PROVE  \/ UNCHANGED <<pcbFree_h, p_supportStruct>>
         \/ createProcess \/ terminateProcess \/ PassUp_Or_Die
<1>1. CASE SsiStep
  BY <1>1 DEF SsiStep, SsiReceive, ReceiveTake, ReceiveBlock, doIO, waitForClock, getData,
              SsiReply, SendMessage, queues, tree
<1>2. CASE \/ \E dest \in Pcb \ {ssi_pcb} : ClientSend(dest)
           \/ \E r \in Requests : ClientRequest(r)
           \/ \E from \in Pcb \cup {NULL} : ClientReceive(from)
  BY <1>2 DEF ClientSend, ClientRequest, ClientReceive, SendMessage, ReceiveTake, ReceiveBlock,
              queues, tree
<1>3. CASE \/ LocalTimerInterrupt
           \/ IntervalTimerInterrupt
           \/ \E d \in Dev : DeviceInterrupt(d) \/ TwoDevicesPending(d)
           \/ NullStored
           \/ UNCHANGED vars
  BY <1>3 DEF LocalTimerInterrupt, IntervalTimerInterrupt, DeviceInterrupt, TwoDevicesPending,
              NullStored, vars, queues, tree
<1>4. QED
  BY <1>1, <1>2, <1>3, NextCases

\* When test is gone, all are gone but the SSI (ssi.c:43).
LEMMA AfterTest ==
  ASSUME TypeInv, TreeIntact, test_pcb \in pcbFree_h,
         Live \ {ssi_pcb} \subseteq Descendants(test_pcb)
  PROVE  Live \subseteq {ssi_pcb}
<1>1. /\ {test_pcb} \in SUBSET Pcb /\ test_pcb \notin Live
      /\ p_parent \in [Pcb -> Pcb \cup {NULL}] /\ NULL \notin Pcb
  BY KernelAssumption DEF Live, TypeInv, TypeOK
<1>2. \A c \in Pcb : p_parent[c] # test_pcb
  BY <1>1 DEF TreeIntact
<1>3. Descendants(test_pcb) \subseteq {test_pcb}
  BY <1>1, <1>2 DEF Descendants
<1>4. QED
  BY <1>1, <1>3

\* A PCB is allocated for a process that lives, or the tree is broken.
LEMMA AllocatedForTheLiving ==
  ASSUME TypeInv, TypeInv', TreeIntact', createProcess, SsiApart,
         NEW p \in pcbFree_h, p \notin pcbFree_h'
  PROVE  /\ ssi.sender \in Live \ {ssi_pcb}
         /\ reg_a1'[p] = NORECV /\ p_supportStruct'[p] = ssi.request.support
         /\ pcbFree_h' = pcbFree_h \ {p}
         /\ p_supportStruct' = [p_supportStruct EXCEPT ![p] = ssi.request.support]
<1>1. PICK q \in pcbFree_h :
        /\ allocPcb(q)
        /\ p_parent' = insertChild(ssi.sender, q)
        /\ p_supportStruct' = [p_supportStruct EXCEPT ![q] = ssi.request.support]
  BY DEF createProcess, queues
<1>2. q = p /\ p \in Pcb
  BY <1>1 DEF allocPcb, TypeInv, TypeOK
<1>3. /\ pcbFree_h' = pcbFree_h \ {p} /\ reg_a1'[p] = NORECV
      /\ p_parent'[p] = ssi.sender /\ p_supportStruct'[p] = ssi.request.support
      /\ ssi.sender \in Pcb /\ ssi.sender # ssi_pcb /\ ssi.sender # NULL
  BY <1>1, <1>2, KernelAssumption
     DEF allocPcb, insertChild, createProcess, Serving, SsiApart, TypeInv, TypeOK, Actors
<1>4. ssi.sender # p /\ ssi.sender \in Live'
  BY <1>2, <1>3 DEF TreeIntact
<1>5. QED
  BY <1>1, <1>2, <1>3, <1>4 DEF Live

\* With lasting clients, each step keeps every account right.
LEMMA NextLasting ==
  ASSUME Lasting, AInv, LastingInv, [Next]_vars
  PROVE  LastingInv'
<1> SUFFICES ASSUME Intact' PROVE AllMatch' /\ Unused'
  BY DEF LastingInv
<1>1. TypeInv /\ TypeInv' /\ SsiApart /\ TreeIntact' /\ ssi_pcb \in Pcb /\ test_pcb \in Pcb
  BY NextTypes, KernelAssumption DEF AInv, IInv, Intact
<1>2. Intact
  <2>1. ASSUME ~Intact PROVE FALSE
    <3>1. UNCHANGED vars
      BY <2>1 DEF Next, Slice, Tick, Device, Running, Stopped
    <3>2. ~Intact'
      BY <2>1, <3>1 DEF vars, queues, tree, Intact, QueuesIntact, TreeIntact, InLists, Live
    <3>3. QED
      BY <3>2
  <2>2. QED
    BY <2>1
<1>3. Accounts /\ AllMatch /\ Unused /\ TreeIntact /\ QueuesIntact
  BY <1>2 DEF AInv, LastingInv, Intact
<1>4. ~terminateProcess
  BY DEF terminateProcess, Serving, Lasting, TypeInv, AInv, IInv, TypeOK, SsiState, Data, Reply
<1>5. test_pcb \in pcbFree_h => Live \subseteq {ssi_pcb}
  BY <1>1, <1>3, AfterTest DEF Accounts
<1>6. ASSUME NEW p \in pcbFree_h, p \notin pcbFree_h'
      PROVE  /\ test_pcb \in Live /\ p # test_pcb /\ createProcess
             /\ reg_a1'[p] = NORECV /\ p_supportStruct'[p]
             /\ pcbFree_h' = pcbFree_h \ {p}
  <2>1. createProcess
    BY <1>4, <1>6, PoolSteps DEF PassUp_Or_Die, FreeFamily
  <2>2. /\ ssi.sender \in Live \ {ssi_pcb}
        /\ reg_a1'[p] = NORECV /\ p_supportStruct'[p] = ssi.request.support
        /\ pcbFree_h' = pcbFree_h \ {p}
    BY <1>1, <1>6, <2>1, AllocatedForTheLiving
  <2>3. ssi.request \in Requests /\ ssi.request.service = "CREATEPROCESS"
    <3>1. ssi.request.service = "CREATEPROCESS"
      BY <2>1 DEF createProcess, Serving
    <3>2. Data.service = "DATA" /\ Reply.service = "REPLY"
      BY DEF Data, Reply
    <3>3. ssi.request \in Requests \cup {Data, Reply}
      BY <1>1, <2>1 DEF TypeInv, TypeOK, SsiState, createProcess, Serving
    <3>4. QED
      BY <3>1, <3>2, <3>3
  <2>4. ssi.request.support
    BY <2>3 DEF Lasting
  <2>5. test_pcb \in Live
    BY <1>1, <1>5, <2>2 DEF Live
  <2>6. QED
    BY <1>6, <2>1, <2>2, <2>4, <2>5 DEF Live
<1>7. ASSUME NEW p \in pcbFree_h, AnswersDue(p) = 0
      PROVE  AnswersDue(p)' = 0
  <2>1. p \in Pcb \ {ssi_pcb} /\ p # current_process
    BY <1>1, <1>3 DEF SsiApart, QueuesIntact, TypeInv, TypeOK
  <2>2. AnswersDue(p)' <= AnswersDue(p)
    BY <1>1, <2>1, StepDue DEF NothingAdded, OneAsked, OneGot
  <2>3. AnswersDue(p)' \in Nat
    BY <1>1, <2>1, NextDueParts
  <2>4. QED
    BY <1>7, <2>2, <2>3
<1>8. AllMatch'
  <2> SUFFICES ASSUME NEW p \in Live' \ {ssi_pcb} PROVE AnswersMatch(p)'
    BY DEF AllMatch
  <2>1. CASE p \in Live
    BY <1>1, <1>3, <2>1, AccountKept DEF AllMatch
  <2>2. CASE p \notin Live
    <3>1. p \in pcbFree_h /\ p \notin pcbFree_h'
      BY <2>2 DEF Live
    <3>2. AnswersDue(p) = 0 /\ reg_a1'[p] = NORECV
      BY <1>3, <1>6, <3>1 DEF Unused
    <3>3. AnswersDue(p)' = 0
      BY <1>7, <3>1, <3>2
    <3>4. QED
      BY <3>2, <3>3, KernelAssumption DEF AnswersMatch
  <2>3. QED
    BY <2>1, <2>2
<1>9. Unused'
  <2> SUFFICES ASSUME test_pcb \in Live'
               PROVE  /\ \A p \in pcbFree_h' : AnswersDue(p)' = 0
                      /\ \A p \in Live' \ {ssi_pcb, test_pcb} : p_supportStruct'[p]
    BY DEF Unused
  <2>1. test_pcb \in Live
    <3>1. CASE test_pcb \in pcbFree_h
      BY <1>6, <3>1 DEF Live
    <3>2. QED
      BY <1>1, <3>1 DEF Live
  <2>2. ~PassUp_Or_Die
    <3>1. ASSUME PassUp_Or_Die PROVE FALSE
      <4>1. /\ current_process \in Pcb \ {ssi_pcb} /\ ~p_supportStruct[current_process]
            /\ pcbFree_h' = pcbFree_h \cup Descendants(current_process)
        BY <3>1 DEF PassUp_Or_Die, UserCode, FreeFamily
      <4>2. current_process \in Live
        BY <1>3, <4>1 DEF QueuesIntact, Live
      <4>3. current_process = test_pcb
        BY <1>3, <2>1, <4>1, <4>2 DEF Unused
      <4>4. test_pcb \in pcbFree_h'
        BY <1>1, <4>1, <4>3, Families
      <4>5. QED
        BY <4>4 DEF Live
    <3>2. QED
      BY <3>1
  <2>3. CASE pcbFree_h' = pcbFree_h /\ UNCHANGED p_supportStruct
    BY <1>3, <1>7, <2>1, <2>3 DEF Unused, Live
  <2>4. CASE createProcess /\ pcbFree_h' # pcbFree_h
    <3>1. PICK q \in pcbFree_h : allocPcb(q)
      BY <2>4 DEF createProcess, queues
    <3>2. q \notin pcbFree_h'
      BY <3>1 DEF allocPcb
    <3>3. /\ pcbFree_h' = pcbFree_h \ {q}
          /\ p_supportStruct' = [p_supportStruct EXCEPT ![q] = ssi.request.support]
      BY <1>1, <2>4, <3>2, AllocatedForTheLiving
    <3>4. p_supportStruct'[q]
      BY <1>6, <3>2
    <3>5. ASSUME NEW p \in Live' \ {ssi_pcb, test_pcb} PROVE p_supportStruct'[p]
      <4>1. CASE p = q
        BY <3>4, <4>1
      <4>2. CASE p # q
        <5>1. p \in Live \ {ssi_pcb, test_pcb} /\ p \in Pcb
          BY <3>3, <4>2 DEF Live
        <5>2. p_supportStruct'[p] = p_supportStruct[p]
          BY <1>1, <3>3, <4>2, <5>1 DEF TypeInv, TypeOK
        <5>3. QED
          BY <1>3, <2>1, <5>1, <5>2 DEF Unused
      <4>3. QED
        BY <4>1, <4>2
    <3>6. \A p \in pcbFree_h' : AnswersDue(p)' = 0
      BY <1>3, <1>7, <2>1, <3>3 DEF Unused
    <3>7. QED
      BY <3>5, <3>6
  <2>5. createProcess /\ pcbFree_h' = pcbFree_h => UNCHANGED p_supportStruct
    BY DEF createProcess, allocPcb, tree
  <2>6. QED
    BY <1>4, <2>2, <2>3, <2>4, <2>5, PoolSteps
<1>10. QED
  BY <1>8, <1>9

\* main() leaves nothing on its way to anybody.
LEMMA InitLasting == Init => LastingInv
<1> SUFFICES ASSUME Init PROVE AllMatch /\ Unused
  BY DEF LastingInv
<1>1. TypeInv
  BY InitTypes
<1>2. ASSUME NEW p \in Pcb PROVE AnswersDue(p) = 0
  <2>1. /\ msg_inbox[p] = <<>> /\ msg_inbox[ssi_pcb] = <<>> /\ ssi.at = "receive"
        /\ \A d \in Dev : blocked_dev[d] # p
    BY KernelAssumption DEF Init, Idle
  <2>2. Asked(p) = 0 /\ Given(p) = 0
    BY <2>1, FromEmpty DEF Asked, Given
  <2>3. Served(p) = 0
    BY <2>1 DEF Served
  <2>4. Slots(p) = 0
    <3>1. {d \in Dev : blocked_dev[d] = p} = {}
      BY <2>1
    <3>2. QED
      BY <3>1, FS_EmptySet DEF Slots
  <2>5. QED
    BY <1>1, <2>2, <2>3, <2>4, DueParts
<1>3. Live = {ssi_pcb, test_pcb} /\ pcbFree_h \subseteq Pcb
  BY KernelAssumption DEF Init, Live
<1>4. AllMatch
  BY <1>2, <1>3, KernelAssumption DEF AllMatch, AnswersMatch, Live
<1>5. QED
  BY <1>2, <1>3, <1>4 DEF Unused

\* While no PCB is reused, no answer is taken for the answer to a later
\* request, for any number of processes, cells and devices.
THEOREM OneAnswer ==
  ASSUME Lasting
  PROVE  Spec => []OneAnswerPerRequest
<1>1. AInv /\ LastingInv /\ [Next]_vars => LastingInv'
  BY NextLasting
<1>2. LastingInv => OneAnswerPerRequest
  BY DEF LastingInv, AllMatch, OneAnswerPerRequest
<1>3. QED
  BY <1>1, <1>2, InitLasting, AccountsHold, PTL DEF Spec
=============================================================================
