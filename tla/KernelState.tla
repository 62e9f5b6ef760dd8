---------------------------- MODULE KernelState ----------------------------
(***************************************************************************)
(* The state of the MicroPandOS nucleus (phase 1 and phase 2), shared by    *)
(* the modules of the nucleus: the PCB pool, the process queues and the     *)
(* process tree (phase1/pcb.c), the message pool and the inboxes            *)
(* (phase1/msg.c), the globals of phase2/initial.c, and what the rest of    *)
(* the machine (processes, devices) contributes to it.                      *)
(*                                                                         *)
(* Abstractions of data:                                                    *)
(*  - pcbFree_h and blocked_msg are only searched, or used as a pool, so    *)
(*    they are sets: which free PCB allocPcb returns is left open;          *)
(*  - the cells of msgTable are interchangeable: msgFree_h is their number; *)
(*  - p_child and p_sib are determined by p_parent, up to the order in      *)
(*    which a family is freed, which the set pcbFree_h does not tell apart; *)
(*  - a process is the RECEIVE it is executing (reg_a1) or "user code".     *)
(***************************************************************************)
EXTENDS Integers, Sequences, FiniteSets, Functions

CONSTANTS
  Pcb,          \* pcbTable: MAXPROC process control blocks
  ssi_pcb,      \* the PCB main() allocates for SSIServer
  test_pcb,     \* the PCB main() allocates for test (called "second" there)
  MAXMESSAGES,  \* the cells of msgTable
  NDEV,         \* the device slots of blocked_dev in use
  Line,         \* the interrupt line of each of these devices
  Requests,     \* the service requests the processes of a model issue
  MaxSoft,      \* bound: no DOIO request at this soft_blocked_count
  NULL,         \* the NULL pointer, and ANYMESSAGE (both are 0)
  NORECV        \* reg_a1 of a process that is not executing a RECEIVE

Dev == 0..(NDEV - 1)

\* ssi_payload_t: the service code and the part of its argument that matters.
\* GETTIME also stands for GETSUPPORTPTR: both only read the sender's PCB.
\* OTHER is any service code SSIServer does not know.
Request ==
       [service: {"CREATEPROCESS"}, support: BOOLEAN]
  \cup [service: {"TERMPROCESS"}, target: (Pcb \ {ssi_pcb}) \cup {NULL}]
  \cup [service: {"DOIO"}, dev: Dev]
  \cup [service: {"GETPROCESSID"}, parent: BOOLEAN]
  \cup [service: {"CLOCKWAIT", "GETTIME", "OTHER"}]

Data  == [service |-> "DATA"]   \* the payload of a message between processes
Reply == [service |-> "REPLY"]  \* the payload of an answer of the SSI

Message == [m_sender: Pcb, m_payload: Requests \cup {Data, Reply}]

ASSUME KernelAssumption ==
  /\ IsFiniteSet(Pcb)
  /\ {ssi_pcb, test_pcb} \subseteq Pcb /\ ssi_pcb # test_pcb
  /\ NULL \notin Pcb /\ NORECV \notin Pcb \cup {NULL}
  /\ MAXMESSAGES \in Nat /\ NDEV \in Nat /\ Line \in [Dev -> 0..4] /\ MaxSoft \in Nat
  /\ Requests \subseteq Request
-----------------------------------------------------------------------------
VARIABLES
  pcbFree_h,            \* the free PCBs
  ready_queue,          \* FIFO of the processes waiting for the processor
  blocked_msg,          \* the processes blocked in RECEIVE
  blocked_pseudo_clock, \* FIFO of the processes waiting for the clock tick
  current_process,      \* the running process, or NULL
  p_parent,             \* the process tree
  p_supportStruct,      \* TRUE: the process has a support structure
  reg_a1,               \* whom the RECEIVE in progress waits for, or NORECV
  msg_inbox,            \* the inbox of every PCB, newest message first
  msgFree_h,            \* the number of free message cells
  process_count, soft_blocked_count,
  blocked_dev,          \* the process waiting for each device, or NULL
  dev_busy,             \* the devices executing a command
  ssi,                  \* where SSIServer is in its loop, and for whom
  cpu                   \* what the processor does: see CpuState

queues   == <<pcbFree_h, ready_queue, blocked_msg, blocked_pseudo_clock>>
tree     == <<p_parent, p_supportStruct>>
messages == <<msg_inbox, msgFree_h>>
devices  == <<blocked_dev, dev_busy>>
counters == <<process_count, soft_blocked_count>>
vars     == <<queues, tree, messages, devices, counters,
              current_process, reg_a1, ssi, cpu>>

\* "run": a process executes.  "wait": WAIT(), for an interrupt.  "halt" and
\* "panic": HALT(), PANIC().  "null": the kernel or the SSI has dereferenced
\* NULL.  "lost": scheduler() has returned to a caller that has nothing to do.
CpuState == {"run", "wait", "halt", "panic", "null", "lost"}

SsiState == [at: {"receive", "serve", "reply"}, sender: Pcb \cup {NULL},
             request: Requests \cup {Data, Reply}]

Idle == [at |-> "receive", sender |-> NULL, request |-> Data]

\* Every variable has its type.  It says, beyond that, that no cell of msgTable
\* is handed out twice: msgFree_h never becomes negative (msg.c:23).
TypeOK ==
  /\ pcbFree_h \subseteq Pcb /\ blocked_msg \subseteq Pcb
  /\ ready_queue \in Seq(Pcb) /\ blocked_pseudo_clock \in Seq(Pcb)
  /\ current_process \in Pcb \cup {NULL}
  /\ p_parent \in [Pcb -> Pcb \cup {NULL}]
  /\ p_supportStruct \in [Pcb -> BOOLEAN]
  /\ reg_a1 \in [Pcb -> Pcb \cup {NULL, NORECV}]
  /\ msg_inbox \in [Pcb -> Seq(Message)]
  /\ msgFree_h \in Nat
  /\ process_count \in Int /\ soft_blocked_count \in Int
  /\ blocked_dev \in [Dev -> Pcb \cup {NULL}]
  /\ dev_busy \subseteq Dev
  /\ ssi \in SsiState
  /\ cpu \in CpuState
-----------------------------------------------------------------------------
\* Operations of phase1/pcb.c and phase1/msg.c on these data.

Live == Pcb \ pcbFree_h

\* Mutant: the members of D stay in the queue.
WithoutNone(q, D) == {q}

\* The queues that result from taking the members of D out of the queue q, in
\* the order they have in q (one outProcQ per member): exactly one queue.
Without(q, D) ==
  LET rest == Range(q) \ D
  IN  {t \in Bijection(1..Cardinality(rest), rest) :
         \A i, j \in DOMAIN t : \A a, b \in DOMAIN q :
           (i < j /\ q[a] = t[i] /\ q[b] = t[j]) => a < b}

\* p and everything below it in the process tree: what the recursion of
\* terminateProcess over removeChild reaches.
Descendants(p) ==
  {q \in Pcb : \A S \in SUBSET Pcb :
     (p \in S /\ \A c \in Pcb : p_parent[c] \in S => c \in S) => q \in S}

\* Mutant: popMessage ignores the sender.
MatchesAny(box, from) == DOMAIN box

\* The messages popMessage may take for a receiver that waits for "from".
Matches(box, from) == {i \in DOMAIN box : from = NULL \/ box[i].m_sender = from}

\* Mutant: the new message takes the place of the others.
pushMessageOnly(box, m) == <<m>>

pushMessage(box, m) == <<m>> \o box

\* Mutant: list_add for list_add_tail.
insertProcQFront(q, p) == <<p>> \o q

insertProcQ(q, p) == Append(q, p)

\* Mutant: the child is never hung under its parent.
insertChildAside(prnt, p) == p_parent

insertChild(prnt, p) == [p_parent EXCEPT ![p] = prnt]

RemoveAt(box, i) == SubSeq(box, 1, i - 1) \o SubSeq(box, i + 1, Len(box))
=============================================================================
