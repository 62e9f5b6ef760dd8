-------------------------------- MODULE Ssi --------------------------------
(***************************************************************************)
(* phase2/ssi.c: the System Service Interface, a process that receives the  *)
(* requests of the other processes, changes the kernel's data for them and  *)
(* answers.  It is preempted like any other process: between receiving a    *)
(* request and serving it, and between serving it and answering, anything   *)
(* may happen.  The body of one service is one step here.                   *)
(***************************************************************************)
EXTENDS Syscall

\* The first slot of each member of D: the one the loop of terminateProcess
\* over blocked_dev clears before its break.
Cleared(D) ==
  {d \in Dev : /\ blocked_dev[d] \in D
               /\ \A e \in Dev : e < d => blocked_dev[e] # blocked_dev[d]}

\* Mutant: only the target of the termination is counted.
CountWithoutOne(D) == process_count - 1

\* The counters when the members of D are gone.
CountWithout(D) == process_count - Cardinality(D)

\* Mutant: the slots of blocked_dev that are cleared are not counted.
SoftWithoutSlots(D) ==
  soft_blocked_count - Cardinality(D \cap Range(blocked_pseudo_clock))

SoftWithout(D) ==
  soft_blocked_count - Cardinality(Cleared(D))
                     - Cardinality(D \cap Range(blocked_pseudo_clock))

\* terminateProcess for a target that exists: the target and its descendants
\* D leave every list, the tree and the device slots, and their PCBs are
\* free.  Their inboxes are left as they are.  The ready queue is the
\* caller's, which may go on to the scheduler.
FreeFamily(D) ==
  /\ pcbFree_h' = pcbFree_h \cup D
  /\ blocked_msg' = blocked_msg \ D
  /\ blocked_pseudo_clock' \in Without(blocked_pseudo_clock, D)
  /\ p_parent' = [p \in Pcb |-> IF p \in D THEN NULL ELSE p_parent[p]]
  /\ blocked_dev' = [d \in Dev |-> IF d \in Cleared(D) THEN NULL ELSE blocked_dev[d]]
  /\ process_count' = CountWithout(D)
  /\ soft_blocked_count' = SoftWithout(D)

Serving(services) ==
  /\ current_process = ssi_pcb
  /\ ssi.at = "serve"
  /\ ssi.request.service \in services

ThenReply   == ssi' = [ssi EXCEPT !.at = "reply"]
ThenReceive == ssi' = Idle
-----------------------------------------------------------------------------
\* RECEIVE of the next request: take one, or block.
SsiReceive ==
  /\ current_process = ssi_pcb
  /\ ssi.at = "receive"
  /\ \/ \E i \in DOMAIN msg_inbox[ssi_pcb] :
          /\ ReceiveTake(NULL, i)
          /\ ssi' = [at |-> "serve", sender |-> msg_inbox[ssi_pcb][i].m_sender,
                     request |-> msg_inbox[ssi_pcb][i].m_payload]
          /\ UNCHANGED reg_a1
     \/ ReceiveBlock(NULL) /\ UNCHANGED ssi
  /\ UNCHANGED <<tree, devices, counters>>

\* allocPcb of p: an empty inbox, and registers that belong to no RECEIVE.
\* (p_parent of a free PCB is NULL already: see FreeFamily.)
allocPcb(p) ==
  /\ pcbFree_h' = pcbFree_h \ {p}
  /\ msg_inbox' = [msg_inbox EXCEPT ![p] = <<>>]
  /\ reg_a1' = [reg_a1 EXCEPT ![p] = NORECV]

\* createProcess: without a free PCB the answer is NOPROC and nothing else
\* happens; otherwise the new process is ready, and a child of the sender.
createProcess ==
  /\ Serving({"CREATEPROCESS"})
  /\ \/ pcbFree_h = {} /\ UNCHANGED <<queues, tree, msg_inbox, reg_a1, process_count>>
     \/ \E to_allocate \in pcbFree_h :
          /\ allocPcb(to_allocate)
          /\ p_parent' = insertChild(ssi.sender, to_allocate)
          /\ p_supportStruct' = [p_supportStruct EXCEPT ![to_allocate] = ssi.request.support]
          /\ ready_queue' = insertProcQ(ready_queue, to_allocate)
          /\ process_count' = process_count + 1
          /\ UNCHANGED <<blocked_msg, blocked_pseudo_clock>>
  /\ ThenReply
  /\ UNCHANGED <<msgFree_h, devices, soft_blocked_count, current_process, cpu>>

\* The process terminateProcess is to terminate: the one given, or the sender,
\* which is also what an unknown service code leads to.
Target ==
  IF ssi.request.service = "TERMPROCESS" /\ ssi.request.target # NULL
  THEN ssi.request.target
  ELSE ssi.sender

terminateProcess ==
  /\ Serving({"TERMPROCESS", "OTHER"})
  /\ IF Target \in pcbFree_h
     THEN UNCHANGED <<queues, p_parent, blocked_dev, counters>>
     ELSE /\ FreeFamily(Descendants(Target))
          /\ ready_queue' \in Without(ready_queue, Descendants(Target))
  /\ IF ssi.request.service = "TERMPROCESS" /\ ssi.request.target # NULL
     THEN ThenReply
     ELSE ThenReceive
  /\ UNCHANGED <<p_supportStruct, messages, dev_busy, reg_a1, current_process, cpu>>

\* doIO: record the sender in the device's slot, whoever is in it, and start
\* the command.  The interrupt handler answers.
doIO ==
  /\ Serving({"DOIO"})
  /\ blocked_dev' = [blocked_dev EXCEPT ![ssi.request.dev] = ssi.sender]
  /\ soft_blocked_count' = soft_blocked_count + 1
  /\ dev_busy' = dev_busy \cup {ssi.request.dev}
  /\ ThenReceive
  /\ UNCHANGED <<queues, tree, messages, process_count, current_process, reg_a1, cpu>>

\* waitForClock: the sender moves from blocked_msg, if it is there, to the
\* queue of the pseudo-clock.
waitForClock ==
  /\ Serving({"CLOCKWAIT"})
  /\ blocked_msg' = blocked_msg \ {ssi.sender}
  /\ blocked_pseudo_clock' = insertProcQ(blocked_pseudo_clock, ssi.sender)
  /\ soft_blocked_count' = soft_blocked_count + 1
  /\ ThenReply
  /\ UNCHANGED <<pcbFree_h, ready_queue, tree, messages, devices, process_count,
                 current_process, reg_a1, cpu>>

\* getCPUTime, getSupportData and getProcessID of the sender itself change
\* nothing; getProcessID of the parent reads through p_parent.
getData ==
  /\ Serving({"GETTIME", "GETPROCESSID"})
  /\ IF /\ ssi.request.service = "GETPROCESSID" /\ ssi.request.parent
        /\ p_parent[ssi.sender] = NULL
     THEN cpu' = "null" /\ UNCHANGED ssi
     ELSE ThenReply /\ UNCHANGED cpu
  /\ UNCHANGED <<queues, tree, messages, devices, counters, current_process, reg_a1>>

\* SEND of the answer.
SsiReply ==
  /\ current_process = ssi_pcb
  /\ ssi.at = "reply"
  /\ SendMessage(ssi.sender, Reply)
  /\ ThenReceive
  /\ UNCHANGED <<tree, devices, counters, reg_a1>>

SsiStep == \/ SsiReceive \/ createProcess \/ terminateProcess \/ doIO
           \/ waitForClock \/ getData \/ SsiReply
=============================================================================
