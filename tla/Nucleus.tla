------------------------------ MODULE Nucleus ------------------------------
(***************************************************************************)
(* The nucleus of MicroPandOS (phase 1 and phase 2) under the processes it  *)
(* runs.  A process other than the SSI is modelled by the nucleus calls it  *)
(* can make: it may send to any process, receive, ask the SSI for a service *)
(* (a SEND followed by a RECEIVE from ssi_pcb, as every client in           *)
(* phase2/p2test.c and phase3 does), or trap.                               *)
(*                                                                         *)
(* Every list of the kernel runs through the one p_list field of a PCB.     *)
(* When the code inserts a PCB that is already in a list, both lists are    *)
(* corrupted and what follows depends on the pointers; the same holds when  *)
(* a child is hung under a free PCB.  This model ends at such a step (see   *)
(* Intact) and shows which steps they are.                                  *)
(***************************************************************************)
EXTENDS Interrupts

InLists == Range(ready_queue) \cup Range(blocked_pseudo_clock) \cup blocked_msg

\* The lists can be followed: each PCB is in one list at most, and once.
QueuesIntact ==
  /\ IsInjective(ready_queue) /\ IsInjective(blocked_pseudo_clock)
  /\ Range(ready_queue) \cap Range(blocked_pseudo_clock) = {}
  /\ blocked_msg \cap (Range(ready_queue) \cup Range(blocked_pseudo_clock)) = {}
  /\ pcbFree_h \cap InLists = {}
  /\ current_process \notin InLists \cup pcbFree_h

\* The tree can be followed: a parent is a process, and not its own child.
TreeIntact ==
  \A p \in Pcb : p_parent[p] # NULL => p_parent[p] \in Live /\ p_parent[p] # p

Intact == QueuesIntact /\ TreeIntact
-----------------------------------------------------------------------------
\* main(), up to the dispatch of the first process.
Init ==
  /\ pcbFree_h = Pcb \ {ssi_pcb, test_pcb}
  /\ ready_queue = <<test_pcb>>
  /\ blocked_msg = {}
  /\ blocked_pseudo_clock = <<>>
  /\ current_process = ssi_pcb
  /\ p_parent = [p \in Pcb |-> NULL]
  /\ p_supportStruct = [p \in Pcb |-> FALSE]
  /\ reg_a1 = [p \in Pcb |-> NORECV]
  /\ msg_inbox = [p \in Pcb |-> <<>>]
  /\ msgFree_h = MAXMESSAGES
  /\ process_count = 2
  /\ soft_blocked_count = 0
  /\ blocked_dev = [d \in Dev |-> NULL]
  /\ dev_busy = {}
  /\ ssi = Idle
  /\ cpu = "run"
-----------------------------------------------------------------------------
\* The running process is not the SSI and executes user code, not a RECEIVE.
UserCode ==
  /\ current_process \in Pcb \ {ssi_pcb}
  /\ reg_a1[current_process] = NORECV

ClientSend(dest) ==
  /\ UserCode
  /\ SendMessage(dest, Data)
  /\ UNCHANGED <<tree, devices, counters, reg_a1, ssi>>

\* SEND of a request to the SSI; the RECEIVE that follows is a later step.
ClientRequest(request) ==
  /\ UserCode
  /\ request.service = "DOIO" => soft_blocked_count < MaxSoft
  /\ SendMessage(ssi_pcb, request)
  /\ reg_a1' = [reg_a1 EXCEPT ![current_process] = ssi_pcb]
  /\ UNCHANGED <<tree, devices, counters, ssi>>

\* RECEIVE: of the answer of the SSI after a request, of anything else
\* otherwise.
ClientReceive(from) ==
  /\ current_process \in Pcb \ {ssi_pcb}
  /\ IF reg_a1[current_process] = NORECV
     THEN from # ssi_pcb
     ELSE from = reg_a1[current_process]
  /\ \/ /\ \E i \in DOMAIN msg_inbox[current_process] : ReceiveTake(from, i)
        /\ reg_a1' = [reg_a1 EXCEPT ![current_process] = NORECV]
     \/ ReceiveBlock(from)
  /\ UNCHANGED <<tree, devices, counters, ssi>>

\* A program trap, a TLB exception or an unknown SYSCALL of a process without
\* support structure.  (With one, the process goes on in its own handler.)
PassUp_Or_Die ==
  LET D == Descendants(current_process)
  IN  /\ UserCode
      /\ ~p_supportStruct[current_process]
      /\ FreeFamily(D)
      /\ \E rq \in Without(ready_queue, D) :
           Resume(NULL, rq, process_count', soft_blocked_count')
      /\ UNCHANGED <<p_supportStruct, messages, dev_busy, reg_a1, ssi>>

\* SEND when msgTable is exhausted, by a process or by the SSI.
SendFails ==
  /\ UserCode \/ (current_process = ssi_pcb /\ ssi.at = "reply")
  /\ NullStored
-----------------------------------------------------------------------------
Process ==
  \/ SsiStep
  \/ \E p \in Pcb \ {ssi_pcb} : ClientSend(p)
  \/ \E r \in Requests : ClientRequest(r)
  \/ \E from \in Pcb \cup {NULL} : ClientReceive(from)
  \/ PassUp_Or_Die
  \/ SendFails

Running == Intact /\ cpu \in {"run", "wait"}

\* Mutant: WAIT() is entered with the interval timer masked.
TickRunning == Running /\ cpu = "run" /\ IntervalTimerInterrupt

Tick      == Running /\ IntervalTimerInterrupt
Slice     == Running /\ LocalTimerInterrupt
Device(d) == /\ Running
             /\ \/ DeviceInterrupt(d)
                \/ TwoDevicesPending(d)
                \/ d \in dev_busy /\ NullStored

\* The machine has stopped, or the model has: see Intact.
Stopped == ~Running /\ UNCHANGED vars

Next ==
  \/ Running /\ cpu = "run" /\ Process
  \/ Slice
  \/ Tick
  \/ \E d \in Dev : Device(d)
  \/ Stopped

\* The three sources of interrupts are hardware: an enabled interrupt comes.
Fairness ==
  /\ WF_vars(Slice)
  /\ WF_vars(Tick)
  /\ \A d \in Dev : WF_vars(Device(d))

Spec == Init /\ [][Next]_vars /\ Fairness
=============================================================================
