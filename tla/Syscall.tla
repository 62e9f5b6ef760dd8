------------------------------ MODULE Syscall ------------------------------
(***************************************************************************)
(* phase2/syscall.c: the two system calls of the nucleus, executed for      *)
(* current_process.                                                         *)
(***************************************************************************)
EXTENDS Scheduler

\* Mutant: allocMsg hands out a cell it does not have.
OutOfMessagesUnchecked == msgFree_h < 0

\* SendMessage is about to store through the NULL that allocMsg returned.
OutOfMessages == msgFree_h = 0

NullStored ==
  /\ OutOfMessages
  /\ cpu' = "null"
  /\ UNCHANGED <<queues, tree, messages, devices, counters, current_process,
                 reg_a1, ssi>>

\* Mutant: free PCBs count as destinations.
ExistsAnywhere(dest) == dest \in Pcb

\* What SendMessage asks of the lists: ListIsIn on three of them, and
\* current_process; and whom a blocked process is waiting for.
Exists(dest) ==
  dest \in blocked_msg \cup Range(blocked_pseudo_clock) \cup Range(ready_queue)
            \cup {current_process}

\* Mutant: ANYMESSAGE is forgotten.
AwaitsSender(dest, sender) == reg_a1[dest] = sender

Awaits(dest, sender) == reg_a1[dest] \in {sender, NULL}

\* SendMessage(dest, payload).  A destination that is blocked in a RECEIVE
\* from this sender, or from anyone, becomes ready.  A destination that is in
\* pcbFree_h (DEST_NOT_EXIST), or in no list at all (MSGNOGOOD), gets nothing
\* and the cell is given back.
SendMessage(dest, payload) ==
  LET m       == [m_sender |-> current_process, m_payload |-> payload]
      exists  == Exists(dest)
      awaited == dest \in blocked_msg /\ Awaits(dest, current_process)
  IN  /\ ~OutOfMessages
      /\ msg_inbox' = IF exists
                      THEN [msg_inbox EXCEPT ![dest] = pushMessage(@, m)]
                      ELSE msg_inbox
      /\ msgFree_h' = IF exists THEN msgFree_h - 1 ELSE msgFree_h
      /\ blocked_msg' = IF awaited THEN blocked_msg \ {dest} ELSE blocked_msg
      /\ ready_queue' = IF awaited THEN insertProcQ(ready_queue, dest) ELSE ready_queue
      /\ UNCHANGED <<pcbFree_h, blocked_pseudo_clock, current_process, cpu>>

\* The two ways out of ReceiveMessage(from).  The first matching message is
\* taken and its cell freed, and the process goes on; or the process is blocked, to
\* execute the same RECEIVE again when it is next dispatched.
ReceiveTake(from, i) ==
  /\ i \in Matches(msg_inbox[current_process], from)
  /\ \A j \in Matches(msg_inbox[current_process], from) : i <= j
  /\ msg_inbox' = [msg_inbox EXCEPT ![current_process] = RemoveAt(@, i)]
  /\ msgFree_h' = msgFree_h + 1
  /\ UNCHANGED <<queues, current_process, cpu>>

ReceiveBlock(from) ==
  /\ Matches(msg_inbox[current_process], from) = {}
  /\ blocked_msg' = blocked_msg \cup {current_process}
  /\ reg_a1' = [reg_a1 EXCEPT ![current_process] = from]
  /\ Resume(NULL, ready_queue, process_count, soft_blocked_count)
  /\ UNCHANGED <<pcbFree_h, blocked_pseudo_clock, messages>>
=============================================================================
