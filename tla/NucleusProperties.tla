------------------------- MODULE NucleusProperties -------------------------
(***************************************************************************)
(* What the nucleus promises.  The state properties speak of the states in  *)
(* which the lists and the tree can be followed (Intact).                   *)
(***************************************************************************)
EXTENDS Nucleus

\* The requests that are served too late: the requester was preempted between
\* its SEND and its RECEIVE and is not in blocked_msg yet, or is not there any
\* more, or has been terminated.
LateRequest ==
  \/ Serving({"CLOCKWAIT"}) /\ ssi.sender \notin blocked_msg
  \/ Serving({"CREATEPROCESS"}) /\ ssi.sender \in pcbFree_h
  \/ \E d \in Dev : /\ blocked_dev[d] \notin blocked_msg \cup {NULL}
                    /\ blocked_dev'[d] = NULL

\* With services that are one step each, the kernel's lists and tree are only
\* ever corrupted by a late request: waitForClock, createProcess and the device
\* interrupt insert without looking (ssi.c:86, ssi.c:23, interrupts.c:108), and
\* every other combination of system calls, services, interrupts and terminations
\* keeps each PCB in one list and each child under a live parent.
\* The late requests themselves are exempted here, not caught; and SsiRace shows
\* one more way, an interrupt inside a service of the SSI.
BreakOnlyByLateRequest == [][Intact /\ ~Intact' => LateRequest]_vars

\* No PCB is ever lost: each is free, ready, blocked in RECEIVE, waiting for
\* the clock or running.  (MSGNOGOOD, "in no list", is never the answer.)
NothingLost == Intact => Pcb \subseteq pcbFree_h \cup InLists \cup {current_process}

\* No lost wakeup: no process sleeps in RECEIVE on an inbox that holds a
\* message it waits for, whatever SEND, device answer or clock tick raced
\* with it (syscall.c:35-45 decides by list membership and reg_a1).
NoLostWakeup ==
  Intact => \A p \in blocked_msg : Matches(msg_inbox[p], reg_a1[p]) = {}

\* process_count counts the processes, through creation, recursive
\* termination and traps: scheduler() halts or panics by it.
ProcessCountExact == Intact => process_count = Cardinality(Live)

\* The processes soft_blocked_count is meant to count.
Waiting ==
  Len(blocked_pseudo_clock) + Cardinality({d \in Dev : blocked_dev[d] # NULL})

\* soft_blocked_count follows the processes that wait for the clock or for a
\* device, with one exception: a DOIO for a slot that is occupied adds one
\* for ever (ssi.c:79-80).
SoftCountDriftsOnlyByOverwrite ==
  [][LET drift == soft_blocked_count - Waiting
     IN  \/ ~Intact' \/ drift' = drift
         \/ /\ drift' = drift + 1
            /\ Serving({"DOIO"}) /\ blocked_dev[ssi.request.dev] # NULL]_vars

\* scheduler() stops the machine only when it should: HALT when only the SSI
\* is left, idle (scheduler.c:13), PANIC when every process waits for a
\* message nobody can send (scheduler.c:24) or in getDevNum, with two devices
\* pending on one line (interrupts.c:37); and it never falls through.
SchedulerVerdict ==
  Intact =>
    /\ cpu = "halt" => Live = {ssi_pcb} /\ ssi_pcb \in blocked_msg
    /\ cpu = "panic" =>
         \/ Live = blocked_msg /\ blocked_dev = [d \in Dev |-> NULL]
         \/ \E d, e \in dev_busy : d # e /\ Line[d] = Line[e]
    /\ cpu # "lost"

\* Children die with their parents: every process but the SSI descends from
\* test, so none survives the end of test, and none escapes the cascade of
\* terminateProcess (ssi.c:43).
FamilyOfTest == Intact => Live \ {ssi_pcb} \subseteq Descendants(test_pcb)

\* The message cells in inboxes and in msgFree_h.
Cells == msgFree_h + SumFunction([p \in Pcb |-> Len(msg_inbox[p])])

\* A message cell is lost in one way only: allocPcb re-initialises the inbox
\* of a terminated process that had unread messages (pcb.c:49).
CellsLostOnlyByReuse ==
  [][Cells' # Cells =>
       \E p \in pcbFree_h \ pcbFree_h' :
         msg_inbox[p] # <<>> /\ Cells' = Cells - Len(msg_inbox[p])]_vars

\* No SEND and no answer of SSIServer or the clock reaches the inbox of a free PCB
\* (p2test.c:389 expects DEST_NOT_EXIST).  The response of a device does, and only
\* that: while the slot of the device still names a process that was terminated,
\* because its DOIO was served afterwards, or because terminateProcess clears one
\* slot and it had two (interrupts.c:103 does not look where the process is).
DeadReceiveOnlyFromDevices ==
  [][\A p \in pcbFree_h \cap pcbFree_h' : msg_inbox'[p] # msg_inbox[p] =>
       \E d \in Dev : blocked_dev[d] = p /\ blocked_dev'[d] = NULL]_vars

\* The answers of the SSI on their way to p: requests not served yet, the one
\* being served, commands of devices, and answers in p's inbox.
AnswersDue(p) ==
    Cardinality({i \in DOMAIN msg_inbox[ssi_pcb] : msg_inbox[ssi_pcb][i].m_sender = p})
  + Cardinality({s \in {ssi} : s.at # "receive" /\ s.sender = p})
  + Cardinality({d \in Dev : blocked_dev[d] = p})
  + Cardinality({i \in DOMAIN msg_inbox[p] : msg_inbox[p][i].m_sender = ssi_pcb})

\* A process that waits for the SSI has one answer coming at most, and any
\* other process none.
AnswersMatch(p) == AnswersDue(p) <= IF reg_a1[p] = ssi_pcb THEN 1 ELSE 0

\* While no PCB is reused, no answer is taken for the answer to a later
\* request, whichever of SSIServer, the clock and a device gives it.
OneAnswerPerRequest == Intact => \A p \in Live \ {ssi_pcb} : AnswersMatch(p)

\* When PCBs are reused (allocPcb, pcb.c:22, of a process that was terminated
\* with a request under way), the new owner may have an answer coming that it
\* has not asked for.  That is the only way to one: whoever starts with none has
\* one coming at most when it waits for one, and none otherwise, while it lives.
AnswersKept ==
  Intact' => \A p \in (Live \cap Live') \ {ssi_pcb} : AnswersMatch(p) => AnswersMatch(p)'

AnswersMixOnlyByReuse == [][AnswersKept]_vars
-----------------------------------------------------------------------------
\* Round robin: a ready process is dispatched (or terminated).
ReadyIsDispatched ==
  \A p \in Pcb : p \in Range(ready_queue) ~> (p \notin Range(ready_queue) \/ ~Running)

\* Every wait for the clock or for a device comes to its end.
SoftBlockedWakes ==
  /\ \A p \in Pcb : p \in Range(blocked_pseudo_clock)
                      ~> (p \notin Range(blocked_pseudo_clock) \/ ~Running)
  /\ \A d \in Dev : blocked_dev[d] # NULL ~> (blocked_dev[d] = NULL \/ ~Running)
-----------------------------------------------------------------------------
\* interrupts.c:100, "Manda la risposta al processo in attesa": the process
\* that gets the response of a device is waiting for it.
DeviceAnswersTheWaiting ==
  [][\A d \in Dev : blocked_dev[d] # NULL /\ blocked_dev'[d] = NULL /\ dev_busy' # dev_busy
       => blocked_dev[d] \in blocked_msg]_vars

\* scheduler.c:20-25: the processor waits only for something that can come,
\* and a deadlock leads to PANIC.
WaitForSomething == cpu = "wait" => blocked_pseudo_clock # <<>> \/ dev_busy # {}
=============================================================================
