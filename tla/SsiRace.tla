------------------------------ MODULE SsiRace ------------------------------
(***************************************************************************)
(* The ready queue, with its pointers, shared by the SSI and the handlers   *)
(* of the nucleus.  The handlers run with interrupts disabled; the SSI is a *)
(* process with interrupts enabled (initial.c:59), so the five steps of its *)
(* insertProcQ, a read and four stores, are steps of their own here, and    *)
(* any process may run between two of them.  The service is CREATEPROCESS.  *)
(* A PCB stands for its p_list.                                             *)
(***************************************************************************)
EXTENDS ListX, Functions

CONSTANTS
  Pcb,        \* without NULL
  ssi_pcb, test_pcb

ready_queue == "ready_queue"
blocked_msg == "blocked_msg"
Node == Pcb \cup {ready_queue, blocked_msg}

VARIABLES
  heap,
  pcbFree_h,
  current_process,
  asked,   \* the clients that have asked for a process and have no answer yet
  ssi      \* where the SSI is, with its client, the new PCB and the prev of
           \* __list_add

raceVars == <<heap, pcbFree_h, current_process, asked, ssi>>

RaceInit ==
  LET alone == [next |-> [n \in Node |-> n], prev |-> [n \in Node |-> n]]
  IN  /\ heap = list_add_tail(alone, test_pcb, ready_queue)
      /\ pcbFree_h = Pcb \ {ssi_pcb, test_pcb}
      /\ current_process = ssi_pcb
      /\ asked = {}
      /\ ssi = [at |-> "receive", client |-> NULL, new |-> NULL, prev |-> NULL]

IsIn(p, head) == p \in Range(Entries(heap, head))

\* The scheduler, on the lists of the heap h.  With an empty queue it stops.
scheduler(h) ==
  IF list_empty(h, ready_queue)
    THEN heap' = h /\ current_process' = NULL
    ELSE /\ current_process' = h.next[ready_queue]
         /\ heap' = list_del(h, h.next[ready_queue])

\* A blocked process is readied.
Awaken(p) ==
  heap' = IF IsIn(p, blocked_msg)
            THEN list_add_tail(list_del(heap, p), p, ready_queue) ELSE heap

\* The local timer interrupts any process, the SSI included.
LocalTimer ==
  /\ current_process # NULL
  /\ scheduler(list_add_tail(heap, current_process, ready_queue))
  /\ UNCHANGED <<pcbFree_h, asked, ssi>>

\* The SEND of a request.
ClientSend(p) ==
  /\ current_process = p /\ p # ssi_pcb /\ p \notin asked
  /\ asked' = asked \cup {p}
  /\ Awaken(ssi_pcb)
  /\ UNCHANGED <<pcbFree_h, current_process, ssi>>

\* The RECEIVE of an answer that has not come.
ClientReceive(p) ==
  /\ current_process = p /\ p # ssi_pcb /\ p \in asked
  /\ scheduler(list_add_tail(heap, p, blocked_msg))
  /\ UNCHANGED <<pcbFree_h, asked, ssi>>
-----------------------------------------------------------------------------
SsiMoves(from, to) ==
  /\ current_process = ssi_pcb
  /\ ssi.at = from
  /\ ssi' = [ssi EXCEPT !.at = to]

SsiReceive ==
  /\ current_process = ssi_pcb /\ ssi.at = "receive"
  /\ \/ /\ asked = {}
        /\ scheduler(list_add_tail(heap, ssi_pcb, blocked_msg))
        /\ UNCHANGED <<pcbFree_h, ssi>>
     \/ \E p \in asked, n \in pcbFree_h :
          /\ ssi' = [at |-> "argument", client |-> p, new |-> n, prev |-> NULL]
          /\ pcbFree_h' = pcbFree_h \ {n}
          /\ UNCHANGED <<heap, current_process>>
     \/ \E p \in asked :
          /\ pcbFree_h = {}
          /\ ssi' = [at |-> "reply", client |-> p, new |-> NULL, prev |-> NULL]
          /\ UNCHANGED <<heap, pcbFree_h, current_process>>
  /\ UNCHANGED asked

\* list_add_tail reads head->prev to call __list_add.
SsiArgument ==
  /\ current_process = ssi_pcb /\ ssi.at = "argument"
  /\ ssi' = [ssi EXCEPT !.at = "next->prev", !.prev = heap.prev[ready_queue]]
  /\ UNCHANGED <<heap, pcbFree_h, current_process, asked>>

\* The four stores of __list_add.
SsiStore ==
  /\ \/ /\ SsiMoves("next->prev", "new->next")
        /\ heap' = [heap EXCEPT !.prev[ready_queue] = ssi.new]
     \/ /\ SsiMoves("new->next", "new->prev")
        /\ heap' = [heap EXCEPT !.next[ssi.new] = ready_queue]
     \/ /\ SsiMoves("new->prev", "prev->next")
        /\ heap' = [heap EXCEPT !.prev[ssi.new] = ssi.prev]
     \/ /\ SsiMoves("prev->next", "reply")
        /\ heap' = [heap EXCEPT !.next[ssi.prev] = ssi.new]
  /\ UNCHANGED <<pcbFree_h, current_process, asked>>

SsiReply ==
  /\ SsiMoves("reply", "receive")
  /\ asked' = asked \ {ssi.client}
  /\ Awaken(ssi.client)
  /\ UNCHANGED <<pcbFree_h, current_process>>

RaceNext ==
  \/ LocalTimer
  \/ \E p \in Pcb : ClientSend(p) \/ ClientReceive(p)
  \/ SsiReceive \/ SsiArgument \/ SsiStore \/ SsiReply

RaceSpec == RaceInit /\ [][RaceNext]_raceVars
-----------------------------------------------------------------------------
\* pcb.c:67, "inserisci il pcb puntato da p nella coda di processi puntata da
\* head": when insertProcQ of the SSI is done, the new process is in the ready
\* queue.
InsertedIsQueued ==
  [][ssi.at = "prev->next" /\ ssi'.at = "reply" => IsIn(ssi.new, ready_queue)']_raceVars
=============================================================================
