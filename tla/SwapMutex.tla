----------------------------- MODULE SwapMutex -----------------------------
(***************************************************************************)
(* The swap mutex of phase 3: swapMutexProcess (vmSupport.c), a process     *)
(* that grants the swap pool by message, the two ends of the pager that     *)
(* talk to it, and TrapExceptionHandlerSupport (exceptionsSupport.c), which *)
(* gives the mutex back for a process that traps.                           *)
(*                                                                         *)
(* The messages to and from the mutex carry no payload.  A process may be   *)
(* preempted between any two steps.  Client stands for the processes with a *)
(* support structure: user processes and SSTs.  A Careless client is one    *)
(* that may have a message it has not received: a user process that has     *)
(* sent a request to its SST and, before it receives the answer, faults or  *)
(* traps, as any program may between print.c:19 and 20.                     *)
(***************************************************************************)
EXTENDS Messages, FiniteSets

CONSTANTS
  Client, swap_table_pcb,
  Careless,     \* the clients that may have an unread answer of their SST
  sst           \* the sender of these answers

ASSUME MutexAssumption ==
  /\ swap_table_pcb \notin Client \cup {NULL, sst}
  /\ NULL \notin Client \cup {sst} /\ sst \notin Client
  /\ Careless \subseteq Client

VARIABLES
  process_locking_the_swap_mutex, \* the global
  inbox,   \* the inboxes of the clients and of the mutex
  server,  \* where swapMutexProcess is in its loop, and its local "sender"
  pc,      \* where each client is
  paging   \* the clients that execute pager()

clients == <<pc, paging>>
mutexVars == <<process_locking_the_swap_mutex, inbox, server, clients>>

Process == Client \cup {swap_table_pcb}

\* "out": user code, or anything but the pager.  "asking": between SEND and
\* RECEIVE at the start of the pager.  "in": with the swap pool.  "releasing":
\* between SEND and RECEIVE at its end.  The others are the stages of
\* TrapExceptionHandlerSupport, called from the pager or for another trap.
ClientAt == {"out", "asking", "in", "releasing",
             "trapped", "unlock", "unlocking", "report", "reporting"}

MutexTypeOK ==
  /\ process_locking_the_swap_mutex \in Client \cup {NULL}
  /\ inbox \in [Process -> Seq([m_sender: Process \cup {sst}, m_payload: {0}])]
  /\ server \in [at: {"receive", "assign", "answer"}, sender: Client \cup {NULL}]
  /\ pc \in [Client -> ClientAt]
  /\ paging \subseteq Client

MutexInit ==
  /\ process_locking_the_swap_mutex = NULL
  /\ inbox = [p \in Process |-> <<>>]
  /\ server = [at |-> "receive", sender |-> NULL]
  /\ pc = [c \in Client |-> "out"]
  /\ paging = {}
-----------------------------------------------------------------------------
Send(p, q) == inbox' = [inbox EXCEPT ![q] = Push(@, Msg(p, 0))]

Receive(p, from, i) ==
  /\ Takes(inbox[p], from, i)
  /\ inbox' = [inbox EXCEPT ![p] = Rest(@, i)]

Goes(c, from, to) ==
  /\ pc[c] = from
  /\ pc' = [pc EXCEPT ![c] = to]

\* Mutant: the mutex does not insist on the holder.
AwaitsAnyone == NULL

\* Whom swapMutexProcess receives from: the holder, if there is one; from
\* anyone otherwise.  (process_locking_the_swap_mutex is NULL then, and so is
\* ANYMESSAGE.)
Awaited == process_locking_the_swap_mutex

MutexReceive ==
  /\ server.at = "receive"
  /\ \E i \in DOMAIN inbox[swap_table_pcb] :
       /\ Receive(swap_table_pcb, Awaited, i)
       /\ server' = [at |-> "assign", sender |-> inbox[swap_table_pcb][i].m_sender]
  /\ UNCHANGED <<process_locking_the_swap_mutex, clients>>

\* Mutant: a released mutex goes on to be held.
MutexAssignKept ==
  /\ server.at = "assign"
  /\ process_locking_the_swap_mutex' = server.sender
  /\ server' = [server EXCEPT !.at = "answer"]
  /\ UNCHANGED <<inbox, clients>>

MutexAssign ==
  /\ server.at = "assign"
  /\ process_locking_the_swap_mutex' =
       IF process_locking_the_swap_mutex # NULL THEN NULL ELSE server.sender
  /\ server' = [server EXCEPT !.at = "answer"]
  /\ UNCHANGED <<inbox, clients>>

MutexAnswer ==
  /\ server.at = "answer"
  /\ Send(swap_table_pcb, server.sender)
  /\ server' = [at |-> "receive", sender |-> NULL]
  /\ UNCHANGED <<process_locking_the_swap_mutex, clients>>

swapMutexProcess == MutexReceive \/ MutexAssign \/ MutexAnswer
-----------------------------------------------------------------------------
Quiet == UNCHANGED <<process_locking_the_swap_mutex, inbox, server>>

ToMutex(c, from, to) ==
  /\ Goes(c, from, to)
  /\ Send(c, swap_table_pcb)
  /\ UNCHANGED <<process_locking_the_swap_mutex, server>>

FromMutex(c, from, to) ==
  /\ Goes(c, from, to)
  /\ \E i \in DOMAIN inbox[c] : Receive(c, swap_table_pcb, i)
  /\ UNCHANGED <<process_locking_the_swap_mutex, server>>

\* pager(): SEND and RECEIVE before it uses the swap pool, and after.  The
\* last step is its end, LDST to the process that had the page fault.
Request(c) == ToMutex(c, "out", "asking") /\ paging' = paging \cup {c}
Obtain(c)  == FromMutex(c, "asking", "in") /\ UNCHANGED paging
Release(c) == ToMutex(c, "in", "releasing") /\ UNCHANGED paging
Resume(c)  == FromMutex(c, "releasing", "out") /\ paging' = paging \ {c}

\* The calls of TrapExceptionHandlerSupport: from the pager, when a transfer
\* has failed, and from GeneralExceptionHandlerSupport, for any other trap.
Fail(c) == Goes(c, "in", "trapped") /\ Quiet /\ UNCHANGED paging
Trap(c) == Goes(c, "out", "trapped") /\ Quiet /\ UNCHANGED paging

\* Mutant: the mutex is not released for a process that traps.
TrapTestNever(c) == Goes(c, "trapped", "report") /\ Quiet /\ UNCHANGED paging

\* Mutant: the mutex is released whoever holds it.
TrapTestAlways(c) == Goes(c, "trapped", "unlock") /\ Quiet /\ UNCHANGED paging

\* TrapExceptionHandlerSupport: release the mutex if this process holds it,
\* ask the SST for the end, and wait for a message from PARENT, that is, from
\* anyone.
TrapTest(c) ==
  /\ Goes(c, "trapped",
          IF process_locking_the_swap_mutex = c THEN "unlock" ELSE "report")
  /\ Quiet /\ UNCHANGED paging
TrapUnlock(c)   == ToMutex(c, "unlock", "unlocking") /\ UNCHANGED paging
TrapUnlocked(c) == FromMutex(c, "unlocking", "report") /\ UNCHANGED paging
TrapReport(c)   == Goes(c, "report", "reporting") /\ Quiet /\ UNCHANGED paging

\* When there is a message, the handler returns, and a pager that has called
\* it goes on.  (GeneralExceptionHandlerSupport goes round in its LDST.)
TrapReturn(c) ==
  /\ c \in paging
  /\ Goes(c, "reporting", "in")
  /\ \E i \in DOMAIN inbox[c] : Receive(c, NULL, i)
  /\ UNCHANGED <<process_locking_the_swap_mutex, server, paging>>

\* The SST of a careless client answers a request while the client is elsewhere;
\* the client may receive it later.
Stray(c) ==
  /\ c \in Careless
  /\ \A i \in DOMAIN inbox[c] : inbox[c][i].m_sender # sst
  /\ inbox' = [inbox EXCEPT ![c] = Push(@, Msg(sst, 0))]
  /\ UNCHANGED <<process_locking_the_swap_mutex, server, clients>>

UserReceive(c) ==
  /\ pc[c] = "out"
  /\ \E i \in DOMAIN inbox[c] : Receive(c, NULL, i)
  /\ UNCHANGED <<process_locking_the_swap_mutex, server, clients>>
-----------------------------------------------------------------------------
\* What a client does once it is in the pager or in the trap handler.
Proceeds(c) == \/ Obtain(c) \/ Release(c) \/ Fail(c) \/ Resume(c)
               \/ TrapTest(c) \/ TrapUnlock(c) \/ TrapUnlocked(c)
               \/ TrapReport(c) \/ TrapReturn(c)

\* What it may do or not do.
May(c) == Request(c) \/ Trap(c) \/ Stray(c) \/ UserReceive(c)

MutexNext == swapMutexProcess \/ \E c \in Client : Proceeds(c) \/ May(c)

MutexSafe == MutexInit /\ [][MutexNext]_mutexVars

\* The nucleus dispatches every ready process again and again, and the
\* transfers of a process inside the pager come to an end.
MutexSpec ==
  /\ MutexSafe
  /\ WF_mutexVars(swapMutexProcess)
  /\ \A c \in Client : WF_mutexVars(Proceeds(c))
-----------------------------------------------------------------------------
Honest == Client \ Careless

\* The clients that use the swap pool, or have not given it back yet.
Inside(c) == pc[c] \in {"in", "unlock"} \/ (pc[c] = "trapped" /\ c \in paging)

\* Among the clients that are not careless, at most one is between the RECEIVE
\* that opens the critical section of the pager and the SEND that closes it,
\* traps included (vmSupport.c:113-173, exceptionsSupport.c:14-17), whatever
\* the careless ones do.
MutualExclusion == \A c, d \in Honest : Inside(c) /\ Inside(d) => c = d

\* The mutex and its clients agree on what each message means, although all
\* messages are alike: what swapMutexProcess takes for a release comes from a
\* client that gives the pool back, what it takes for a request from one that
\* asks (vmSupport.c:11-18 decides by the global alone).
MessagesUnderstood ==
  server.at = "assign" /\ server.sender \in Honest =>
    IF process_locking_the_swap_mutex = NULL
    THEN pc[server.sender] = "asking"
    ELSE /\ server.sender = process_locking_the_swap_mutex
         /\ pc[server.sender] \in {"releasing", "unlocking"}

\* The test of exceptionsSupport.c:14 on a global that another process writes:
\* a process that traps reads its own name there exactly if it is in the
\* critical section of the pager.
TrapTestExact ==
  \A c \in Honest : pc[c] = "trapped" =>
    (process_locking_the_swap_mutex = c <=> c \in paging)

\* Where Lock sees a client.
LockState(c) == CASE pc[c] = "asking" -> "waiting"
                  [] Inside(c)        -> "in"
                  [] OTHER            -> "out"

L == INSTANCE Lock WITH Client <- Honest, st <- [c \in Honest |-> LockState(c)]

\* The mutex implements Lock for its honest clients: they enter one at a time,
\* and only after they have asked.
ImplementsLock == L!LockSafe

\* It implements the liveness of Lock too, for all its clients, as long as none
\* has an answer it does not wait for: whenever nobody is inside and somebody
\* waits, somebody enters.  No trap and no order of the messages leaves the
\* mutex with a process that is gone.
AllCareful ==
  \A c \in Client : \A i \in DOMAIN inbox[c] : inbox[c][i].m_sender # sst

All == INSTANCE Lock WITH st <- [c \in Client |-> LockState(c)]

ImplementsGranted == []AllCareful => All!Granted
-----------------------------------------------------------------------------
\* The inductive invariant.  The exchange of an honest client with the mutex is
\* in one place: its message is in the mutex's inbox, or taken from it, or
\* answered; and when no exchange is under way there is nothing of it.
SentBy(c)   == Matching(inbox[swap_table_pcb], c)
Taken(c)    == server.at # "receive" /\ server.sender = c
Answered(c) == inbox[c] # <<>>
Exchanging  == {"asking", "releasing", "unlocking"}

OneExchange(c) ==
  /\ \A i, j \in SentBy(c) : i = j
  /\ SentBy(c) # {} => ~Taken(c) /\ ~Answered(c)
  /\ Taken(c) => ~Answered(c)
  /\ inbox[c] \in {<<>>, <<Msg(swap_table_pcb, 0)>>}
  /\ SentBy(c) # {} \/ Taken(c) \/ Answered(c) <=> pc[c] \in Exchanging

\* When an honest client is the one named by the global.
Holding(c) ==
  \/ Inside(c)
  \/ pc[c] = "asking" /\ (Answered(c) \/ (Taken(c) /\ server.at = "answer"))
  \/ /\ pc[c] \in {"releasing", "unlocking"}
     /\ SentBy(c) # {} \/ (Taken(c) /\ server.at = "assign")

HonestInv(c) ==
  /\ OneExchange(c)
  /\ process_locking_the_swap_mutex = c <=> Holding(c)
  /\ pc[c] = "out" => c \notin paging
  /\ pc[c] \in {"asking", "in", "releasing", "unlock", "unlocking"} => c \in paging

ServerInv ==
  /\ server.at = "receive" <=> server.sender = NULL
  /\ server.sender \in Client \cup {NULL}
  /\ server.at = "assign" => process_locking_the_swap_mutex \in {NULL, server.sender}
  /\ \A i \in DOMAIN inbox[swap_table_pcb] : inbox[swap_table_pcb][i].m_sender \in Client

MutexInv == MutexTypeOK /\ ServerInv /\ \A c \in Honest : HonestInv(c)
=============================================================================
