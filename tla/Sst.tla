-------------------------------- MODULE Sst --------------------------------
(***************************************************************************)
(* The system service threads of phase 3 and what surrounds them: test,     *)
(* which creates them and waits for their end (initProc.c), the SSTs and    *)
(* their services (sst.c), the user processes, and the handlers of their    *)
(* system calls and traps (exceptionsSupport.c, phase3/syscall.c).          *)
(*                                                                         *)
(* A request is a record in the memory of the user process; what is sent is *)
(* a pointer to it.  A DOIO, with the SSI behind it (Nucleus), is two       *)
(* steps: the command, and the answer of the device.                        *)
(***************************************************************************)
EXTENDS Messages

CONSTANTS
  N,            \* UPROCMAX
  Char,         \* the characters
  Text,         \* the strings the programs print
  FINAL,        \* the final message
  MaxRequests,  \* how many requests each user process makes before TERMINATE
  Trapping,     \* the user processes that may trap
  Wild,         \* the user processes that may pass a pointer to nowhere
  Faulty,       \* the SSTs a page of whose user process may fail to come
  Failing       \* the devices that may answer with an error

Asid == 1..N
OK   == "OK"

test     == <<"test", 0>>
SST(a)   == <<"SST", a>>
child(a) == <<"user", a>>
Process  == {test} \cup {SST(a) : a \in Asid} \cup {child(a) : a \in Asid}

printer(a)  == <<"printer", a>>
terminal(a) == <<"terminal", a>>
Device      == {printer(a) : a \in Asid} \cup {terminal(a) : a \in Asid}

ASSUME SstAssumption ==
  /\ N \in Nat \ {0} /\ MaxRequests \in [Asid -> Nat]
  /\ Text \subseteq Seq(Char) /\ FINAL \in Seq(Char)
  /\ NULL \notin Text \cup {<<>>} /\ NULL \notin Process
  /\ Trapping \subseteq Asid /\ Wild \subseteq Asid /\ Faulty \subseteq Asid
  /\ Failing \subseteq Device

\* ssi_payload_t: service_code, and the string of its arg; NULL: a bad pointer.
Ask(service, string) == [service_code |-> service, arg |-> string]
Bare    == {Ask("GET_TOD", <<>>), Ask("other", <<>>)}
Prints  == {Ask(s, t) : s \in {"WRITEPRINTER", "WRITETERMINAL"}, t \in Text}
Lost    == Ask("WRITETERMINAL", NULL)
End     == Ask("TERMINATE", <<>>)

VARIABLES
  machine,  \* "runs", "halted" or "panic"
  testAt, turn,   \* test: where, and the i of its loops
  sstAt,    \* where each SST is
  payload,  \* the pointer each SST has received: "user" or "stack"
  childAt,  \* where each user process is
  exc,      \* the cause in sup_exceptState[GENERALEXCEPT] of each
  memory,   \* of each user process: its request, and the one in the frame of
            \* TrapExceptionHandlerSupport
  made,     \* the requests each user process has made, in order
  inbox,
  io, index,  \* the DOIO of each process that prints; its i in the string
  busy,     \* blocked_dev: whom each device will answer
  data,     \* the character in the command of each device
  shown     \* what each device has shown

boot     == <<testAt, turn>>
services == <<sstAt, payload>>
users    == <<childAt, exc, memory, made>>
transfer == <<io, index, busy, data, shown>>
sstVars  == <<machine, boot, services, users, inbox, transfer>>

SstInit ==
  /\ machine = "runs"
  /\ testAt = "mutex" /\ turn = 1
  /\ sstAt = [a \in Asid |-> "none"]
  /\ payload = [a \in Asid |-> NULL]
  /\ childAt = [a \in Asid |-> "none"]
  /\ exc = [a \in Asid |-> NULL]
  /\ memory = [a \in Asid |-> [user |-> NULL, stack |-> NULL]]
  /\ made = [a \in Asid |-> <<>>]
  /\ inbox = [p \in Process |-> <<>>]
  /\ io = [p \in Process |-> "none"]
  /\ index = [p \in Process |-> 0]
  /\ busy = [d \in Device |-> NULL]
  /\ data = [d \in Device |-> NULL]
  /\ shown = [d \in Device |-> <<>>]
-----------------------------------------------------------------------------
Send(p, q, v) == inbox' = [inbox EXCEPT ![q] = Push(@, Msg(p, v))]

Receive(p, from, i) ==
  /\ Takes(inbox[p], from, i)
  /\ inbox' = [inbox EXCEPT ![p] = Rest(@, i)]

\* The loop of writeprinter and writeterminal: a DOIO for each character.
Emit(p, d, string) ==
  /\ io[p] = "none" /\ index[p] < Len(string)
  /\ io' = [io EXCEPT ![p] = "asked"]
  /\ data' = [data EXCEPT ![d] = string[index[p] + 1]]
  /\ busy' = [busy EXCEPT ![d] = p]
  /\ UNCHANGED <<machine, index, shown>>

\* The status of the device is looked at; PANIC if it is not the right one.
Check(p) ==
  \/ /\ io[p] = "done"
     /\ io' = [io EXCEPT ![p] = "none"]
     /\ index' = [index EXCEPT ![p] = @ + 1]
     /\ UNCHANGED <<machine, busy, data, shown>>
  \/ /\ io[p] = "failed"
     /\ machine' = "panic"
     /\ UNCHANGED transfer

Write(p, d, string) == Emit(p, d, string) \/ Check(p)

Written(p, string) ==
  /\ io[p] = "none" /\ index[p] >= Len(string)
  /\ index' = [index EXCEPT ![p] = 0]
  /\ UNCHANGED <<io, busy, data, shown>>

\* Two devices of one interrupt line have a command to answer.
TwoOnOneLine ==
  \E d, e \in Device : d # e /\ d[1] = e[1] /\ busy[d] # NULL /\ busy[e] # NULL

\* The device shows the character, or fails, and whoever is in blocked_dev
\* goes on.
DeviceAnswer(d) ==
  /\ busy[d] # NULL
  /\ busy' = [busy EXCEPT ![d] = NULL]
  /\ \/ /\ io' = [io EXCEPT ![busy[d]] = "done"]
        /\ shown' = [shown EXCEPT ![d] = Append(@, data[d])]
     \/ /\ d \in Failing
        /\ io' = [io EXCEPT ![busy[d]] = "failed"]
        /\ UNCHANGED shown
  /\ UNCHANGED <<machine, boot, services, users, inbox, index, data>>

\* Two devices of one line have answered before the interrupt of the first is
\* handled: getDevNum knows no such bitmap.
getDevNumPanics ==
  /\ TwoOnOneLine
  /\ machine' = "panic"
  /\ UNCHANGED <<boot, services, users, inbox, transfer>>
-----------------------------------------------------------------------------
\* test: the process of the swap mutex first.
TestCreateMutex ==
  /\ testAt = "mutex" /\ testAt' = "spawn"
  /\ UNCHANGED <<machine, turn, services, users, inbox, transfer>>

\* CREATEPROCESS of an SST; its PCB is kept in sst_processes[turn - 1].
spawn_sst ==
  /\ testAt = "spawn"
  /\ sstAt' = [sstAt EXCEPT ![turn] = "start"]
  /\ turn' = IF turn = N THEN 1 ELSE turn + 1
  /\ testAt' = IF turn = N THEN "join" ELSE "spawn"
  /\ UNCHANGED <<machine, payload, users, inbox, transfer>>

\* Mutant: the final message is shown as soon as one SST has reported.
TestJoinFirst ==
  /\ testAt = "join"
  /\ \E i \in DOMAIN inbox[test] :
       /\ Receive(test, SST(turn), i)
       /\ testAt' = "final"
       /\ UNCHANGED <<machine, turn, services, users, transfer>>

\* The SSTs are waited for in the order of their creation.
TestJoin ==
  /\ testAt = "join"
  /\ \E i \in DOMAIN inbox[test] :
       /\ Receive(test, SST(turn), i)
       /\ IF inbox[test][i].m_payload # OK
            THEN machine' = "panic" /\ UNCHANGED boot
            ELSE /\ turn' = IF turn = N THEN 1 ELSE turn + 1
                 /\ testAt' = IF turn = N THEN "final" ELSE "join"
                 /\ UNCHANGED machine
  /\ UNCHANGED <<services, users, transfer>>

TestFinal ==
  /\ testAt = "final"
  /\ \/ /\ Write(test, terminal(1), FINAL)
        /\ UNCHANGED boot
     \/ /\ Written(test, FINAL)
        /\ testAt' = "end"
        /\ UNCHANGED <<machine, turn>>
  /\ UNCHANGED <<services, users, inbox>>

\* TERMPROCESS: with test goes everything it has created, and the scheduler
\* finds only the SSI: HALT.
TestEnd ==
  /\ testAt = "end"
  /\ machine' = "halted"
  /\ UNCHANGED <<boot, services, users, inbox, transfer>>

TestStep == TestCreateMutex \/ spawn_sst \/ TestJoin \/ TestFinal \/ TestEnd
-----------------------------------------------------------------------------
SstMoves(a, from, to) ==
  /\ sstAt[a] = from
  /\ sstAt' = [sstAt EXCEPT ![a] = to]

\* GETSUPPORTPTR, and CREATEPROCESS of the user process.
SstStart(a) ==
  /\ SstMoves(a, "start", "receive")
  /\ childAt' = [childAt EXCEPT ![a] = "user"]
  /\ UNCHANGED <<machine, boot, payload, exc, memory, made, inbox, transfer>>

SstReceive(a) ==
  /\ SstMoves(a, "receive", "serve")
  /\ \E i \in DOMAIN inbox[SST(a)] :
       /\ Receive(SST(a), child(a), i)
       /\ payload' = [payload EXCEPT ![a] = inbox[SST(a)][i].m_payload]
  /\ UNCHANGED <<machine, boot, users, transfer>>

\* What the pointer points to when it is followed.
Request(a) == memory[a][payload[a]]

Respond(a, v) ==
  /\ Send(SST(a), child(a), v)
  /\ UNCHANGED <<machine, boot, payload, users>>

GetTod(a) ==
  /\ Request(a).service_code = "GET_TOD"
  /\ SstMoves(a, "serve", "receive")
  /\ Respond(a, "tod")
  /\ UNCHANGED transfer

\* Mutant: the SST asks for its own end without a word to test.
terminateSilently(a) ==
  /\ Request(a).service_code = "TERMINATE"
  /\ SstMoves(a, "serve", "ending")
  /\ UNCHANGED <<machine, boot, payload, users, inbox, transfer>>

\* Mutant: test is told with the pointer that was received.
terminateEchoes(a) ==
  /\ Request(a).service_code = "TERMINATE"
  /\ SstMoves(a, "serve", "ending")
  /\ Send(SST(a), test, payload[a])
  /\ UNCHANGED <<machine, boot, payload, users, transfer>>

\* test is told, and a message of test is waited for; none ever comes.
terminate(a) ==
  /\ Request(a).service_code = "TERMINATE"
  /\ SstMoves(a, "serve", "ending")
  /\ Send(SST(a), test, OK)
  /\ UNCHANGED <<machine, boot, payload, users, transfer>>

\* Mutant: the offset of the device does not depend on the address space.
DeviceOfFirst(a) == IF Request(a).service_code = "WRITEPRINTER"
                    THEN printer(1) ELSE terminal(1)

DeviceOf(a) == CASE Request(a).service_code = "WRITEPRINTER"  -> printer(a)
                 [] Request(a).service_code = "WRITETERMINAL" -> terminal(a)

\* Mutant: the user process gets its answer before the string is printed.
SstWriteEarly(a) ==
  /\ Request(a).service_code \in {"WRITEPRINTER", "WRITETERMINAL"}
  /\ Request(a).arg # NULL
  /\ \/ /\ SstMoves(a, "serve", "write")
        /\ Respond(a, "0")
        /\ UNCHANGED transfer
     \/ /\ SstMoves(a, "write", "write")
        /\ Write(SST(a), DeviceOf(a), Request(a).arg)
        /\ UNCHANGED <<boot, payload, users, inbox>>
     \/ /\ SstMoves(a, "write", "receive")
        /\ Written(SST(a), Request(a).arg)
        /\ UNCHANGED <<machine, boot, payload, users, inbox>>

\* The string is read from the memory of the user process as it is printed.
SstWrite(a) ==
  /\ Request(a).service_code \in {"WRITEPRINTER", "WRITETERMINAL"}
  /\ Request(a).arg # NULL
  /\ \/ /\ SstMoves(a, "serve", "serve")
        /\ Write(SST(a), DeviceOf(a), Request(a).arg)
        /\ UNCHANGED <<boot, payload, users, inbox>>
     \/ /\ SstMoves(a, "serve", "receive")
        /\ Written(SST(a), Request(a).arg)
        /\ Respond(a, "0")

\* A service_code that is none: no answer.
SstIgnore(a) ==
  /\ Request(a).service_code = "other"
  /\ SstMoves(a, "serve", "receive")
  /\ UNCHANGED <<machine, boot, payload, users, inbox, transfer>>

\* The SST itself traps on a bad pointer: TrapExceptionHandlerSupport tells
\* the parent, which is test, with a pointer that is not OK.
SstTrap(a) ==
  /\ Request(a).arg = NULL
  /\ SstMoves(a, "serve", "trapped")
  /\ Send(SST(a), test, "stack")
  /\ UNCHANGED <<machine, boot, payload, users, transfer>>

\* Wherever it follows the pointer the SST may fault on a page of its user
\* process, and a transfer of its pager may fail: pager calls the same handler.
\* Its wait for test's word, which PARENT makes a wait for anyone's, ends if its
\* user process traps meanwhile; an SST that goes on from there is not followed.
SstFault(a) ==
  /\ a \in Faulty /\ payload[a] = "user" /\ io[SST(a)] = "none"
  /\ SstMoves(a, "serve", "trapped")
  /\ Send(SST(a), test, "stack")
  /\ UNCHANGED <<machine, boot, payload, users, transfer>>

SstServe(a) ==
  \/ GetTod(a) \/ terminate(a) \/ SstWrite(a) \/ SstIgnore(a)
  \/ SstTrap(a) \/ SstFault(a)

SSTServer(a) ==
  \/ SstStart(a) \/ SstReceive(a)
  \/ sstAt[a] = "serve" /\ SstServe(a)
-----------------------------------------------------------------------------
ChildMoves(a, from, to) ==
  /\ childAt[a] = from
  /\ childAt' = [childAt EXCEPT ![a] = to]

\* A user process writes a request and sends it: a SYSCALL, and so an
\* exception, whose cause goes into the support structure.  It then waits for
\* the answer before it goes on, as every program of testers/ does.
UserCall(a, r) ==
  /\ ChildMoves(a, "user", "handler")
  /\ Len(made[a]) < MaxRequests[a] \/ r = End
  /\ made' = [made EXCEPT ![a] = Append(@, r)]
  /\ memory' = [memory EXCEPT ![a].user = r]
  /\ exc' = [exc EXCEPT ![a] = "SENDMSG"]
  /\ UNCHANGED <<machine, boot, services, inbox, transfer>>

UserAwait(a) ==
  /\ ChildMoves(a, "sent", "handler")
  /\ exc' = [exc EXCEPT ![a] = "RECEIVEMSG"]
  /\ UNCHANGED <<machine, boot, services, memory, made, inbox, transfer>>

UserTrap(a) ==
  /\ a \in Trapping
  /\ \E from \in {"user", "sent"} : ChildMoves(a, from, "handler")
  /\ exc' = [exc EXCEPT ![a] = "trap"]
  /\ UNCHANGED <<machine, boot, services, memory, made, inbox, transfer>>

\* syscall_exception_handler.  A RECEIVEMSG from PARENT is one from anyone.
HandleSend(a) ==
  /\ exc[a] = "SENDMSG"
  /\ ChildMoves(a, "handler", "sent")
  /\ Send(child(a), SST(a), "user")
  /\ UNCHANGED <<machine, boot, services, exc, memory, made, transfer>>

HandleReceive(a) ==
  /\ exc[a] = "RECEIVEMSG"
  /\ ChildMoves(a, "handler", "user")
  /\ \E i \in DOMAIN inbox[child(a)] : Receive(child(a), NULL, i)
  /\ UNCHANGED <<machine, boot, services, exc, memory, made, transfer>>

\* TrapExceptionHandlerSupport sends the SST a request in its own frame.  The
\* SYSCALL that sends it is itself a general exception: its handler runs on
\* the same stack from the top again, over the frame of the first.
HandleTrap(a) ==
  /\ exc[a] = "trap"
  /\ ChildMoves(a, "handler", "trapped")
  /\ Send(child(a), SST(a), "stack")
  /\ \E r \in {End, Ask("other", <<>>)} : memory' = [memory EXCEPT ![a].stack = r]
  /\ UNCHANGED <<machine, boot, services, exc, made, transfer>>

\* It then waits for a message of anyone.  An answer that was still due lets
\* it return into the state the second exception has saved, for ever.
TrapReturns(a) ==
  /\ ChildMoves(a, "trapped", "lost")
  /\ \E i \in DOMAIN inbox[child(a)] : Receive(child(a), NULL, i)
  /\ UNCHANGED <<machine, boot, services, exc, memory, made, transfer>>

GeneralExceptionHandlerSupport(a) ==
  HandleSend(a) \/ HandleReceive(a) \/ HandleTrap(a) \/ TrapReturns(a)

\* What a program of testers/ may ask.
RequestsOf(a) == Bare \cup Prints \cup {End} \cup (IF a \in Wild THEN {Lost} ELSE {})

UserStep(a) == UserTrap(a) \/ \E r \in RequestsOf(a) : UserCall(a, r)

\* Nobody can go on: test and every SST and user process waits for a message
\* that has not come, and no device has an answer to give.
Stuck ==
  /\ testAt = "join" /\ \A i \in DOMAIN inbox[test] : inbox[test][i].m_sender # SST(turn)
  /\ \A d \in Device : busy[d] = NULL
  /\ \A a \in Asid :
       /\ sstAt[a] = "ending" \/ (sstAt[a] \in {"receive", "trapped"} /\ inbox[SST(a)] = <<>>)
       /\ childAt[a] = "trapped" \/ (childAt[a] = "handler" /\ exc[a] = "RECEIVEMSG")
       /\ inbox[child(a)] = <<>>

\* The scheduler finds the deadlock.
schedulerPanics ==
  /\ Stuck
  /\ machine' = "panic"
  /\ UNCHANGED <<boot, services, users, inbox, transfer>>

Runs(A) == machine = "runs" /\ A

SstNext ==
  Runs(\/ TestStep
       \/ (\E d \in Device : DeviceAnswer(d)) \/ getDevNumPanics \/ schedulerPanics
       \/ \E a \in Asid : \/ SSTServer(a) \/ UserStep(a) \/ UserAwait(a)
                          \/ GeneralExceptionHandlerSupport(a))

SstSpec == SstInit /\ [][SstNext]_sstVars

\* The scheduler is round robin and no device stays busy: whoever can go on
\* does.  Of a user program nothing is assumed but that a system call it has
\* made goes on.
SstFairSpec ==
  /\ SstSpec
  /\ WF_sstVars(Runs(TestStep))
  /\ \A d \in Device : WF_sstVars(Runs(DeviceAnswer(d)))
  /\ \A a \in Asid : /\ WF_sstVars(Runs(SSTServer(a)))
                     /\ WF_sstVars(Runs(GeneralExceptionHandlerSupport(a)))
-----------------------------------------------------------------------------
\* The end of the system, with the SSTs as the workers.
J == INSTANCE Join WITH
       Worker <- Asid,
       working <- {a \in Asid : sstAt[a] # "ending"},
       end <- IF machine = "panic" THEN "panic"
              ELSE IF machine = "halted" THEN "halted"
              ELSE IF testAt \in {"final", "end"} THEN "announced" ELSE "no"

\* initProc.c:101-121: test waits for the SSTs one by one, in the order of
\* their creation and not of their end; still the final message comes after
\* the end of every one of them, the machine halts after the message, and an
\* SST that has reported does not report again.
ImplementsJoin == J!JoinSpec

\* What a request adds to what a service has to show.
Part(r, service) == IF r.service_code = service THEN r.arg ELSE <<>>

\* The strings of all the requests for a service, one after the other.
Joined(requests, service) ==
  LET first[n \in 0..Len(requests)] ==
        IF n = 0 THEN <<>> ELSE first[n - 1] \o Part(requests[n], service)
  IN  first[Len(requests)]

\* What the user process a has asked its printer or its terminal to show.
AskedFor(a, service) == Joined(made[a], service)

OnPrinter(a)  == AskedFor(a, "WRITEPRINTER")
OnTerminal(a) == AskedFor(a, "WRITETERMINAL") \o
                 (IF a = 1 /\ testAt \in {"final", "end"} THEN FINAL ELSE <<>>)

Begins(s, t) == Len(s) <= Len(t) /\ s = SubSeq(t, 1, Len(s))

Honest == Asid \ (Trapping \cup Wild)

\* sst.c:149-176: SST and user process share the memory of the request and go
\* on each at its own pace; still a device shows exactly what was asked, in
\* order, and all of it when the user process has its answer.
OutputExact ==
  \A a \in Honest :
    /\ Begins(shown[printer(a)], OnPrinter(a))
    /\ Begins(shown[terminal(a)], OnTerminal(a))
    /\ childAt[a] = "user" => /\ shown[printer(a)] = OnPrinter(a)
                             /\ shown[terminal(a)] = OnTerminal(a)

\* sst.c:68-69, ssi.c:72-82: blocked_dev has room for one process: whoever
\* waits for a device is the one the device will answer.
NoLostAnswer == \A p \in Process : io[p] = "asked" => \E d \in Device : busy[d] = p

\* initProc.c:103, sst.c:71, 106, interrupts.c:37, scheduler.c:25: what PANIC comes
\* from: an SST that has followed a bad pointer, one whose page has failed to come
\* (vmSupport.c:142, 150), a device that has failed, two devices of one line at
\* once, or everybody waiting.  The end of a user process, asked for or by a trap,
\* at whatever point of its service, is no reason for test to give up.
PanicExplained ==
  machine = "panic" =>
    \/ \E a \in Wild \cup Faulty : sstAt[a] = "trapped"
    \/ \E p \in Process : io[p] = "failed"
    \/ TwoOnOneLine \/ Stuck

\* When all the user processes have asked for their end, the system ends, and
\* not because everybody waits, unless for an SST that has trapped.
EndsWhenAsked ==
  (\A a \in Asid : memory[a].user = End)
    ~> machine # "runs" /\ (Stuck => \E a \in Asid : sstAt[a] = "trapped")
=============================================================================
