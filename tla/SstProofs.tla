------------------------------ MODULE SstProofs ------------------------------
(***************************************************************************)
(* Theorems about the SSTs: an SST has at most one request of its user      *)
(* process, and prints that and nothing else; every answer of a device has  *)
(* somebody to go to; PANIC has its reasons; the end of the system is the   *)
(* one Join promises; the devices show what was asked.  For any number of   *)
(* user processes, any strings and requests, and any of the processes       *)
(* trapping, passing wild pointers, and devices failing.                    *)
(***************************************************************************)
EXTENDS Sst, InboxProofs

\* The messages of each kind of inbox.
ToTest    == [m_sender : {SST(a) : a \in Asid}, m_payload : {OK, "stack"}]
ToSst(a)   == [m_sender : {child(a)}, m_payload : {"user", "stack"}]
ToChild(a) == [m_sender : {SST(a)}, m_payload : {"tod", "0"}]

\* What TrapExceptionHandlerSupport may ask for (exceptionsSupport.c:29-38).
TrapRequests == {End, Ask("other", <<>>)}

\* The values of the state of one SST and its user process.
TypeOf(a) ==
  /\ sstAt[a] \in {"none", "start", "receive", "serve", "ending", "trapped"}
  /\ payload[a] \in {NULL, "user", "stack"}
  /\ childAt[a] \in {"none", "user", "handler", "sent", "trapped", "lost"}
  /\ exc[a] \in {NULL, "SENDMSG", "RECEIVEMSG", "trap"}
  /\ memory[a] \in [user : RequestsOf(a) \cup {NULL}, stack : TrapRequests \cup {NULL}]
  /\ made[a] \in Seq(RequestsOf(a))
  /\ inbox[SST(a)] \in Seq(ToSst(a))
  /\ inbox[child(a)] \in Seq(ToChild(a))

\* A request of the user process of a is in the inbox of the SST, ...
Sent(a, from) == Has(inbox[SST(a)], from)

\* ... is being served, ...
Serving(a, from) == sstAt[a] = "serve" /\ payload[a] = from

\* ... or has its answer, ...
Answered(a) == inbox[child(a)] # <<>>

\* ... or the user process has none.
Idle(a) == \/ childAt[a] \in {"none", "user"}
           \/ childAt[a] = "handler" /\ exc[a] = "SENDMSG"

\* The request and its answer are in one place.
ExchangeOf(a) ==
  /\ sstAt[a] \in {"none", "start"} => childAt[a] = "none"
  /\ sstAt[a] = "serve" => payload[a] \in {"user", "stack"}
  /\ Once(inbox[SST(a)], "user")
  /\ Len(inbox[child(a)]) <= 1
  /\ ~ (Sent(a, "user") /\ Serving(a, "user"))
  /\ Sent(a, "user") \/ Serving(a, "user") => ~ Answered(a)
  /\ Idle(a) => ~ Sent(a, "user") /\ ~ Serving(a, "user") /\ ~ Answered(a)
  /\ Sent(a, "user") \/ Serving(a, "user") \/ (childAt[a] = "handler" /\ exc[a] = "SENDMSG")
       => memory[a].user \in RequestsOf(a)
  /\ Sent(a, "stack") \/ Serving(a, "stack") =>
       childAt[a] \in {"trapped", "lost"} /\ memory[a].stack \in TrapRequests
  /\ sstAt[a] = "trapped" => a \in Wild \cup Faulty

\* The SST prints the request of its user process and nothing else, and whom it
\* waits for is the device that has its command.
TransferOf(a) ==
  /\ io[SST(a)] \in {"none", "asked", "done", "failed"} /\ io[child(a)] = "none"
  /\ io[SST(a)] # "none" => Serving(a, "user") /\ memory[a].user \in Prints
  /\ busy[printer(a)] \in {NULL, SST(a)}
  /\ busy[terminal(a)] \in {NULL, SST(a)} \cup (IF a = 1 THEN {test} ELSE {})
  /\ ~ (busy[printer(a)] = SST(a) /\ busy[terminal(a)] = SST(a))
  /\ io[SST(a)] = "asked" <=> busy[printer(a)] = SST(a) \/ busy[terminal(a)] = SST(a)

\* test creates the SSTs in order, waits for them in order, and prints only
\* when all are at their end.
BootInv ==
  /\ machine \in {"runs", "halted", "panic"}
  /\ testAt \in {"mutex", "spawn", "join", "final", "end"}
  /\ turn \in Asid
  /\ inbox[test] \in Seq(ToTest)
  /\ io[test] \in {"none", "asked", "done", "failed"}
  /\ io[test] # "none" => testAt = "final"
  /\ io[test] = "asked" <=> busy[terminal(1)] = test
  /\ testAt = "mutex" => turn = 1
  /\ testAt \in {"mutex", "spawn"} => \A a \in turn..N : sstAt[a] = "none"
  /\ testAt = "join" => \A a \in 1..(turn - 1) : sstAt[a] = "ending"
  /\ testAt \in {"final", "end"} => \A a \in Asid : sstAt[a] = "ending"
  /\ \A i \in DOMAIN inbox[test] : \A a \in Asid :
       inbox[test][i].m_sender = SST(a) =>
         sstAt[a] = IF inbox[test][i].m_payload = OK THEN "ending" ELSE "trapped"
  /\ machine = "halted" => testAt = "end"

ProcessOf(a) == TypeOf(a) /\ ExchangeOf(a) /\ TransferOf(a)

Domains ==
  /\ sstAt = [a \in Asid |-> sstAt[a]]
  /\ DOMAIN sstAt = Asid /\ DOMAIN payload = Asid /\ DOMAIN childAt = Asid
  /\ DOMAIN exc = Asid /\ DOMAIN memory = Asid /\ DOMAIN made = Asid
  /\ DOMAIN inbox = Process /\ DOMAIN io = Process /\ DOMAIN index = Process
  /\ DOMAIN busy = Device /\ DOMAIN data = Device /\ DOMAIN shown = Device

\* The inductive invariant.
SstInv ==
  /\ Domains
  /\ BootInv
  /\ \A a \in Asid : ProcessOf(a)
  /\ PanicExplained
-----------------------------------------------------------------------------
\* The processes, and the devices, are all different.
LEMMA Names ==
  /\ test \in Process /\ 1 \in Asid /\ N \in Asid
  /\ \A a \in Asid :
       /\ SST(a) \in Process /\ child(a) \in Process
       /\ printer(a) \in Device /\ terminal(a) \in Device
       /\ SST(a) # NULL /\ child(a) # NULL /\ SST(a) # test /\ child(a) # test
  /\ \A a, b \in Asid :
       /\ SST(a) # child(b) /\ printer(a) # terminal(b)
       /\ SST(a) = SST(b) => a = b
       /\ child(a) = child(b) => a = b
       /\ printer(a) = printer(b) => a = b
       /\ terminal(a) = terminal(b) => a = b
  /\ test # NULL /\ \A a \in Asid : a \in Int
<1>1. 1 \in Asid /\ N \in Asid /\ (\A a \in Asid : a \in Int) /\ NULL \notin Process
  BY SstAssumption DEF Asid
<1>2. QED
  BY <1>1 DEF Process, Device, test, SST, child, printer, terminal

\* Nothing changes for the SST a and its user process.
Same(a) ==
  /\ sstAt'[a] = sstAt[a] /\ payload'[a] = payload[a] /\ childAt'[a] = childAt[a]
  /\ exc'[a] = exc[a] /\ memory'[a] = memory[a] /\ made'[a] = made[a]
  /\ inbox'[SST(a)] = inbox[SST(a)] /\ inbox'[child(a)] = inbox[child(a)]
  /\ io'[SST(a)] = io[SST(a)] /\ io'[child(a)] = io[child(a)]
  /\ busy'[printer(a)] = busy[printer(a)] /\ busy'[terminal(a)] = busy[terminal(a)]

LEMMA SameProcess ==
  ASSUME NEW a \in Asid, ProcessOf(a), Same(a)
  PROVE  ProcessOf(a)'
<1>1. TypeOf(a)'
  BY DEF ProcessOf, TypeOf, Same
<1>2. ExchangeOf(a)'
  BY DEF ProcessOf, ExchangeOf, Same, Sent, Serving, Answered, Idle
<1>3. TransferOf(a)'
  BY DEF ProcessOf, TransferOf, Same, Serving
<1>4. QED
  BY <1>1, <1>2, <1>3 DEF ProcessOf

\* What test knows of the SSTs stays true when one of them goes on.
LEMMA SameBoot ==
  ASSUME BootInv, UNCHANGED <<machine, testAt, turn>>,
         inbox'[test] = inbox[test], io'[test] = io[test],
         busy'[terminal(1)] = test <=> busy[terminal(1)] = test,
         \A a \in Asid : sstAt[a] \in {"none", "ending", "trapped"} => sstAt'[a] = sstAt[a]
  PROVE  BootInv'
<1> USE Names
<1>1. /\ testAt' \in {"mutex", "spawn"} => \A a \in turn'..N : sstAt'[a] = "none"
      /\ testAt' = "join" => \A a \in 1..(turn' - 1) : sstAt'[a] = "ending"
      /\ testAt' \in {"final", "end"} => \A a \in Asid : sstAt'[a] = "ending"
  <2>1. turn \in 1..N /\ N \in Nat
    BY SstAssumption DEF BootInv, Asid
  <2>2. \A a \in turn..N : a \in Asid
    BY <2>1 DEF Asid
  <2>3. \A a \in 1..(turn - 1) : a \in Asid
    BY <2>1 DEF Asid
  <2>4. QED
    BY <2>2, <2>3 DEF BootInv
<1>2. \A i \in DOMAIN inbox[test] : \A a \in Asid :
        inbox[test][i].m_sender = SST(a) =>
          sstAt'[a] = IF inbox[test][i].m_payload = OK THEN "ending" ELSE "trapped"
  BY DEF BootInv
<1>3. QED
  BY <1>1, <1>2 DEF BootInv

\* A step of one SST or its user process need only be looked at there.
LEMMA OneProcess ==
  ASSUME SstInv, NEW b \in Asid, Domains', BootInv', PanicExplained',
         \A a \in Asid \ {b} : Same(a),
         ProcessOf(b)'
  PROVE  SstInv'
<1>1. ASSUME NEW a \in Asid, a # b PROVE ProcessOf(a)'
  BY <1>1, SameProcess DEF SstInv
<1>2. QED
  BY <1>1 DEF SstInv

\* What a message sent, and one received, change.
LEMMA SendEffect ==
  ASSUME DOMAIN inbox = Process, NEW p, NEW q \in Process, NEW v, Send(p, q, v)
  PROVE  /\ DOMAIN inbox' = Process /\ inbox'[q] = Push(inbox[q], Msg(p, v))
         /\ \A r \in Process : r # q => inbox'[r] = inbox[r]
BY DEF Send

LEMMA ReceiveEffect ==
  ASSUME DOMAIN inbox = Process, NEW p \in Process, NEW from, NEW i, Receive(p, from, i)
  PROVE  /\ DOMAIN inbox' = Process /\ inbox'[p] = Rest(inbox[p], i)
         /\ i \in DOMAIN inbox[p] /\ (from # NULL => inbox[p][i].m_sender = from)
         /\ \A r \in Process : r # p => inbox'[r] = inbox[r]
BY DEF Receive, Takes, Matching

\* The initial state.
LEMMA InitSstInv == SstInit => SstInv
<1> SUFFICES ASSUME SstInit PROVE SstInv
  OBVIOUS
<1> USE Names
<1>1. Domains /\ PanicExplained
  BY DEF SstInit, Domains, PanicExplained
<1>2. BootInv
  <2>1. inbox[test] = <<>> /\ io[test] = "none" /\ busy[terminal(1)] = NULL
    BY DEF SstInit
  <2>2. <<>> \in Seq(ToTest) /\ DOMAIN <<>> = {}
    OBVIOUS
  <2>3. \A a \in turn..N : sstAt[a] = "none"
    BY DEF SstInit, Asid
  <2>4. QED
    BY <2>1, <2>2, <2>3 DEF SstInit, BootInv
<1>3. ASSUME NEW a \in Asid PROVE ProcessOf(a)
  <2>1. TypeOf(a)
    BY DEF SstInit, TypeOf, ToSst, ToChild
  <2>2. ExchangeOf(a)
    BY DEF SstInit, ExchangeOf, Sent, Serving, Answered, Idle, Has, Once
  <2>3. TransferOf(a)
    BY DEF SstInit, TransferOf, Serving
  <2>4. QED
    BY <2>1, <2>2, <2>3 DEF ProcessOf
<1>4. QED
  BY <1>1, <1>2, <1>3 DEF SstInv

\* A user process makes a request, of which there is no other.
LEMMA UserCallInv ==
  ASSUME SstInv, machine = "runs", NEW b \in Asid, NEW r \in RequestsOf(b), UserCall(b, r)
  PROVE  SstInv'
<1> USE Names
<1>1. ProcessOf(b) /\ Domains /\ BootInv
  BY DEF SstInv
<1>2. Domains' /\ PanicExplained'
  BY <1>1 DEF UserCall, ChildMoves, services, boot, transfer, Domains, PanicExplained
<1>3. BootInv'
  BY <1>1, SameBoot DEF UserCall, services, boot, transfer
<1>4. \A a \in Asid \ {b} : Same(a)
  BY <1>1 DEF UserCall, ChildMoves, services, transfer, Same, Domains
<1>5. /\ childAt[b] = "user" /\ childAt'[b] = "handler" /\ exc'[b] = "SENDMSG"
      /\ memory'[b] = [memory[b] EXCEPT !.user = r] /\ made'[b] = Append(made[b], r)
      /\ UNCHANGED <<sstAt, payload, inbox, io, busy>>
  BY <1>1 DEF UserCall, ChildMoves, services, transfer, Domains
<1>6. Idle(b) /\ ~ Sent(b, "user") /\ ~ Serving(b, "user") /\ ~ Answered(b)
  BY <1>1, <1>5 DEF ProcessOf, ExchangeOf, Idle
<1>7. TypeOf(b)'
  <2>1. TypeOf(b)
    BY <1>1 DEF ProcessOf
  <2>2. made'[b] \in Seq(RequestsOf(b))
    BY <1>5, <2>1, AppendProperties DEF TypeOf
  <2>3. memory'[b] \in [user : RequestsOf(b) \cup {NULL}, stack : TrapRequests \cup {NULL}]
    BY <1>5, <2>1 DEF TypeOf
  <2>4. QED
    BY <1>5, <2>1, <2>2, <2>3 DEF TypeOf
<1>8. ExchangeOf(b)'
  BY <1>1, <1>5, <1>6 DEF ProcessOf, ExchangeOf, TypeOf, Idle, Sent, Serving, Answered
<1>9. TransferOf(b)'
  BY <1>1, <1>5, <1>6 DEF ProcessOf, TransferOf, Serving
<1>10. QED
  BY <1>2, <1>3, <1>4, <1>7, <1>8, <1>9, OneProcess DEF ProcessOf

\* It waits, or traps.
LEMMA UserWaitInv ==
  ASSUME SstInv, machine = "runs", NEW b \in Asid, UserAwait(b) \/ UserTrap(b)
  PROVE  SstInv'
<1> USE Names
<1>1. ProcessOf(b) /\ Domains /\ BootInv
  BY DEF SstInv
<1>2. Domains' /\ PanicExplained'
  BY <1>1 DEF UserAwait, UserTrap, ChildMoves, services, boot, transfer, Domains, PanicExplained
<1>3. BootInv'
  BY <1>1, SameBoot DEF UserAwait, UserTrap, services, boot, transfer
<1>4. \A a \in Asid \ {b} : Same(a)
  BY <1>1 DEF UserAwait, UserTrap, ChildMoves, services, transfer, Same, Domains
<1>5. /\ childAt[b] \in {"user", "sent"} /\ childAt'[b] = "handler"
      /\ exc'[b] \in {"RECEIVEMSG", "trap"}
      /\ UNCHANGED <<sstAt, payload, inbox, io, busy, memory, made>>
  BY <1>1 DEF UserAwait, UserTrap, ChildMoves, services, transfer, Domains
<1>6. TypeOf(b)'
  BY <1>1, <1>5 DEF ProcessOf, TypeOf
<1>7. ExchangeOf(b)'
  BY <1>1, <1>5 DEF ProcessOf, ExchangeOf, TypeOf, Idle, Sent, Serving, Answered
<1>8. TransferOf(b)'
  BY <1>1, <1>5 DEF ProcessOf, TransferOf, Serving
<1>9. QED
  BY <1>2, <1>3, <1>4, <1>6, <1>7, <1>8, OneProcess DEF ProcessOf

\* syscall_exception_handler sends the request: it is now in the inbox.
LEMMA HandleSendInv ==
  ASSUME SstInv, machine = "runs", NEW b \in Asid, HandleSend(b)
  PROVE  SstInv'
<1> USE Names
<1>1. ProcessOf(b) /\ Domains /\ BootInv
  BY DEF SstInv
<1>2. /\ DOMAIN inbox' = Process /\ inbox'[SST(b)] = Push(inbox[SST(b)], Msg(child(b), "user"))
      /\ \A p \in Process : p # SST(b) => inbox'[p] = inbox[p]
  BY <1>1, SendEffect DEF HandleSend, Domains
<1>3. Domains' /\ PanicExplained'
  BY <1>1, <1>2 DEF HandleSend, ChildMoves, services, boot, transfer, Domains, PanicExplained
<1>4. BootInv'
  BY <1>1, <1>2, SameBoot DEF HandleSend, services, boot, transfer
<1>5. \A a \in Asid \ {b} : Same(a)
  BY <1>1, <1>2 DEF HandleSend, ChildMoves, services, transfer, Same, Domains
<1>6. /\ childAt[b] = "handler" /\ exc[b] = "SENDMSG" /\ childAt'[b] = "sent"
      /\ inbox'[child(b)] = inbox[child(b)]
      /\ UNCHANGED <<sstAt, payload, exc, io, busy, memory, made>>
  BY <1>1, <1>2 DEF HandleSend, ChildMoves, services, transfer, Domains
<1>7. Idle(b) /\ ~ Sent(b, "user") /\ ~ Serving(b, "user") /\ ~ Answered(b)
  BY <1>1, <1>6 DEF ProcessOf, ExchangeOf, Idle
<1>8. /\ inbox'[SST(b)] \in Seq(ToSst(b)) /\ Once(inbox'[SST(b)], "user")
      /\ \A w : Has(inbox'[SST(b)], w) <=> w = "user" \/ Has(inbox[SST(b)], w)
  <2>1. Msg(child(b), "user") \in ToSst(b) /\ inbox[SST(b)] \in Seq(ToSst(b))
    BY <1>1 DEF Msg, ToSst, ProcessOf, TypeOf
  <2>2. Once(inbox[SST(b)], "user") /\ ~ Has(inbox[SST(b)], "user")
    BY <1>1, <1>7 DEF ProcessOf, ExchangeOf, Sent
  <2>3. QED
    BY <1>2, <2>1, <2>2, PushHas
<1>9. TypeOf(b)'
  BY <1>1, <1>6, <1>8 DEF ProcessOf, TypeOf
<1>10. ExchangeOf(b)'
  BY <1>1, <1>6, <1>7, <1>8 DEF ProcessOf, ExchangeOf, TypeOf, Idle, Sent, Serving, Answered
<1>11. TransferOf(b)'
  BY <1>1, <1>6, <1>7 DEF ProcessOf, TransferOf, Serving
<1>12. QED
  BY <1>3, <1>4, <1>5, <1>9, <1>10, <1>11, OneProcess DEF ProcessOf

\* The user process takes the one answer there is, in HandleReceive and in
\* TrapReturns.
LEMMA AnswerTaken ==
  ASSUME SstInv, NEW b \in Asid, NEW i \in DOMAIN inbox[child(b)],
         Receive(child(b), NULL, i)
  PROVE  /\ DOMAIN inbox' = Process /\ inbox'[child(b)] = <<>>
         /\ \A p \in Process : p # child(b) => inbox'[p] = inbox[p]
         /\ Answered(b)
<1> USE Names
<1>1. DOMAIN inbox = Process /\ inbox[child(b)] \in Seq(ToChild(b)) /\ Len(inbox[child(b)]) <= 1
  BY DEF SstInv, Domains, ProcessOf, TypeOf, ExchangeOf
<1>2. /\ DOMAIN inbox' = Process /\ inbox'[child(b)] = Rest(inbox[child(b)], i)
      /\ \A p \in Process : p # child(b) => inbox'[p] = inbox[p]
  BY <1>1, ReceiveEffect
<1>3. /\ inbox'[child(b)] \in Seq(ToChild(b))
      /\ Len(inbox'[child(b)]) = Len(inbox[child(b)]) - 1
      /\ Len(inbox[child(b)]) \in Nat \ {0}
  BY <1>1, <1>2, RestHas
<1>4. Len(inbox'[child(b)]) = 0
  <2> DEFINE n == Len(inbox[child(b)])
  <2>1. n \in Nat \ {0} /\ n <= 1 /\ Len(inbox'[child(b)]) = n - 1
    BY <1>1, <1>3
  <2> HIDE DEF n
  <2>2. n - 1 = 0
    BY <2>1
  <2>3. QED
    BY <2>1, <2>2
<1>5. inbox'[child(b)] = <<>>
  BY <1>3, <1>4, EmptySeq
<1>6. Answered(b)
  BY <1>3, EmptySeq DEF Answered
<1>7. QED
  BY <1>2, <1>5, <1>6

LEMMA HandleReceiveInv ==
  ASSUME SstInv, machine = "runs", NEW b \in Asid, HandleReceive(b) \/ TrapReturns(b)
  PROVE  SstInv'
<1> USE Names
<1>1. ProcessOf(b) /\ Domains /\ BootInv
  BY DEF SstInv
<1>2. PICK i \in DOMAIN inbox[child(b)] : Receive(child(b), NULL, i)
  BY DEF HandleReceive, TrapReturns
<1>3. /\ DOMAIN inbox' = Process /\ inbox'[child(b)] = <<>>
      /\ \A p \in Process : p # child(b) => inbox'[p] = inbox[p]
      /\ Answered(b)
  BY <1>2, AnswerTaken
<1>4. Domains' /\ PanicExplained'
  BY <1>1, <1>3 DEF HandleReceive, TrapReturns, ChildMoves, services, boot, transfer, Domains,
       PanicExplained
<1>5. BootInv'
  BY <1>1, <1>3, SameBoot DEF HandleReceive, TrapReturns, services, boot, transfer
<1>6. \A a \in Asid \ {b} : Same(a)
  BY <1>1, <1>3 DEF HandleReceive, TrapReturns, ChildMoves, services, transfer, Same, Domains
<1>7. /\ \/ childAt[b] = "handler" /\ childAt'[b] = "user" /\ exc[b] = "RECEIVEMSG"
         \/ childAt[b] = "trapped" /\ childAt'[b] = "lost"
      /\ inbox'[SST(b)] = inbox[SST(b)]
      /\ UNCHANGED <<sstAt, payload, exc, io, busy, memory, made>>
  BY <1>1, <1>3 DEF HandleReceive, TrapReturns, ChildMoves, services, transfer, Domains
<1>8. ~ Sent(b, "user") /\ ~ Serving(b, "user") /\ ~ Answered(b)'
  BY <1>1, <1>3 DEF ProcessOf, ExchangeOf, Answered
<1>9. TypeOf(b)'
  BY <1>1, <1>3, <1>7 DEF ProcessOf, TypeOf
<1>10. ExchangeOf(b)'
  <2>1. Len(inbox'[child(b)]) <= 1
    BY <1>3
  <2>2. QED
    BY <2>1, <1>1, <1>7, <1>8 DEF ProcessOf, ExchangeOf, TypeOf, Idle, Sent, Serving
<1>11. TransferOf(b)'
  BY <1>1, <1>7, <1>8 DEF ProcessOf, TransferOf, Serving
<1>12. QED
  BY <1>4, <1>5, <1>6, <1>9, <1>10, <1>11, OneProcess DEF ProcessOf

\* A trapped user process asks in its own frame; it asked nothing there before.
LEMMA HandleTrapInv ==
  ASSUME SstInv, machine = "runs", NEW b \in Asid, HandleTrap(b)
  PROVE  SstInv'
<1> USE Names
<1>1. ProcessOf(b) /\ Domains /\ BootInv
  BY DEF SstInv
<1>2. /\ DOMAIN inbox' = Process /\ inbox'[SST(b)] = Push(inbox[SST(b)], Msg(child(b), "stack"))
      /\ \A p \in Process : p # SST(b) => inbox'[p] = inbox[p]
  <2>1. Send(child(b), SST(b), "stack") /\ DOMAIN inbox = Process
    BY <1>1 DEF HandleTrap, Domains
  <2>2. QED
    BY <2>1, SendEffect
<1>3. Domains' /\ PanicExplained'
  BY <1>1, <1>2 DEF HandleTrap, ChildMoves, services, boot, transfer, Domains, PanicExplained
<1>4. BootInv'
  BY <1>1, <1>2, SameBoot DEF HandleTrap, services, boot, transfer
<1>5. \A a \in Asid \ {b} : Same(a)
  BY <1>1, <1>2 DEF HandleTrap, ChildMoves, services, transfer, Same, Domains
<1>6. PICK q \in TrapRequests : memory' = [memory EXCEPT ![b].stack = q]
  BY DEF HandleTrap, TrapRequests
<1>7. /\ childAt[b] = "handler" /\ childAt'[b] = "trapped"
      /\ memory'[b] = [memory[b] EXCEPT !.stack = q]
      /\ inbox'[child(b)] = inbox[child(b)]
      /\ UNCHANGED <<sstAt, payload, exc, io, busy, made>>
  BY <1>1, <1>2, <1>6 DEF HandleTrap, ChildMoves, services, transfer, Domains
<1>8. /\ memory'[b] \in [user : RequestsOf(b) \cup {NULL}, stack : TrapRequests \cup {NULL}]
      /\ memory'[b].user = memory[b].user /\ memory'[b].stack = q
  BY <1>1, <1>7 DEF ProcessOf, TypeOf
<1>9. /\ inbox'[SST(b)] \in Seq(ToSst(b)) /\ Once(inbox'[SST(b)], "user")
      /\ \A w : Has(inbox'[SST(b)], w) <=> w = "stack" \/ Has(inbox[SST(b)], w)
  <2>1. Msg(child(b), "stack") \in ToSst(b) /\ inbox[SST(b)] \in Seq(ToSst(b))
    BY <1>1 DEF Msg, ToSst, ProcessOf, TypeOf
  <2>2. Once(inbox[SST(b)], "user")
    BY <1>1 DEF ProcessOf, ExchangeOf
  <2>3. QED
    BY <1>2, <2>1, <2>2, PushHas
<1>10. TypeOf(b)'
  BY <1>1, <1>7, <1>8, <1>9 DEF ProcessOf, TypeOf
<1>11. ExchangeOf(b)'
  BY <1>1, <1>7, <1>8, <1>9 DEF ProcessOf, ExchangeOf, TypeOf, Idle, Sent, Serving, Answered
<1>12. TransferOf(b)'
  BY <1>1, <1>7, <1>8 DEF ProcessOf, TransferOf, Serving
<1>13. QED
  BY <1>3, <1>4, <1>5, <1>10, <1>11, <1>12, OneProcess DEF ProcessOf
-----------------------------------------------------------------------------
LEMMA SstStartInv ==
  ASSUME SstInv, machine = "runs", NEW b \in Asid, SstStart(b)
  PROVE  SstInv'
<1> USE Names
<1>1. ProcessOf(b) /\ Domains /\ BootInv
  BY DEF SstInv
<1>2. Domains' /\ PanicExplained'
  BY <1>1 DEF SstStart, SstMoves, boot, transfer, Domains, PanicExplained
<1>3. /\ sstAt[b] = "start" /\ sstAt'[b] = "receive" /\ childAt'[b] = "user"
      /\ \A a \in Asid \ {b} : sstAt'[a] = sstAt[a] /\ childAt'[a] = childAt[a]
      /\ UNCHANGED <<machine, testAt, turn, payload, exc, memory, made, inbox, io, busy>>
  BY <1>1 DEF SstStart, SstMoves, boot, transfer, Domains
<1>4. BootInv'
  BY <1>1, <1>3, SameBoot
<1>5. \A a \in Asid \ {b} : Same(a)
  BY <1>3 DEF Same
<1>6. TypeOf(b)'
  BY <1>1, <1>3 DEF ProcessOf, TypeOf
<1>7. ExchangeOf(b)'
  BY <1>1, <1>3 DEF ProcessOf, ExchangeOf, TypeOf, Idle, Sent, Serving, Answered
<1>8. TransferOf(b)'
  BY <1>1, <1>3 DEF ProcessOf, TransferOf, Serving
<1>9. QED
  BY <1>2, <1>4, <1>5, <1>6, <1>7, <1>8, OneProcess DEF ProcessOf

\* The SST takes the newest message of its user process.
LEMMA SstReceiveInv ==
  ASSUME SstInv, machine = "runs", NEW b \in Asid, SstReceive(b)
  PROVE  SstInv'
<1> USE Names
<1>1. ProcessOf(b) /\ Domains /\ BootInv
  BY DEF SstInv
<1>2. PICK i \in DOMAIN inbox[SST(b)] :
        /\ Receive(SST(b), child(b), i)
        /\ payload' = [payload EXCEPT ![b] = inbox[SST(b)][i].m_payload]
  BY DEF SstReceive
<1>3. /\ DOMAIN inbox' = Process /\ inbox'[SST(b)] = Rest(inbox[SST(b)], i)
      /\ \A p \in Process : p # SST(b) => inbox'[p] = inbox[p]
  BY <1>1, <1>2, ReceiveEffect DEF Domains
<1>4. Domains' /\ PanicExplained'
  BY <1>1, <1>2, <1>3 DEF SstReceive, SstMoves, boot, users, transfer, Domains, PanicExplained
<1>5. /\ sstAt[b] = "receive" /\ sstAt'[b] = "serve"
      /\ payload'[b] = inbox[SST(b)][i].m_payload
      /\ \A a \in Asid \ {b} : sstAt'[a] = sstAt[a] /\ payload'[a] = payload[a]
      /\ inbox'[child(b)] = inbox[child(b)]
      /\ UNCHANGED <<machine, testAt, turn, childAt, exc, memory, made, io, busy>>
  BY <1>1, <1>2, <1>3 DEF SstReceive, SstMoves, boot, users, transfer, Domains
<1>6. BootInv'
  BY <1>1, <1>3, <1>5, SameBoot
<1>7. \A a \in Asid \ {b} : Same(a)
  BY <1>3, <1>5 DEF Same
<1>8. /\ inbox'[SST(b)] \in Seq(ToSst(b)) /\ payload'[b] \in {"user", "stack"}
      /\ Once(inbox'[SST(b)], "user") /\ Sent(b, payload'[b])
      /\ \A w : Has(inbox'[SST(b)], w) => Has(inbox[SST(b)], w)
      /\ payload'[b] = "user" => ~ Has(inbox'[SST(b)], "user")
  <2>1. inbox[SST(b)] \in Seq(ToSst(b)) /\ Once(inbox[SST(b)], "user")
    BY <1>1 DEF ProcessOf, TypeOf, ExchangeOf
  <2>2. /\ inbox'[SST(b)] \in Seq(ToSst(b)) /\ inbox[SST(b)][i] \in ToSst(b)
        /\ Once(inbox'[SST(b)], "user")
        /\ \A w : Has(inbox'[SST(b)], w) => Has(inbox[SST(b)], w)
        /\ inbox[SST(b)][i].m_payload = "user" => ~ Has(inbox'[SST(b)], "user")
    <3> DEFINE box == inbox[SST(b)]
    <3>1. /\ Rest(box, i) \in Seq(ToSst(b)) /\ box[i] \in ToSst(b)
          /\ \A w : /\ Has(Rest(box, i), w) => Has(box, w)
                    /\ Once(box, w) => Once(Rest(box, i), w)
                    /\ Once(box, w) /\ box[i].m_payload = w => ~ Has(Rest(box, i), w)
      <4>1. box \in Seq(ToSst(b)) /\ i \in DOMAIN box
        BY <2>1
      <4> HIDE DEF box
      <4>2. QED
        BY <4>1, RestHas
    <3>2. inbox'[SST(b)] = Rest(box, i) /\ Once(box, "user")
      BY <1>3, <2>1
    <3>3. QED
      BY <3>1, <3>2
  <2>3. Sent(b, payload'[b])
    BY <1>5 DEF Sent, Has
  <2>4. QED
    BY <1>5, <2>2, <2>3 DEF ToSst
<1>9. TypeOf(b)'
  BY <1>1, <1>5, <1>8 DEF ProcessOf, TypeOf
<1>10. ExchangeOf(b)'
  BY <1>1, <1>5, <1>8 DEF ProcessOf, ExchangeOf, TypeOf, Idle, Sent, Serving, Answered
<1>11. TransferOf(b)'
  BY <1>1, <1>5, <1>8 DEF ProcessOf, TransferOf, Serving
<1>12. QED
  BY <1>4, <1>6, <1>7, <1>9, <1>10, <1>11, OneProcess DEF ProcessOf

\* What the requests are, by their service_code and their arg.
LEMMA Kinds ==
  ASSUME NEW a \in Asid
  PROVE  /\ \A r \in RequestsOf(a) :
              /\ r.arg = NULL => a \in Wild
              /\ r.service_code \in {"WRITEPRINTER", "WRITETERMINAL"} /\ r.arg # NULL => r \in Prints
         /\ \A r \in Prints :
              /\ r \in RequestsOf(a)
              /\ r.service_code \in {"WRITEPRINTER", "WRITETERMINAL"}
              /\ r.arg \in Text /\ r.arg # NULL /\ r.arg \in Seq(Char)
         /\ \A r \in TrapRequests : r.service_code \in {"TERMINATE", "other"} /\ r.arg # NULL
<1>1. NULL # <<>> /\ NULL \notin Text /\ Text \subseteq Seq(Char)
  BY SstAssumption
<1>2. QED
  BY <1>1 DEF RequestsOf, Bare, Prints, End, Lost, Ask, TrapRequests

\* What the SST serves is the request it was sent.
LEMMA Served ==
  ASSUME SstInv, NEW a \in Asid, sstAt[a] = "serve"
  PROVE  \/ Serving(a, "user") /\ Request(a) = memory[a].user /\ Request(a) \in RequestsOf(a)
         \/ Serving(a, "stack") /\ Request(a) = memory[a].stack /\ Request(a) \in TrapRequests
<1>1. payload[a] \in {"user", "stack"}
  BY DEF SstInv, ProcessOf, ExchangeOf
<1>2. CASE payload[a] = "user"
  <2>1. Serving(a, "user") /\ Request(a) = memory[a].user
    BY <1>2 DEF Serving, Request
  <2>2. QED
    BY <2>1 DEF SstInv, ProcessOf, ExchangeOf
<1>3. CASE payload[a] = "stack"
  <2>1. Serving(a, "stack") /\ Request(a) = memory[a].stack
    BY <1>3 DEF Serving, Request
  <2>2. QED
    BY <2>1 DEF SstInv, ProcessOf, ExchangeOf
<1>4. QED
  BY <1>1, <1>2, <1>3

\* While it prints it serves a request to print.
LEMMA PrintsServed ==
  ASSUME SstInv, NEW a \in Asid, io[SST(a)] # "none"
  PROVE  Serving(a, "user") /\ sstAt[a] = "serve" /\ Request(a) \in Prints /\ Request(a).arg # NULL
<1>1. Serving(a, "user") /\ memory[a].user \in Prints
  BY DEF SstInv, ProcessOf, TransferOf
<1>2. sstAt[a] = "serve" /\ Request(a) = memory[a].user
  BY <1>1 DEF Serving, Request
<1>3. QED
  BY <1>1, <1>2, Kinds

\* The answer to the user process: GET_TOD, and the end of a print.
LEMMA RespondInv ==
  ASSUME SstInv, machine = "runs", NEW b \in Asid, NEW v \in {"tod", "0"},
         SstMoves(b, "serve", "receive"), Respond(b, v), io[SST(b)] = "none",
         Serving(b, "user"),
         io' = io, busy' = busy, DOMAIN index' = Process, DOMAIN data' = Device, DOMAIN shown' = Device
  PROVE  SstInv'
<1> USE Names
<1>1. ProcessOf(b) /\ Domains /\ BootInv
  BY DEF SstInv
<1>2. /\ DOMAIN inbox' = Process /\ inbox'[child(b)] = Push(inbox[child(b)], Msg(SST(b), v))
      /\ \A p \in Process : p # child(b) => inbox'[p] = inbox[p]
  BY <1>1, SendEffect DEF Respond, Domains
<1>3. Domains' /\ PanicExplained'
  BY <1>1, <1>2 DEF Respond, SstMoves, boot, users, Domains, PanicExplained
<1>4. /\ sstAt[b] = "serve" /\ sstAt'[b] = "receive"
      /\ \A a \in Asid \ {b} : sstAt'[a] = sstAt[a]
      /\ UNCHANGED <<machine, testAt, turn, payload, childAt, exc, memory, made, io, busy>>
  BY <1>1 DEF Respond, SstMoves, boot, users, Domains
<1>5. BootInv'
  BY <1>1, <1>2, <1>4, SameBoot
<1>6. \A a \in Asid \ {b} : Same(a)
  BY <1>2, <1>4 DEF Same
<1>7. ~ Sent(b, "user") /\ ~ Answered(b) /\ ~ Idle(b)
  BY <1>1 DEF ProcessOf, ExchangeOf
<1>8. inbox'[child(b)] \in Seq(ToChild(b)) /\ Len(inbox'[child(b)]) <= 1
  <2>1. Msg(SST(b), v) \in ToChild(b) /\ inbox[child(b)] = <<>> /\ <<>> \in Seq(ToChild(b))
    BY <1>7 DEF Msg, ToChild, Answered
  <2> DEFINE box == inbox[child(b)]
  <2>2. box \in Seq(ToChild(b)) /\ Len(box) = 0
    BY <2>1, EmptySeq
  <2> HIDE DEF box
  <2>3. /\ Push(box, Msg(SST(b), v)) \in Seq(ToChild(b))
        /\ Len(Push(box, Msg(SST(b), v))) = Len(box) + 1
    <3>1. Msg(SST(b), v) \in ToChild(b) /\ box \in Seq(ToChild(b))
      BY <2>1, <2>2
    <3> HIDE DEF box
    <3>2. QED
      BY ONLY <3>1, PushHas
  <2>4. inbox'[child(b)] = Push(box, Msg(SST(b), v))
    BY <1>2 DEF box
  <2>5. Len(Push(box, Msg(SST(b), v))) = 1
    BY <2>2, <2>3
  <2>6. inbox'[child(b)] \in Seq(ToChild(b))
    BY ONLY <2>3, <2>4
  <2>7. Len(inbox'[child(b)]) = 1
    BY ONLY <2>4, <2>5
  <2>8. QED
    BY ONLY <2>6, <2>7
<1>9. TypeOf(b)'
  BY <1>1, <1>2, <1>4, <1>8 DEF ProcessOf, TypeOf
<1>10. ~ Sent(b, "user")' /\ ~ Serving(b, "user")' /\ ~ Serving(b, "stack")' /\ ~ Idle(b)'
  BY <1>2, <1>4, <1>7 DEF Sent, Serving, Idle
<1>11. ExchangeOf(b)'
  BY <1>1, <1>2, <1>4, <1>8, <1>10 DEF ProcessOf, ExchangeOf, Sent, Idle
<1>12. TransferOf(b)'
  BY <1>1, <1>4 DEF ProcessOf, TransferOf
<1>13. QED
  BY <1>3, <1>5, <1>6, <1>9, <1>11, <1>12, OneProcess DEF ProcessOf

\* The SST tells test that it ends, or that it has trapped.
LEMMA ReportInv ==
  ASSUME SstInv, machine = "runs", NEW b \in Asid, NEW v \in {OK, "stack"},
         sstAt[b] = "serve", sstAt' = [sstAt EXCEPT ![b] = IF v = OK THEN "ending" ELSE "trapped"],
         v # OK => b \in Wild \cup Faulty, Send(SST(b), test, v), io[SST(b)] = "none",
         UNCHANGED <<machine, boot, payload, users, transfer>>
  PROVE  SstInv'
<1> USE Names
<1>1. ProcessOf(b) /\ Domains /\ BootInv
  BY DEF SstInv
<1>2. /\ DOMAIN inbox' = Process /\ inbox'[test] = Push(inbox[test], Msg(SST(b), v))
      /\ \A p \in Process : p # test => inbox'[p] = inbox[p]
  BY <1>1, SendEffect DEF Domains
<1>3. /\ sstAt'[b] = IF v = OK THEN "ending" ELSE "trapped"
      /\ \A a \in Asid \ {b} : sstAt'[a] = sstAt[a]
      /\ UNCHANGED <<machine, testAt, turn, payload, childAt, exc, memory, made, io, index, busy,
                     data, shown>>
  BY <1>1 DEF boot, users, transfer, Domains
<1>4. Domains' /\ PanicExplained'
  BY <1>1, <1>2, <1>3 DEF Domains, PanicExplained
<1>5. BootInv'
  <2>1. Msg(SST(b), v) \in ToTest /\ inbox[test] \in Seq(ToTest)
    BY <1>1 DEF Msg, ToTest, BootInv
  <2>2. /\ inbox'[test] \in Seq(ToTest)
        /\ \A k \in DOMAIN inbox'[test] :
             \/ inbox'[test][k] = Msg(SST(b), v)
             \/ \E i \in DOMAIN inbox[test] : inbox'[test][k] = inbox[test][i]
    BY <1>2, <2>1, PushHas
  <2>3. ASSUME NEW k \in DOMAIN inbox'[test], NEW a \in Asid, inbox'[test][k].m_sender = SST(a)
        PROVE  sstAt'[a] = IF inbox'[test][k].m_payload = OK THEN "ending" ELSE "trapped"
    <3>1. CASE inbox'[test][k] = Msg(SST(b), v)
      <4>1. inbox'[test][k].m_sender = SST(b) /\ inbox'[test][k].m_payload = v
        BY <3>1 DEF Msg
      <4>2. a = b
        BY <4>1, <2>3
      <4>3. QED
        BY <4>1, <4>2, <1>3
    <3>2. CASE \E i \in DOMAIN inbox[test] : inbox'[test][k] = inbox[test][i]
      <4>1. sstAt[a] = IF inbox'[test][k].m_payload = OK THEN "ending" ELSE "trapped"
        BY <3>2, <2>3, <1>1 DEF BootInv
      <4>2. a # b
        BY <4>1
      <4>3. QED
        BY <4>1, <4>2, <1>3
    <3>3. QED
      BY <2>2, <3>1, <3>2
  <2>4. turn \in 1..N /\ N \in Nat /\ (\A a \in turn..N : a \in Asid)
        /\ (\A a \in 1..(turn - 1) : a \in Asid)
    BY <1>1, SstAssumption DEF BootInv, Asid
  <2>5. /\ testAt' \in {"mutex", "spawn"} => \A a \in turn'..N : sstAt'[a] = "none"
        /\ testAt' = "join" => \A a \in 1..(turn' - 1) : sstAt'[a] = "ending"
        /\ testAt' \in {"final", "end"} => \A a \in Asid : sstAt'[a] = "ending"
    BY <1>1, <1>3, <2>4 DEF BootInv
  <2>6. QED
    BY <1>1, <1>3, <2>2, <2>3, <2>5 DEF BootInv
<1>6. \A a \in Asid \ {b} : Same(a)
  BY <1>2, <1>3 DEF Same
<1>7. TypeOf(b)'
  BY <1>1, <1>2, <1>3 DEF ProcessOf, TypeOf
<1>8. ExchangeOf(b)'
  BY <1>1, <1>2, <1>3 DEF ProcessOf, ExchangeOf, Sent, Serving, Answered, Idle
<1>9. TransferOf(b)'
  BY <1>1, <1>3 DEF ProcessOf, TransferOf
<1>10. QED
  BY <1>4, <1>5, <1>6, <1>7, <1>8, <1>9, OneProcess DEF ProcessOf

\* A process finds that its device has failed.
LEMMA PanicInv ==
  ASSUME SstInv, machine' = "panic", NEW p \in Process, io[p] = "failed",
         UNCHANGED <<boot, services, users, inbox, transfer>>
  PROVE  SstInv'
<1>1. /\ UNCHANGED <<testAt, turn, sstAt, payload, childAt, exc, memory, made, inbox, io, index,
                     busy, data, shown>>
  BY DEF boot, services, users, transfer
<1>2. Domains' /\ PanicExplained' /\ BootInv'
  BY <1>1 DEF SstInv, Domains, PanicExplained, BootInv
<1>3. \A a \in Asid : Same(a)
  BY <1>1 DEF Same
<1>4. QED
  BY <1>2, <1>3, SameProcess DEF SstInv

\* The nucleus gives up: two devices of one line, or everybody waiting.
NucleusPanics == getDevNumPanics \/ schedulerPanics

LEMMA NucleusPanicsInv ==
  ASSUME SstInv, NucleusPanics
  PROVE  SstInv'
<1>1. /\ UNCHANGED <<testAt, turn, sstAt, payload, childAt, exc, memory, made, inbox, io, index,
                     busy, data, shown>>
      /\ machine' = "panic" /\ (TwoOnOneLine \/ Stuck)
  BY DEF NucleusPanics, getDevNumPanics, schedulerPanics, boot, services, users, transfer
<1>2. (TwoOnOneLine \/ Stuck)'
  BY <1>1 DEF TwoOnOneLine, Stuck
<1>3. Domains' /\ PanicExplained' /\ BootInv'
  BY <1>1, <1>2 DEF SstInv, Domains, PanicExplained, BootInv
<1>4. \A a \in Asid : Same(a)
  BY <1>1 DEF Same
<1>5. QED
  BY <1>3, <1>4, SameProcess DEF SstInv

\* test is not at the device of an SST that serves.
LEMMA TestAway ==
  ASSUME SstInv, NEW a \in Asid, sstAt[a] = "serve"
  PROVE  io[test] = "none" /\ busy[terminal(1)] # test /\ testAt \notin {"final", "end"}
BY DEF SstInv, BootInv

\* The SST commands a device for the next character.
LEMMA SstEmitInv ==
  ASSUME SstInv, machine = "runs", NEW b \in Asid, Serving(b, "user"), memory[b].user \in Prints,
         NEW d \in {printer(b), terminal(b)}, NEW string, Emit(SST(b), d, string),
         UNCHANGED <<boot, services, users, inbox>>
  PROVE  SstInv'
<1> USE Names
<1>1. ProcessOf(b) /\ Domains /\ BootInv /\ sstAt[b] = "serve"
  BY DEF SstInv, Serving
<1>2. /\ io[SST(b)] = "none" /\ io'[SST(b)] = "asked" /\ busy'[d] = SST(b)
      /\ DOMAIN io' = Process /\ DOMAIN busy' = Device /\ DOMAIN data' = Device
      /\ \A p \in Process \ {SST(b)} : io'[p] = io[p]
      /\ \A e \in Device \ {d} : busy'[e] = busy[e]
      /\ UNCHANGED <<machine, testAt, turn, sstAt, payload, childAt, exc, memory, made, inbox, index,
                     shown>>
  BY <1>1 DEF Emit, boot, services, users, Domains
<1>3. Domains' /\ PanicExplained'
  BY <1>1, <1>2 DEF Domains, PanicExplained
<1>4. BootInv'
  <2>1. busy'[terminal(1)] = test <=> busy[terminal(1)] = test
    BY <1>1, <1>2, TestAway
  <2>2. QED
    BY <1>1, <1>2, <2>1, SameBoot
<1>5. \A a \in Asid \ {b} : Same(a)
  BY <1>2 DEF Same
<1>6. TypeOf(b)'
  BY <1>1, <1>2 DEF ProcessOf, TypeOf
<1>7. ExchangeOf(b)'
  BY <1>1, <1>2 DEF ProcessOf, ExchangeOf, Sent, Serving, Answered, Idle
<1>8. TransferOf(b)'
  BY <1>1, <1>2 DEF ProcessOf, TransferOf, Serving
<1>9. QED
  BY <1>3, <1>4, <1>5, <1>6, <1>7, <1>8, OneProcess DEF ProcessOf

\* It has found the right status.
LEMMA SstCheckInv ==
  ASSUME SstInv, machine = "runs", NEW b \in Asid, Check(SST(b)),
         UNCHANGED <<boot, services, users, inbox>>
  PROVE  SstInv'
<1> USE Names
<1>1. CASE io[SST(b)] = "done"
  <2>1. ProcessOf(b) /\ Domains /\ BootInv
    BY DEF SstInv
  <2>2. /\ io'[SST(b)] = "none" /\ DOMAIN io' = Process /\ DOMAIN index' = Process
        /\ \A p \in Process \ {SST(b)} : io'[p] = io[p]
        /\ UNCHANGED <<machine, testAt, turn, sstAt, payload, childAt, exc, memory, made, inbox,
                       busy, data, shown>>
    BY <1>1, <2>1 DEF Check, boot, services, users, Domains
  <2>3. Domains' /\ PanicExplained'
    BY <2>1, <2>2 DEF Domains, PanicExplained
  <2>4. BootInv'
    BY <2>1, <2>2, SameBoot
  <2>5. \A a \in Asid \ {b} : Same(a)
    BY <2>2 DEF Same
  <2>6. TypeOf(b)' /\ ExchangeOf(b)'
    BY <2>1, <2>2 DEF ProcessOf, TypeOf, ExchangeOf, Sent, Serving, Answered, Idle
  <2>7. TransferOf(b)'
    BY <1>1, <2>1, <2>2 DEF ProcessOf, TransferOf, Serving
  <2>8. QED
    BY <2>3, <2>4, <2>5, <2>6, <2>7, OneProcess DEF ProcessOf
<1>2. CASE io[SST(b)] # "done"
  BY <1>2, PanicInv DEF Check
<1>3. QED
  BY <1>1, <1>2

\* The services of the SST, all of them.
LEMMA SstServeInv ==
  ASSUME SstInv, machine = "runs", NEW b \in Asid, sstAt[b] = "serve", SstServe(b)
  PROVE  SstInv'
<1> USE Names
<1>1. /\ \/ Serving(b, "user") /\ Request(b) = memory[b].user /\ Request(b) \in RequestsOf(b)
         \/ Serving(b, "stack") /\ Request(b) = memory[b].stack /\ Request(b) \in TrapRequests
      /\ Domains
  BY Served DEF SstInv
<1>2. ASSUME Request(b).service_code \notin {"WRITEPRINTER", "WRITETERMINAL"} \/ Request(b).arg = NULL
      PROVE  io[SST(b)] = "none"
  BY <1>2, PrintsServed, Kinds
<1>3. CASE GetTod(b)
  <2>1. Serving(b, "user") /\ io[SST(b)] = "none"
    BY <1>1, <1>2, <1>3, Kinds DEF GetTod
  <2>2. /\ SstMoves(b, "serve", "receive") /\ Respond(b, "tod") /\ io' = io /\ busy' = busy
        /\ DOMAIN index' = Process /\ DOMAIN data' = Device /\ DOMAIN shown' = Device
    BY <1>1, <1>3 DEF GetTod, transfer, Domains
  <2>3. QED
    BY <2>1, <2>2, RespondInv
<1>4. CASE terminate(b)
  <2>1. io[SST(b)] = "none" /\ Send(SST(b), test, OK)
        /\ sstAt' = [sstAt EXCEPT ![b] = IF OK = OK THEN "ending" ELSE "trapped"]
        /\ UNCHANGED <<machine, boot, payload, users, transfer>>
    BY <1>2, <1>4 DEF terminate, SstMoves
  <2>2. QED
    BY <2>1, ReportInv
<1>5. CASE SstTrap(b)
  <2>1. io[SST(b)] = "none" /\ Send(SST(b), test, "stack") /\ b \in Wild
        /\ sstAt' = [sstAt EXCEPT ![b] = IF "stack" = OK THEN "ending" ELSE "trapped"]
        /\ UNCHANGED <<machine, boot, payload, users, transfer>>
    BY <1>1, <1>2, <1>5, Kinds DEF SstTrap, SstMoves, OK
  <2>2. QED
    BY <2>1, ReportInv
<1>6. CASE SstIgnore(b)
  <2>1. ProcessOf(b) /\ BootInv /\ io[SST(b)] = "none"
    BY <1>2, <1>6 DEF SstInv, SstIgnore
  <2>2. /\ sstAt'[b] = "receive" /\ \A a \in Asid \ {b} : sstAt'[a] = sstAt[a]
        /\ UNCHANGED <<machine, testAt, turn, payload, childAt, exc, memory, made, inbox, io, index,
                       busy, data, shown>>
        /\ sstAt' = [a \in Asid |-> sstAt'[a]]
    BY <1>1, <1>6 DEF SstIgnore, SstMoves, boot, users, transfer, Domains
  <2>3. Domains' /\ PanicExplained'
    BY <1>1, <2>2 DEF Domains, PanicExplained
  <2>4. BootInv'
    BY <2>1, <2>2, SameBoot
  <2>5. \A a \in Asid \ {b} : Same(a)
    BY <2>2 DEF Same
  <2>6. TypeOf(b)' /\ ExchangeOf(b)' /\ TransferOf(b)'
    BY <2>1, <2>2 DEF ProcessOf, TypeOf, ExchangeOf, TransferOf, Sent, Serving, Answered, Idle
  <2>7. QED
    BY <2>3, <2>4, <2>5, <2>6, OneProcess DEF ProcessOf
<1>7. CASE SstWrite(b)
  <2>1. Serving(b, "user") /\ memory[b].user \in Prints /\ DeviceOf(b) \in {printer(b), terminal(b)}
    BY <1>1, <1>7, Kinds DEF SstWrite, DeviceOf
  <2>2. CASE /\ SstMoves(b, "serve", "serve")
             /\ Write(SST(b), DeviceOf(b), Request(b).arg)
             /\ UNCHANGED <<boot, payload, users, inbox>>
    <3>1. UNCHANGED <<boot, services, users, inbox>>
      <4>1. sstAt' = sstAt
        BY <2>2, <1>1 DEF SstMoves, Domains
      <4>2. QED
        BY <2>2, <4>1 DEF services
    <3>2. CASE Emit(SST(b), DeviceOf(b), Request(b).arg)
      BY <2>1, <3>1, <3>2, SstEmitInv
    <3>3. CASE Check(SST(b))
      BY <3>1, <3>3, SstCheckInv
    <3>4. QED
      BY <2>2, <3>2, <3>3 DEF Write
  <2>3. CASE /\ SstMoves(b, "serve", "receive")
             /\ Written(SST(b), Request(b).arg)
             /\ Respond(b, "0")
    <3>1. /\ io[SST(b)] = "none" /\ io' = io /\ busy' = busy /\ DOMAIN index' = Process
          /\ DOMAIN data' = Device /\ DOMAIN shown' = Device
      BY <1>1, <2>3 DEF Written, Domains
    <3>2. QED
      BY <2>1, <2>3, <3>1, RespondInv
  <2>4. QED
    BY <1>7, <2>2, <2>3 DEF SstWrite
<1>8. CASE SstFault(b)
  <2>1. io[SST(b)] = "none" /\ Send(SST(b), test, "stack") /\ b \in Faulty
        /\ sstAt' = [sstAt EXCEPT ![b] = IF "stack" = OK THEN "ending" ELSE "trapped"]
        /\ UNCHANGED <<machine, boot, payload, users, transfer>>
    BY <1>8 DEF SstFault, SstMoves, OK
  <2>2. QED
    BY <2>1, ReportInv
<1>9. QED
  BY <1>3, <1>4, <1>5, <1>6, <1>7, <1>8 DEF SstServe

\* A device answers whoever has asked it.
LEMMA DeviceAnswerInv ==
  ASSUME SstInv, machine = "runs", NEW d \in Device, DeviceAnswer(d)
  PROVE  SstInv'
<1> USE Names
<1>1. Domains /\ BootInv /\ \A a \in Asid : ProcessOf(a)
  BY DEF SstInv
<1>2. busy[d] # NULL /\ \E a \in Asid : d = printer(a) \/ d = terminal(a)
  BY DEF DeviceAnswer, Device
<1>3. /\ io' = [io EXCEPT ![busy[d]] = "done"] \/ io' = [io EXCEPT ![busy[d]] = "failed"]
      /\ busy' = [busy EXCEPT ![d] = NULL]
      /\ shown' = shown \/ shown' = [shown EXCEPT ![d] = Append(@, data[d])]
      /\ UNCHANGED <<machine, testAt, turn, sstAt, payload, childAt, exc, memory, made, inbox, index,
                     data>>
  BY DEF DeviceAnswer, boot, services, users
<1>4. Domains' /\ PanicExplained'
  BY <1>1, <1>3 DEF Domains, PanicExplained
<1>5. CASE busy[d] = test
  <2>1. d = terminal(1) /\ io[test] = "asked"
    <3>1. \A a \in Asid : busy[printer(a)] # test /\ (busy[terminal(a)] = test => a = 1)
      BY <1>1 DEF ProcessOf, TransferOf
    <3>2. d = terminal(1)
      BY <1>2, <1>5, <3>1
    <3>3. QED
      BY <1>1, <1>5, <3>2 DEF BootInv
  <2>2. /\ io'[test] \in {"done", "failed"} /\ busy'[terminal(1)] = NULL
        /\ \A p \in Process \ {test} : io'[p] = io[p]
        /\ \A e \in Device \ {terminal(1)} : busy'[e] = busy[e]
    BY <1>1, <1>3, <1>5, <2>1 DEF Domains
  <2>3. BootInv'
    <3>1. io'[test] # "asked" /\ busy'[terminal(1)] # test
      BY <2>2
    <3>2. QED
      BY <1>1, <1>3, <2>1, <2>2, <3>1 DEF BootInv
  <2>4. ASSUME NEW a \in Asid PROVE ProcessOf(a)'
    <3>1. TypeOf(a)' /\ ExchangeOf(a)'
      BY <1>1, <1>3 DEF ProcessOf, TypeOf, ExchangeOf, Sent, Serving, Answered, Idle
    <3>2. TransferOf(a)'
      <4>1. io'[SST(a)] = io[SST(a)] /\ io'[child(a)] = io[child(a)] /\ busy'[printer(a)] = busy[printer(a)]
        BY <2>2
      <4>2. IF a = 1 THEN busy'[terminal(a)] = NULL /\ busy[terminal(a)] = test
            ELSE busy'[terminal(a)] = busy[terminal(a)]
        BY <1>5, <2>1, <2>2
      <4>3. QED
        BY <1>1, <1>3, <4>1, <4>2 DEF ProcessOf, TransferOf, Serving
    <3>3. QED
      BY <3>1, <3>2 DEF ProcessOf
  <2>5. QED
    BY <1>4, <2>3, <2>4 DEF SstInv
<1>6. CASE busy[d] # test
  <2>1. PICK b \in Asid : busy[d] = SST(b) /\ d \in {printer(b), terminal(b)}
    BY <1>1, <1>2, <1>6 DEF ProcessOf, TransferOf
  <2>2. /\ io'[SST(b)] \in {"done", "failed"} /\ busy'[d] = NULL
        /\ \A p \in Process \ {SST(b)} : io'[p] = io[p]
        /\ \A e \in Device \ {d} : busy'[e] = busy[e]
    BY <1>1, <1>3, <2>1 DEF Domains
  <2>3. BootInv'
    <3>1. busy'[terminal(1)] = test <=> busy[terminal(1)] = test
      BY <2>1, <2>2
    <3>2. QED
      BY <1>1, <1>3, <2>2, <3>1, SameBoot
  <2>4. \A a \in Asid \ {b} : Same(a)
    BY <1>3, <2>1, <2>2 DEF Same
  <2>5. io[SST(b)] = "asked"
    BY <1>1, <2>1 DEF ProcessOf, TransferOf
  <2>6. TypeOf(b)' /\ ExchangeOf(b)'
    BY <1>1, <1>3 DEF ProcessOf, TypeOf, ExchangeOf, Sent, Serving, Answered, Idle
  <2>7. TransferOf(b)'
    BY <1>1, <1>3, <2>1, <2>2, <2>5 DEF ProcessOf, TransferOf, Serving
  <2>8. QED
    BY <1>4, <2>3, <2>4, <2>6, <2>7, OneProcess DEF ProcessOf
<1>7. QED
  BY <1>5, <1>6

\* test creates the SSTs.
LEMMA TestSpawnInv ==
  ASSUME SstInv, machine = "runs", TestCreateMutex \/ spawn_sst \/ TestEnd
  PROVE  SstInv'
<1> USE Names
<1>1. Domains /\ BootInv /\ \A a \in Asid : ProcessOf(a)
  BY DEF SstInv
<1>2. /\ turn \in 1..N /\ N \in Nat /\ turn \in Int
      /\ \A a : a \in Asid <=> a \in 1..N
  BY <1>1, SstAssumption DEF BootInv, Asid
<1>3. CASE TestCreateMutex \/ TestEnd
  <2>1. /\ \/ testAt = "mutex" /\ testAt' = "spawn" /\ machine' = machine
           \/ testAt = "end" /\ testAt' = "end" /\ machine' = "halted"
        /\ UNCHANGED <<turn, sstAt, payload, childAt, exc, memory, made, inbox, io, index, busy,
                       data, shown>>
    BY <1>3 DEF TestCreateMutex, TestEnd, boot, services, users, transfer
  <2>2. Domains' /\ PanicExplained'
    BY <1>1, <2>1 DEF Domains, PanicExplained
  <2>3. BootInv'
    BY <1>1, <2>1 DEF BootInv
  <2>4. \A a \in Asid : Same(a)
    BY <2>1 DEF Same
  <2>5. QED
    BY <1>1, <2>2, <2>3, <2>4, SameProcess DEF SstInv
<1>4. CASE spawn_sst
  <2>1. /\ testAt = "spawn" /\ sstAt'[turn] = "start" /\ sstAt' = [a \in Asid |-> sstAt'[a]]
        /\ \A a \in Asid \ {turn} : sstAt'[a] = sstAt[a]
        /\ IF turn = N THEN testAt' = "join" /\ turn' = 1
                       ELSE testAt' = "spawn" /\ turn' = turn + 1
        /\ UNCHANGED <<machine, payload, childAt, exc, memory, made, inbox, io, index, busy,
                       data, shown>>
    BY <1>1, <1>2, <1>4 DEF spawn_sst, users, transfer, Domains
  <2>2. Domains' /\ PanicExplained'
    BY <1>1, <2>1 DEF Domains, PanicExplained
  <2>3. sstAt[turn] = "none" /\ \A a \in turn..N : sstAt[a] = "none"
    BY <1>1, <1>2, <2>1 DEF BootInv
  <2>4. BootInv'
    <3>1. turn' \in Asid
      BY <1>2, <2>1
    <3>2. testAt' \in {"mutex", "spawn"} => \A a \in turn'..N : sstAt'[a] = "none"
      BY <1>2, <2>1, <2>3
    <3>3. testAt' = "join" => \A a \in 1..(turn' - 1) : sstAt'[a] = "ending"
      BY <1>2, <2>1
    <3>4. \A i \in DOMAIN inbox[test] : \A a \in Asid :
            inbox[test][i].m_sender = SST(a) =>
              sstAt'[a] = IF inbox[test][i].m_payload = OK THEN "ending" ELSE "trapped"
      BY <1>1, <2>1, <2>3 DEF BootInv
    <3>5. QED
      BY <1>1, <2>1, <3>1, <3>2, <3>3, <3>4 DEF BootInv
  <2>5. PICK b \in Asid : b = turn
    BY <1>2
  <2>6. \A a \in Asid \ {b} : Same(a)
    BY <2>1, <2>5 DEF Same
  <2>7. ProcessOf(b)'
    <3>1. TypeOf(b) /\ ExchangeOf(b) /\ TransferOf(b) /\ sstAt'[b] = "start"
      BY <1>1, <2>1, <2>5 DEF ProcessOf
    <3>2. sstAt[b] = "none" /\ childAt[b] = "none"
      BY <2>3, <2>5, <3>1 DEF ExchangeOf
    <3>3. TypeOf(b)'
      BY <2>1, <3>1 DEF TypeOf
    <3>4. ExchangeOf(b)'
      BY <2>1, <3>1, <3>2 DEF ExchangeOf, Sent, Serving, Answered, Idle
    <3>5. TransferOf(b)'
      BY <2>1, <3>1, <3>2 DEF TransferOf, Serving
    <3>6. QED
      BY <3>3, <3>4, <3>5 DEF ProcessOf
  <2>8. QED
    BY <2>2, <2>4, <2>6, <2>7, OneProcess
<1>5. QED
  BY <1>3, <1>4

\* test waits for them.
LEMMA TestJoinInv ==
  ASSUME SstInv, machine = "runs", TestJoin
  PROVE  SstInv'
<1> USE Names
<1>1. Domains /\ BootInv /\ \A a \in Asid : ProcessOf(a)
  BY DEF SstInv
<1>2. /\ turn \in 1..N /\ N \in Nat /\ turn \in Int /\ turn \in Asid
      /\ \A a : a \in Asid <=> a \in 1..N
  BY <1>1, SstAssumption DEF BootInv, Asid
<1>3. PICK i \in DOMAIN inbox[test] :
        /\ Receive(test, SST(turn), i)
        /\ IF inbox[test][i].m_payload # OK
             THEN machine' = "panic" /\ UNCHANGED boot
             ELSE /\ turn' = IF turn = N THEN 1 ELSE turn + 1
                  /\ testAt' = IF turn = N THEN "final" ELSE "join"
                  /\ UNCHANGED machine
  BY DEF TestJoin
<1>4. /\ DOMAIN inbox' = Process /\ inbox'[test] = Rest(inbox[test], i)
      /\ \A p \in Process \ {test} : inbox'[p] = inbox[p]
      /\ inbox[test][i].m_sender = SST(turn)
  <2>1. DOMAIN inbox = Process /\ Receive(test, SST(turn), i) /\ SST(turn) # NULL
    BY <1>1, <1>2, <1>3 DEF Domains
  <2>2. QED
    BY <2>1, ReceiveEffect
<1>5. UNCHANGED <<sstAt, payload, childAt, exc, memory, made, io, index, busy, data, shown>>
      /\ testAt = "join"
  BY DEF TestJoin, services, users, transfer
<1>6. sstAt[turn] = IF inbox[test][i].m_payload = OK THEN "ending" ELSE "trapped"
  BY <1>1, <1>2, <1>4 DEF BootInv
<1>7. /\ inbox'[test] \in Seq(ToTest)
      /\ \A k \in DOMAIN inbox'[test] : \E j \in DOMAIN inbox[test] : inbox'[test][k] = inbox[test][j]
  <2> DEFINE box == inbox[test]
  <2>1. box \in Seq(ToTest) /\ i \in DOMAIN box /\ inbox'[test] = Rest(box, i)
    BY <1>1, <1>4 DEF BootInv
  <2> HIDE DEF box
  <2>2. /\ Rest(box, i) \in Seq(ToTest)
        /\ \A k \in DOMAIN Rest(box, i) : \E j \in DOMAIN box : Rest(box, i)[k] = box[j]
    BY <2>1, RestHas
  <2>3. QED
    BY <2>1, <2>2 DEF box
<1>8. \A k \in DOMAIN inbox'[test] : \A a \in Asid :
        inbox'[test][k].m_sender = SST(a) =>
          sstAt'[a] = IF inbox'[test][k].m_payload = OK THEN "ending" ELSE "trapped"
  BY <1>1, <1>5, <1>7 DEF BootInv
<1>9. Domains' /\ \A a \in Asid : Same(a)
  BY <1>1, <1>4, <1>5 DEF Domains, Same
<1>10. CASE inbox[test][i].m_payload # OK
  <2>1. machine' = "panic" /\ UNCHANGED <<testAt, turn>> /\ sstAt[turn] = "trapped"
    BY <1>3, <1>6, <1>10 DEF boot
  <2>2. PanicExplained'
    <3>1. turn \in Wild \cup Faulty
      BY <1>1, <1>2, <2>1 DEF ProcessOf, ExchangeOf
    <3>2. QED
      BY <1>5, <2>1, <3>1 DEF PanicExplained
  <2>3. BootInv'
    BY <1>1, <1>5, <1>7, <1>8, <2>1 DEF BootInv
  <2>4. QED
    BY <1>1, <1>9, <2>2, <2>3, SameProcess DEF SstInv
<1>11. CASE inbox[test][i].m_payload = OK
  <2>1. /\ turn' = (IF turn = N THEN 1 ELSE turn + 1)
        /\ testAt' = (IF turn = N THEN "final" ELSE "join")
        /\ machine' = machine /\ sstAt[turn] = "ending"
    BY <1>3, <1>6, <1>11
  <2>2. \A a \in 1..turn : sstAt[a] = "ending"
    <3>1. \A a \in 1..(turn - 1) : sstAt[a] = "ending"
      BY <1>1, <1>5 DEF BootInv
    <3>2. \A a \in 1..turn : a = turn \/ a \in 1..(turn - 1)
      BY <1>2
    <3>3. QED
      BY <2>1, <3>1, <3>2
  <2>3. PanicExplained'
    BY <2>1 DEF PanicExplained
  <2>4. BootInv'
    <3>1. turn' \in Asid
      BY <1>2, <2>1
    <3>2. testAt' = "join" => \A a \in 1..(turn' - 1) : sstAt'[a] = "ending"
      BY <1>2, <1>5, <2>1, <2>2
    <3>3. testAt' = "final" => \A a \in Asid : sstAt'[a] = "ending"
      BY <1>2, <1>5, <2>1, <2>2
    <3>4. testAt' \in {"join", "final"} /\ io'[test] = "none"
      BY <1>1, <1>5, <2>1 DEF BootInv
    <3>5. QED
      BY <1>1, <1>5, <1>7, <1>8, <2>1, <3>1, <3>2, <3>3, <3>4 DEF BootInv
  <2>5. QED
    BY <1>1, <1>9, <2>3, <2>4, SameProcess DEF SstInv
<1>12. QED
  BY <1>10, <1>11

\* test shows the final message on the terminal that was of the first SST.
LEMMA TestFinalInv ==
  ASSUME SstInv, machine = "runs", TestFinal
  PROVE  SstInv'
<1> USE Names
<1>1. Domains /\ BootInv /\ \A a \in Asid : ProcessOf(a)
  BY DEF SstInv
<1>2. testAt = "final" /\ UNCHANGED <<sstAt, payload, childAt, exc, memory, made, inbox>>
  BY DEF TestFinal, services, users
<1>3. CASE Emit(test, terminal(1), FINAL) /\ UNCHANGED boot
  <2>1. /\ io[test] = "none" /\ io'[test] = "asked" /\ busy'[terminal(1)] = test
        /\ DOMAIN io' = Process /\ DOMAIN busy' = Device /\ DOMAIN data' = Device
        /\ \A p \in Process \ {test} : io'[p] = io[p]
        /\ \A e \in Device \ {terminal(1)} : busy'[e] = busy[e]
        /\ UNCHANGED <<machine, testAt, turn, index, shown>>
    BY <1>1, <1>3 DEF Emit, boot, Domains
  <2>2. Domains' /\ PanicExplained'
    BY <1>1, <1>2, <2>1 DEF Domains, PanicExplained
  <2>3. BootInv'
    BY <1>1, <1>2, <2>1 DEF BootInv
  <2>4. \A a \in Asid \ {1} : Same(a)
    BY <1>2, <2>1 DEF Same
  <2>5. ProcessOf(1)'
    <3>1. sstAt[1] = "ending" /\ ProcessOf(1)
      BY <1>1, <1>2 DEF BootInv
    <3>2. io[SST(1)] = "none"
      BY <3>1 DEF ProcessOf, TransferOf, Serving
    <3>3. TypeOf(1)' /\ ExchangeOf(1)'
      BY <1>2, <3>1 DEF ProcessOf, TypeOf, ExchangeOf, Sent, Serving, Answered, Idle
    <3>4. TransferOf(1)'
      BY <1>2, <2>1, <3>1, <3>2 DEF ProcessOf, TransferOf, Serving
    <3>5. QED
      BY <3>3, <3>4 DEF ProcessOf
  <2>6. QED
    BY <2>2, <2>3, <2>4, <2>5, OneProcess
<1>4. CASE io[test] = "done" /\ Check(test) /\ UNCHANGED boot
  <2>1. /\ io[test] = "done" /\ io'[test] = "none" /\ DOMAIN io' = Process /\ DOMAIN index' = Process
        /\ \A p \in Process \ {test} : io'[p] = io[p]
        /\ UNCHANGED <<machine, testAt, turn, busy, data, shown>>
    BY <1>1, <1>4 DEF Check, boot, Domains
  <2>2. Domains' /\ PanicExplained'
    BY <1>1, <1>2, <2>1 DEF Domains, PanicExplained
  <2>3. BootInv'
    BY <1>1, <1>2, <2>1 DEF BootInv
  <2>4. \A a \in Asid : Same(a)
    BY <1>2, <2>1 DEF Same
  <2>5. QED
    BY <1>1, <2>2, <2>3, <2>4, SameProcess DEF SstInv
<1>5. CASE io[test] # "done" /\ Check(test) /\ UNCHANGED boot
  BY <1>2, <1>5, PanicInv DEF Check, services, users
<1>6. CASE Written(test, FINAL) /\ testAt' = "end" /\ UNCHANGED <<machine, turn>>
  <2>1. io[test] = "none" /\ DOMAIN index' = Process /\ UNCHANGED <<io, busy, data, shown>>
    BY <1>1, <1>6 DEF Written, Domains
  <2>2. Domains' /\ PanicExplained'
    BY <1>1, <1>2, <1>6, <2>1 DEF Domains, PanicExplained
  <2>3. BootInv'
    BY <1>1, <1>2, <1>6, <2>1 DEF BootInv
  <2>4. \A a \in Asid : Same(a)
    BY <1>2, <2>1 DEF Same
  <2>5. QED
    BY <1>1, <2>2, <2>3, <2>4, SameProcess DEF SstInv
<1>7. QED
  BY <1>3, <1>4, <1>5, <1>6 DEF TestFinal, Write

\* Every step keeps the invariant.
LEMMA SstNextInv == SstInv /\ [SstNext]_sstVars => SstInv'
<1> SUFFICES ASSUME SstInv, [SstNext]_sstVars PROVE SstInv'
  OBVIOUS
<1>1. CASE UNCHANGED sstVars
  <2>1. /\ UNCHANGED <<machine, testAt, turn, sstAt, payload, childAt, exc, memory, made, inbox, io,
                       index, busy, data, shown>>
    BY <1>1 DEF sstVars, boot, services, users, transfer
  <2>2. Domains' /\ PanicExplained' /\ BootInv'
    BY <2>1 DEF SstInv, Domains, PanicExplained, TwoOnOneLine, Stuck, BootInv
  <2>3. \A a \in Asid : Same(a)
    BY <2>1 DEF Same
  <2>4. QED
    BY <2>2, <2>3, SameProcess DEF SstInv
<1>2. ASSUME machine = "runs", TestStep PROVE SstInv'
  BY <1>2, TestSpawnInv, TestJoinInv, TestFinalInv DEF TestStep
<1>3. ASSUME machine = "runs", NEW a \in Asid, SSTServer(a) PROVE SstInv'
  BY <1>3, SstStartInv, SstReceiveInv, SstServeInv DEF SSTServer
<1>4. ASSUME machine = "runs", NEW a \in Asid, UserStep(a) PROVE SstInv'
  BY <1>4, UserWaitInv, UserCallInv DEF UserStep
<1>5. ASSUME machine = "runs", NEW a \in Asid, UserAwait(a) PROVE SstInv'
  BY <1>5, UserWaitInv
<1>6. ASSUME machine = "runs", NEW a \in Asid, GeneralExceptionHandlerSupport(a) PROVE SstInv'
  BY <1>6, HandleSendInv, HandleReceiveInv, HandleTrapInv DEF GeneralExceptionHandlerSupport
<1>7. ASSUME machine = "runs", NEW d \in Device, DeviceAnswer(d) PROVE SstInv'
  BY <1>7, DeviceAnswerInv
<1>8. ASSUME NucleusPanics PROVE SstInv'
  BY <1>8, NucleusPanicsInv
<1>9. QED
  BY <1>1, <1>2, <1>3, <1>4, <1>5, <1>6, <1>7, <1>8 DEF SstNext, Runs, NucleusPanics

\* The exchange of a request and its answer between a user process and its SST
\* (exceptionsSupport.c, phase3/syscall.c, sst.c:149-176) is one at a time, and
\* test (initProc.c:61-124) knows which SSTs are at their end.
THEOREM SstInvariant == SstSpec => []SstInv
<1>1. SstInit => SstInv
  BY InitSstInv
<1>2. SstInv /\ [SstNext]_sstVars => SstInv'
  BY SstNextInv
<1>3. QED
  BY <1>1, <1>2, PTL DEF SstSpec

\* sst.c:68-69, ssi.c:72-82: the slot of blocked_dev of a device is written by
\* one process at a time, though test prints on the terminal of the first SST:
\* whoever waits for a device gets its answer.
THEOREM AnswersArrive == SstSpec => []NoLostAnswer
<1>1. SstInv => NoLostAnswer
  <2> SUFFICES ASSUME SstInv, NEW p \in Process, io[p] = "asked" PROVE \E d \in Device : busy[d] = p
    BY DEF NoLostAnswer
  <2>1. CASE p = test
    BY <2>1, Names DEF SstInv, BootInv
  <2>2. CASE \E a \in Asid : p = SST(a)
    BY <2>2, Names DEF SstInv, ProcessOf, TransferOf
  <2>3. CASE \E a \in Asid : p = child(a)
    BY <2>3 DEF SstInv, ProcessOf, TransferOf
  <2>4. QED
    BY <2>1, <2>2, <2>3 DEF Process
<1>2. QED
  BY <1>1, SstInvariant, PTL

\* initProc.c:103, sst.c:71, 106, interrupts.c:37, scheduler.c:25: the system gives
\* up for a wild pointer, a page of an SST that has failed to come
\* (vmSupport.c:142, 150), a failed device, two devices of one line at once or
\* everybody waiting; no end of a user process and no order of the reports makes
\* test give up.
THEOREM PanicHasAReason == SstSpec => []PanicExplained
<1>1. SstInv => PanicExplained
  BY DEF SstInv
<1>2. QED
  BY <1>1, SstInvariant, PTL
-----------------------------------------------------------------------------
\* What Join sees of the state.
Working == {a \in Asid : sstAt[a] # "ending"}
Ending  == IF machine = "panic" THEN "panic"
           ELSE IF machine = "halted" THEN "halted"
           ELSE IF testAt \in {"final", "end"} THEN "announced" ELSE "no"

LEMMA JoinView ==
  /\ J!JoinInit <=> Working = Asid /\ Ending = "no"
  /\ J!JoinNext <=>
       \/ \E w \in Asid : /\ w \in Working /\ Ending = "no"
                           /\ Working' = Working \ {w} /\ Ending' = Ending
       \/ Working = {} /\ Ending = "no" /\ Ending' = "announced" /\ Working' = Working
       \/ Ending = "announced" /\ Ending' = "halted" /\ Working' = Working
       \/ Ending \in {"no", "announced"} /\ Ending' = "panic" /\ Working' = Working
  /\ UNCHANGED J!joinVars <=> Working' = Working /\ Ending' = Ending
BY DEF Working, Ending, J!JoinInit, J!JoinNext, J!joinVars, J!Finish, J!Announce, J!Halt, J!GiveUp

\* A step of the system is a step of Join or none.
LEMMA JoinStep == SstInv /\ [SstNext]_sstVars => [J!JoinNext]_J!joinVars
<1> SUFFICES ASSUME SstInv, [SstNext]_sstVars
             PROVE  J!JoinNext \/ UNCHANGED J!joinVars
  OBVIOUS
<1> USE Names
<1>1. Domains /\ BootInv
  BY DEF SstInv
<1>2. machine = "runs" => Ending = (IF testAt \in {"final", "end"} THEN "announced" ELSE "no")
  BY DEF Ending
<1>3. ASSUME machine' = machine, testAt' = testAt,
             \A a \in Asid : sstAt'[a] = "ending" <=> sstAt[a] = "ending"
      PROVE  UNCHANGED J!joinVars
  <2>1. Working' = Working /\ Ending' = Ending
    BY <1>3 DEF Working, Ending
  <2>2. QED
    BY <2>1, JoinView
<1>4. ASSUME machine = "runs", machine' = "panic", sstAt' = sstAt PROVE J!JoinNext
  <2>1. Working' = Working /\ Ending' = "panic" /\ Ending \in {"no", "announced"}
    BY <1>2, <1>4 DEF Working, Ending
  <2>2. QED
    BY <2>1, JoinView
<1>5. ASSUME machine = "runs", TestStep PROVE J!JoinNext \/ UNCHANGED J!joinVars
  <2>1. CASE TestCreateMutex
    <3>1. machine' = machine /\ sstAt' = sstAt /\ testAt = "mutex" /\ testAt' = "spawn"
      BY <2>1 DEF TestCreateMutex, services
    <3>2. Working' = Working /\ Ending' = Ending
      BY <3>1 DEF Working, Ending
    <3>3. QED
      BY <3>2, JoinView
  <2>2. CASE spawn_sst
    <3>1. /\ machine' = machine /\ testAt = "spawn" /\ testAt' \in {"spawn", "join"}
          /\ sstAt' = [sstAt EXCEPT ![turn] = "start"]
      BY <2>2 DEF spawn_sst
    <3>2. sstAt[turn] = "none"
      <4>1. turn \in turn..N
        BY <1>1, SstAssumption DEF BootInv, Asid
      <4>2. QED
        BY <1>1, <3>1, <4>1 DEF BootInv
    <3>3. Working' = Working /\ Ending' = Ending
      BY <1>1, <3>1, <3>2 DEF Working, Ending, Domains
    <3>4. QED
      BY <3>3, JoinView
  <2>3. CASE TestJoin
    <3>1. /\ testAt = "join" /\ sstAt' = sstAt
          /\ \/ machine' = "panic"
             \/ machine' = machine /\ testAt' = IF turn = N THEN "final" ELSE "join"
      BY <2>3 DEF TestJoin, services
    <3>2. CASE machine' = "panic"
      BY <1>4, <1>5, <3>1, <3>2
    <3>3. CASE machine' = machine /\ testAt' = testAt
      BY <1>3, <3>1, <3>3
    <3>4. CASE machine' = machine /\ testAt' = "final"
      <4>1. Working' = Working /\ Ending = "no" /\ Ending' = "announced"
        BY <1>5, <3>1, <3>4 DEF Working, Ending
      <4>2. BootInv'
        BY <1>5, <2>3, TestJoinInv DEF SstInv
      <4>3. \A a \in Asid : sstAt[a] = "ending"
        BY <3>1, <3>4, <4>2 DEF BootInv
      <4>4. Working = {}
        BY <4>3 DEF Working
      <4>5. QED
        BY <4>1, <4>4, JoinView
    <3>5. QED
      BY <3>1, <3>2, <3>3, <3>4
  <2>4. CASE TestFinal
    <3>1. testAt = "final" /\ testAt' \in {"final", "end"} /\ sstAt' = sstAt
          /\ machine' \in {machine, "panic"}
      BY <2>4 DEF TestFinal, Write, Emit, Check, boot, services
    <3>2. CASE machine' = "panic"
      BY <1>4, <1>5, <3>1, <3>2
    <3>3. CASE machine' = machine
      <4>1. Working' = Working /\ Ending' = Ending
        BY <3>1, <3>3 DEF Working, Ending
      <4>2. QED
        BY <4>1, JoinView
    <3>4. QED
      BY <3>1, <3>2, <3>3
  <2>5. CASE TestEnd
    <3>1. testAt = "end" /\ machine' = "halted" /\ sstAt' = sstAt
      BY <2>5 DEF TestEnd, services
    <3>2. Working' = Working /\ Ending = "announced" /\ Ending' = "halted"
      BY <1>5, <3>1 DEF Working, Ending
    <3>3. QED
      BY <3>2, JoinView
  <2>6. QED
    BY <1>5, <2>1, <2>2, <2>3, <2>4, <2>5 DEF TestStep
<1>6. ASSUME machine = "runs", NEW a \in Asid, SSTServer(a)
      PROVE  J!JoinNext \/ UNCHANGED J!joinVars
  <2>1. CASE SstStart(a) \/ SstReceive(a)
    <3>1. machine' = machine /\ testAt' = testAt
          /\ \E to \in {"receive", "serve"} : sstAt' = [sstAt EXCEPT ![a] = to]
          /\ sstAt[a] # "ending"
      BY <2>1 DEF SstStart, SstReceive, SstMoves, boot
    <3>2. \A b \in Asid : sstAt'[b] = "ending" <=> sstAt[b] = "ending"
      BY <1>1, <3>1 DEF Domains
    <3>3. QED
      BY <1>3, <3>1, <3>2
  <2>2. CASE sstAt[a] = "serve" /\ terminate(a)
    <3>1. /\ machine' = machine /\ testAt' = testAt /\ sstAt' = [sstAt EXCEPT ![a] = "ending"]
      BY <2>2 DEF terminate, SstMoves, boot
    <3>2. testAt \notin {"final", "end"}
      BY <2>2, TestAway
    <3>3. a \in Working /\ Working' = Working \ {a} /\ Ending = "no" /\ Ending' = Ending
      BY <1>1, <1>6, <2>2, <3>1, <3>2 DEF Working, Ending, Domains
    <3>4. QED
      BY <3>3, JoinView
  <2>3. CASE sstAt[a] = "serve" /\ (GetTod(a) \/ SstIgnore(a) \/ SstTrap(a) \/ SstFault(a))
    <3>1. machine' = machine /\ testAt' = testAt
          /\ \E to \in {"receive", "trapped"} : sstAt' = [sstAt EXCEPT ![a] = to]
      BY <2>3 DEF GetTod, SstIgnore, SstTrap, SstFault, Respond, SstMoves, boot
    <3>2. \A b \in Asid : sstAt'[b] = "ending" <=> sstAt[b] = "ending"
      BY <1>1, <2>3, <3>1 DEF Domains
    <3>3. QED
      BY <1>3, <3>1, <3>2
  <2>4. CASE sstAt[a] = "serve" /\ SstWrite(a)
    <3>1. /\ machine' \in {machine, "panic"} /\ testAt' = testAt
          /\ machine' # machine => SstMoves(a, "serve", "serve")
          /\ \E to \in {"serve", "receive"} : sstAt' = [sstAt EXCEPT ![a] = to]
      BY <2>4 DEF SstWrite, Write, Emit, Check, Respond, SstMoves, boot
    <3>2. \A b \in Asid : sstAt'[b] = "ending" <=> sstAt[b] = "ending"
      BY <1>1, <2>4, <3>1 DEF Domains
    <3>3. CASE machine' = machine
      BY <1>3, <3>1, <3>2, <3>3
    <3>4. CASE machine' # machine
      <4>1. sstAt' = sstAt
        BY <1>1, <2>4, <3>1, <3>4 DEF SstMoves, Domains
      <4>2. QED
        BY <1>4, <1>6, <3>1, <3>4, <4>1
    <3>5. QED
      BY <3>3, <3>4
  <2>5. QED
    BY <1>6, <2>1, <2>2, <2>3, <2>4 DEF SSTServer, SstServe
<1>7. ASSUME NEW a \in Asid, UserStep(a) \/ UserAwait(a) \/ GeneralExceptionHandlerSupport(a)
      PROVE  J!JoinNext \/ UNCHANGED J!joinVars
  <2>1. machine' = machine /\ testAt' = testAt /\ sstAt' = sstAt
    BY <1>7 DEF UserStep, UserTrap, UserCall, UserAwait, GeneralExceptionHandlerSupport, HandleSend,
         HandleReceive, HandleTrap, TrapReturns, services, boot
  <2>2. QED
    BY <1>3, <2>1
<1>8. ASSUME NEW d \in Device, DeviceAnswer(d) PROVE J!JoinNext \/ UNCHANGED J!joinVars
  <2>1. machine' = machine /\ testAt' = testAt /\ sstAt' = sstAt
    BY <1>8 DEF DeviceAnswer, services, boot
  <2>2. QED
    BY <1>3, <2>1
<1>9. CASE UNCHANGED sstVars
  <2>1. machine' = machine /\ testAt' = testAt /\ sstAt' = sstAt
    BY <1>9 DEF sstVars, services, boot
  <2>2. QED
    BY <1>3, <2>1
<1>10. ASSUME machine = "runs", NucleusPanics PROVE J!JoinNext
  <2>1. machine' = "panic" /\ sstAt' = sstAt
    BY <1>10 DEF NucleusPanics, getDevNumPanics, schedulerPanics, services
  <2>2. QED
    BY <1>4, <1>10, <2>1
<1>11. QED
  BY <1>5, <1>6, <1>7, <1>8, <1>9, <1>10 DEF SstNext, Runs, NucleusPanics

\* initProc.c:101-121: though test receives the ends one by one and in its own
\* order, the final message comes after all of them, and HALT after the message.
THEOREM JoinImplemented == SstSpec => ImplementsJoin
<1>1. SstInit => J!JoinInit
  <2> SUFFICES ASSUME SstInit PROVE Working = Asid /\ Ending = "no"
    BY JoinView
  <2>1. QED
    BY DEF SstInit, Working, Ending
<1>2. SstInv /\ [SstNext]_sstVars => [J!JoinNext]_J!joinVars
  BY JoinStep
<1>3. QED
  BY <1>1, <1>2, SstInvariant, PTL DEF SstSpec, ImplementsJoin, J!JoinSpec
-----------------------------------------------------------------------------
\* f are the strings of the first, the first two, ... requests for a service.
Unfolds(f, requests, service) ==
  /\ f[0] = <<>>
  /\ \A n \in 1..Len(requests) : f[n] = f[n - 1] \o Part(requests[n], service)
  /\ Joined(requests, service) = f[Len(requests)]

\* The strings of all the requests for a service, in the terms of its recursion.
LEMMA JoinedUnfolds ==
  ASSUME NEW R, NEW requests \in Seq(R), NEW service,
         \A r \in R : Part(r, service) \in Seq(Char)
  PROVE  \E f \in [0..Len(requests) -> Seq(Char)] : Unfolds(f, requests, service)
<1> DEFINE X == Seq(Char)
           L == Len(requests)
           T(i) == IF i \in 1..L THEN Part(requests[i], service) ELSE <<>>
           step == [i \in Nat |-> [y \in X |-> y \o T(i + 1)]]
           body(g) == [n \in 0..L |-> IF n = 0 THEN <<>> ELSE g[n - 1] \o Part(requests[n], service)]
           f == CHOOSE g : g = body(g)
<1>1. L \in Nat /\ \A i \in 1..L : requests[i] \in R
  BY LenProperties, ElementOfSeq
<1>2. <<>> \in X /\ \A i \in Nat : T(i) \in X
  BY <1>1
<1>3. step \in [Nat -> [X -> X]]
  <2> SUFFICES ASSUME NEW n \in Nat, NEW y \in X PROVE y \o T(n + 1) \in X
    OBVIOUS
  <2>1. T(n + 1) \in X
    BY <1>2
  <2> HIDE DEF T
  <2>2. QED
    BY <2>1, ConcatProperties
<1>4. PICK F \in [Nat -> X] : Recurs(F, <<>>, step)
  <2>1. <<>> \in X
    BY <1>2
  <2> HIDE DEF step, X
  <2>2. QED
    BY ONLY <2>1, <1>3, Recursion
<1>5. ASSUME NEW n \in 1..L PROVE F[n] = F[n - 1] \o Part(requests[n], service)
  <2>1. n - 1 \in Nat /\ (n - 1) + 1 = n /\ F[n - 1] \in X
    BY <1>1, <1>4
  <2>2. step[n - 1][F[n - 1]] = F[n - 1] \o T(n)
    BY <2>1
  <2>3. F[(n - 1) + 1] = step[n - 1][F[n - 1]]
    BY <1>4, <2>1 DEF Recurs
  <2>4. QED
    BY <2>1, <2>2, <2>3
<1> DEFINE G == [n \in 0..L |-> F[n]]
<1>6. G = body(G)
  <2>1. ASSUME NEW n \in 0..L
        PROVE  F[n] = IF n = 0 THEN <<>> ELSE G[n - 1] \o Part(requests[n], service)
    <3>1. CASE n = 0
      BY <3>1, <1>4 DEF Recurs
    <3>2. CASE n # 0
      <4>1. n \in 1..L /\ n - 1 \in 0..L /\ G[n - 1] = F[n - 1]
        BY <3>2, <1>1
      <4>2. QED
        BY <3>2, <4>1, <1>5
    <3>3. QED
      BY <3>1, <3>2
  <2>2. QED
    BY <2>1
<1>7. f = body(f)
  <2> HIDE DEF body, G
  <2>1. QED
    BY <1>6
<1>8. Joined(requests, service) = f[L]
  BY DEF Joined
<1> HIDE DEF f
<1>9. f[0] = <<>> /\ DOMAIN f = 0..L
      /\ \A n \in 1..L : f[n] = f[n - 1] \o Part(requests[n], service)
  <2>1. DOMAIN f = 0..L /\ \A n \in 0..L : f[n] = body(f)[n]
    BY <1>7
  <2>2. 0 \in 0..L /\ \A n \in 1..L : n \in 0..L /\ n # 0
    BY <1>1
  <2>3. QED
    BY <2>1, <2>2
<1>10. ASSUME NEW n \in 0..L PROVE f[n] \in X
  <2> DEFINE S == {i \in 0..L : f[i] \in X}
  <2>1. 0 \in S
    <3>1. 0 \in 0..L /\ f[0] \in X
      BY <1>1, <1>2, <1>9
    <3>2. QED
      BY <3>1
  <2>2. ASSUME NEW i \in 0..(L - 1), i \in S PROVE i + 1 \in S
    <3>1. i + 1 \in 1..L /\ (i + 1) - 1 = i /\ f[i] \in X
      BY <1>1, <2>2
    <3>2. Part(requests[i + 1], service) \in X
      BY <1>1, <3>1
    <3>3. f[i + 1] = f[i] \o Part(requests[i + 1], service)
      BY <1>9, <3>1
    <3>4. f[i + 1] \in X
      BY <3>1, <3>2, <3>3, ConcatProperties
    <3>5. QED
      BY <3>1, <3>4
  <2>3. 0..L \subseteq S
    <3>1. 0 \in Int /\ L \in Int
      BY <1>1
    <3> HIDE DEF S, L
    <3>2. QED
      BY ONLY <2>1, <2>2, <3>1, IntervalInduction
  <2>4. QED
    BY <2>3
<1>11. f \in [0..L -> X]
  BY <1>7, <1>9, <1>10
<1>12. Unfolds(f, requests, service)
  BY <1>8, <1>9 DEF Unfolds
<1>13. QED
  BY <1>11, <1>12

\* One more request adds its string.
LEMMA JoinedAppend ==
  ASSUME NEW R, NEW requests \in Seq(R), NEW r \in R, NEW service,
         \A q \in R : Part(q, service) \in Seq(Char)
  PROVE  /\ Joined(requests, service) \in Seq(Char)
         /\ Joined(Append(requests, r), service) = Joined(requests, service) \o Part(r, service)
<1> DEFINE more == Append(requests, r)
           L == Len(requests)
<1>1. /\ more \in Seq(R) /\ Len(more) = L + 1 /\ L \in Nat /\ more[L + 1] = r
      /\ \A i \in 1..L : more[i] = requests[i]
  BY AppendProperties, LenProperties
<1>2. PICK f \in [0..L -> Seq(Char)] : Unfolds(f, requests, service)
  BY JoinedUnfolds
<1> HIDE DEF more
<1>3. PICK g \in [0..Len(more) -> Seq(Char)] : Unfolds(g, more, service)
  BY <1>1, JoinedUnfolds
<1>4. f[L] = g[L]
  <2> DEFINE S == {i \in 0..L : f[i] = g[i]}
  <2>1. 0 \in S
    BY <1>1, <1>2, <1>3 DEF Unfolds
  <2>2. ASSUME NEW i \in 0..(L - 1), i \in S PROVE i + 1 \in S
    <3>1. i + 1 \in 1..L /\ i + 1 \in 1..Len(more) /\ (i + 1) - 1 = i /\ f[i] = g[i]
      BY <1>1, <2>2
    <3>2. f[i + 1] = f[i] \o Part(requests[i + 1], service)
      <4>1. f[i + 1] = f[(i + 1) - 1] \o Part(requests[i + 1], service)
        BY <1>2, <3>1 DEF Unfolds
      <4>2. QED
        BY <3>1, <4>1
    <3>3. g[i + 1] = g[i] \o Part(more[i + 1], service)
      <4>1. g[i + 1] = g[(i + 1) - 1] \o Part(more[i + 1], service)
        BY <1>3, <3>1 DEF Unfolds
      <4>2. QED
        BY <3>1, <4>1
    <3>4. f[i + 1] = g[i + 1]
      BY <1>1, <3>1, <3>2, <3>3
    <3>5. i + 1 \in 0..L
      BY <1>1, <3>1
    <3>6. QED
      BY <3>4, <3>5
  <2>3. 0..L \subseteq S
    <3>1. 0 \in Int /\ L \in Int
      BY <1>1
    <3> HIDE DEF S, L
    <3>2. QED
      BY ONLY <2>1, <2>2, <3>1, IntervalInduction
  <2>4. L \in 0..L
    BY <1>1
  <2>5. QED
    BY <2>3, <2>4
<1>5. g[L + 1] = g[L] \o Part(r, service)
  <2>1. L + 1 \in 1..Len(more) /\ (L + 1) - 1 = L
    BY <1>1
  <2>2. g[L + 1] = g[(L + 1) - 1] \o Part(more[L + 1], service)
    BY <1>3, <2>1 DEF Unfolds
  <2>3. QED
    BY <1>1, <2>1, <2>2
<1>6. Joined(more, service) = Joined(requests, service) \o Part(r, service)
  BY <1>1, <1>2, <1>3, <1>4, <1>5 DEF Unfolds
<1>7. Joined(requests, service) \in Seq(Char)
  <2>1. L \in 0..L /\ Joined(requests, service) = f[L]
    BY <1>1, <1>2 DEF Unfolds
  <2>2. QED
    BY <2>1
<1>8. QED
  BY <1>6, <1>7 DEF more

LEMMA JoinedNone == \A service : Joined(<<>>, service) = <<>>
<1> SUFFICES ASSUME NEW service PROVE Joined(<<>>, service) = <<>>
  OBVIOUS
<1>1. <<>> \in Seq({}) /\ Len(<<>>) = 0
  BY EmptySeq
<1> DEFINE none == <<>>
<1>2. none \in Seq({}) /\ \A r \in {} : Part(r, service) \in Seq(Char)
  BY <1>1
<1> HIDE DEF none
<1>3. PICK f \in [0..Len(none) -> Seq(Char)] : Unfolds(f, none, service)
  BY <1>2, JoinedUnfolds
<1>4. QED
  BY <1>1, <1>3 DEF none, Unfolds

\* What is left of a string after its first k characters.
From(t, k) == SubSeq(t, k + 1, Len(t))

LEMMA FromFacts ==
  ASSUME NEW s \in Seq(Char), NEW t \in Seq(Char), NEW k \in Nat
  PROVE  /\ From(t, k) \in Seq(Char) /\ From(t, 0) = t
         /\ k >= Len(t) => From(t, k) = <<>>
         /\ k < Len(t) => Append(s, t[k + 1]) \o From(t, k + 1) = s \o From(t, k)
         /\ k < Len(t) => t[k + 1] \in Char
         /\ s \o <<>> = s /\ Begins(s, s \o t)
<1>1. Len(t) \in Nat /\ Len(s) \in Nat /\ \A i \in 1..Len(t) : t[i] \in Char
  BY LenProperties, ElementOfSeq
<1>2. ASSUME NEW n \in Nat PROVE From(t, n) \in Seq(Char)
  <2>1. \A i \in (n + 1)..Len(t) : t[i] \in Char
    BY <1>1
  <2>2. QED
    BY <1>1, <2>1, SubSeqProperties DEF From
<1>3. From(t, 0) = t
  BY SubSeqFull DEF From
<1>4. ASSUME k >= Len(t) PROVE From(t, k) = <<>>
  <2>1. Len(t) < k + 1 /\ k + 1 \in Int /\ Len(t) \in Int
    BY <1>1, <1>4
  <2>2. QED
    BY <2>1, SubSeqEmpty DEF From
<1>5. ASSUME k < Len(t) PROVE Append(s, t[k + 1]) \o From(t, k + 1) = s \o From(t, k)
  <2> DEFINE c == t[k + 1]
  <2>1. k + 1 \in 1..Len(t) /\ Len(t) \in (k + 1)..Len(t) /\ c \in Char
    BY <1>1, <1>5
  <2>2. From(t, k) = <<c>> \o From(t, k + 1)
    <3>1. SubSeq(t, k + 1, Len(t)) = <<t[k + 1]>> \o SubSeq(t, (k + 1) + 1, Len(t))
      BY <2>1, SubSeqRecursiveFirst
    <3>2. QED
      BY <3>1 DEF From
  <2>3. Append(s, c) = s \o <<c>> /\ <<c>> \in Seq(Char)
    BY <2>1, AppendIsConcat
  <2>4. From(t, k + 1) \in Seq(Char)
    BY <1>2
  <2> HIDE DEF c
  <2>5. (s \o <<c>>) \o From(t, k + 1) = s \o (<<c>> \o From(t, k + 1))
    BY <2>3, <2>4, ConcatAssociative
  <2>6. QED
    BY <2>2, <2>3, <2>5 DEF c
<1>6. Begins(s, s \o t)
  <2>1. /\ s \o t \in Seq(Char) /\ Len(s \o t) = Len(s) + Len(t)
        /\ \A i \in 1..Len(s) : (s \o t)[i] = s[i]
    BY <1>1, ConcatProperties
  <2> DEFINE u == s \o t
  <2> HIDE DEF u
  <2>2. Len(s) <= Len(u) /\ \A i \in 1..Len(s) : u[i] = s[i] /\ u[i] \in Char
    BY <1>1, <2>1, ElementOfSeq DEF u
  <2>3. SubSeq(u, 1, Len(s)) \in Seq(Char) /\ Len(SubSeq(u, 1, Len(s))) = Len(s)
        /\ \A i \in 1..Len(s) : SubSeq(u, 1, Len(s))[i] = s[i]
    <3>1. /\ SubSeq(u, 1, Len(s)) \in Seq(Char)
          /\ Len(SubSeq(u, 1, Len(s))) = IF 1 <= Len(s) THEN Len(s) - 1 + 1 ELSE 0
          /\ \A i \in 1..(Len(s) - 1 + 1) : SubSeq(u, 1, Len(s))[i] = u[1 + i - 1]
      BY <1>1, <2>2, SubSeqProperties
    <3>2. QED
      BY <1>1, <2>2, <3>1
  <2>4. s = SubSeq(u, 1, Len(s))
    BY <2>3, SeqEqual
  <2>5. QED
    BY <2>2, <2>4 DEF Begins, u
<1>7. k < Len(t) => t[k + 1] \in Char
  BY <1>1
<1>8. s \o <<>> = s
  BY ConcatEmptySeq
<1>9. QED
  BY <1>2, <1>3, <1>4, <1>5, <1>6, <1>7, <1>8
-----------------------------------------------------------------------------
Services == {"WRITEPRINTER", "WRITETERMINAL"}

\* Where a service shows the strings of its user process.
Place(a, service) == IF service = "WRITEPRINTER" THEN printer(a) ELSE terminal(a)

\* How many characters of its string a process has got shown.
Count(p) == index[p] + (IF io[p] = "done" THEN 1 ELSE 0)

\* The request that is made and has no answer yet, or will never have one.
Pending(a) == \/ Sent(a, "user") \/ Serving(a, "user") \/ sstAt[a] = "trapped"
              \/ childAt[a] = "handler" /\ exc[a] = "SENDMSG"

\* What is still to be shown of it.
Left(a, service) ==
  IF Pending(a) /\ memory[a].user.service_code = service
    THEN From(memory[a].user.arg, Count(SST(a))) ELSE <<>>

\* test has the terminal.
Over(a) == a = 1 /\ testAt \in {"final", "end"}

ShownOf(a) ==
  \A service \in Services :
    /\ shown[Place(a, service)] \in Seq(Char)
    /\ ~ (Over(a) /\ service = "WRITETERMINAL") =>
         shown[Place(a, service)] \o Left(a, service) = AskedFor(a, service)

\* A user process that does nothing wrong waits for each answer, and its SST
\* commands the characters of the request one by one.
HonestOf(a) ==
  /\ childAt[a] \in {"none", "user", "handler", "sent"}
  /\ childAt[a] = "handler" => exc[a] \in {"SENDMSG", "RECEIVEMSG"}
  /\ sstAt[a] = "ending" => ~ Pending(a) /\ ~ Answered(a) /\ childAt[a] \in {"handler", "sent"}
  /\ sstAt[a] = "trapped" => /\ childAt[a] = "sent" \/ (childAt[a] = "handler" /\ exc[a] = "RECEIVEMSG")
                             /\ ~ Answered(a) /\ memory[a].user \in RequestsOf(a)
  /\ index[SST(a)] \in Nat
  /\ index[SST(a)] # 0 =>
       (Serving(a, "user") \/ sstAt[a] = "trapped") /\ memory[a].user \in Prints /\ index[SST(a)] <= Len(memory[a].user.arg)
  /\ io[SST(a)] # "none" => index[SST(a)] < Len(memory[a].user.arg)
  /\ \A service \in Services : busy[Place(a, service)] = SST(a) =>
       /\ memory[a].user.service_code = service
       /\ data[Place(a, service)] = memory[a].user.arg[index[SST(a)] + 1]

\* test shows the final message, after what the first user process has shown.
FinalInv ==
  /\ index[test] \in Nat /\ index[test] <= Len(FINAL)
  /\ testAt # "final" => index[test] = 0
  /\ io[test] # "none" => index[test] < Len(FINAL)
  /\ io[test] = "asked" => data[terminal(1)] = FINAL[index[test] + 1]
  /\ 1 \in Honest /\ testAt \in {"final", "end"} =>
       shown[terminal(1)] \o (IF testAt = "final" THEN From(FINAL, Count(test)) ELSE <<>>)
         = AskedFor(1, "WRITETERMINAL") \o FINAL

\* The invariant of the output.
OutInv == SstInv /\ FinalInv /\ \A a \in Honest : HonestOf(a) /\ ShownOf(a)

\* A service shows on a device of its own.
LEMMA Places ==
  /\ \A a \in Asid, service \in Services :
       Place(a, service) \in Device /\ Place(a, service) \in {printer(a), terminal(a)}
  /\ \A a, b \in Asid, service, other \in Services :
       Place(a, service) = Place(b, other) => a = b /\ service = other
  /\ \A a, b \in Asid, service \in Services :
       Place(a, service) = terminal(b) => a = b /\ service = "WRITETERMINAL"
  /\ \A a \in Asid : Place(a, "WRITETERMINAL") = terminal(a) /\ Place(a, "WRITEPRINTER") = printer(a)
BY Names DEF Place, Services

\* Nothing of what a shows changes.
SameOut(a) ==
  /\ Same(a) /\ index'[SST(a)] = index[SST(a)]
  /\ \A service \in Services : /\ data'[Place(a, service)] = data[Place(a, service)]
                              /\ shown'[Place(a, service)] = shown[Place(a, service)]

LEMMA SameShown ==
  ASSUME NEW a \in Asid, HonestOf(a), ShownOf(a), SameOut(a),
         testAt' \in {"final", "end"} <=> testAt \in {"final", "end"}
  PROVE  HonestOf(a)' /\ ShownOf(a)'
<1>1. Pending(a)' = Pending(a) /\ Count(SST(a))' = Count(SST(a)) /\ (Over(a)' <=> Over(a))
  BY DEF SameOut, Same, Pending, Count, Over, Sent, Serving
<1>2. \A service : AskedFor(a, service)' = AskedFor(a, service)
  BY DEF SameOut, Same, AskedFor
<1>3. \A service : Left(a, service)' = Left(a, service)
  BY <1>1 DEF Left, SameOut, Same
<1>4. busy'[printer(a)] = busy[printer(a)] /\ busy'[terminal(a)] = busy[terminal(a)]
  BY DEF SameOut, Same
<1>5. \A service : busy'[Place(a, service)] = busy[Place(a, service)]
  BY <1>4 DEF Place
<1>6. HonestOf(a)'
  BY <1>1, <1>5 DEF HonestOf, SameOut, Same, Serving, Answered
<1>7. ShownOf(a)'
  BY <1>1, <1>2, <1>3 DEF ShownOf, SameOut
<1>8. QED
  BY <1>6, <1>7

LEMMA SameFinal ==
  ASSUME FinalInv, testAt' = testAt, index'[test] = index[test], io'[test] = io[test],
         io[test] = "asked" => data'[terminal(1)] = data[terminal(1)],
         1 \in Honest /\ testAt \in {"final", "end"} =>
           shown'[terminal(1)] = shown[terminal(1)] /\ made'[1] = made[1]
  PROVE  FinalInv'
<1>1. Count(test)' = Count(test)
  BY DEF Count
<1>2. /\ index'[test] \in Nat /\ index'[test] <= Len(FINAL)
      /\ testAt' # "final" => index'[test] = 0
      /\ io'[test] # "none" => index'[test] < Len(FINAL)
      /\ io'[test] = "asked" => data'[terminal(1)] = FINAL[index'[test] + 1]
  BY DEF FinalInv
<1>3. ASSUME 1 \in Honest, testAt' \in {"final", "end"}
      PROVE  shown'[terminal(1)] \o (IF testAt' = "final" THEN From(FINAL, Count(test)') ELSE <<>>)
               = AskedFor(1, "WRITETERMINAL")' \o FINAL
  <2>1. AskedFor(1, "WRITETERMINAL")' = AskedFor(1, "WRITETERMINAL")
    BY <1>3 DEF AskedFor
  <2>2. QED
    BY <1>1, <1>3, <2>1 DEF FinalInv
<1>4. QED
  BY <1>2, <1>3 DEF FinalInv

\* A step of one SST or its user process need only be looked at there.
LEMMA OneShown ==
  ASSUME OutInv, SstInv', FinalInv', NEW b \in Asid,
         testAt' \in {"final", "end"} <=> testAt \in {"final", "end"},
         \A a \in Asid \ {b} : SameOut(a),
         b \in Honest => HonestOf(b)' /\ ShownOf(b)'
  PROVE  OutInv'
<1>1. ASSUME NEW a \in Honest PROVE HonestOf(a)' /\ ShownOf(a)'
  <2>1. CASE a = b
    BY <2>1
  <2>2. CASE a # b
    <3>1. a \in Asid \ {b}
      BY <2>2 DEF Honest
    <3>2. QED
      BY <3>1, SameShown DEF OutInv
  <2>3. QED
    BY <2>1, <2>2
<1>2. QED
  BY <1>1 DEF OutInv

\* The requests of an honest user process, and what has been asked.
LEMMA HonestAsks ==
  ASSUME OutInv, NEW a \in Honest
  PROVE  /\ a \in Asid /\ a \notin Wild /\ a \notin Trapping
         /\ ProcessOf(a) /\ HonestOf(a) /\ ShownOf(a)
         /\ ~ Serving(a, "stack") /\ ~ Sent(a, "stack")
         /\ \A r \in RequestsOf(a) : \A service : Part(r, service) \in Seq(Char)
         /\ \A service : AskedFor(a, service) \in Seq(Char)
<1>1. a \in Asid /\ a \notin Wild /\ a \notin Trapping /\ ProcessOf(a) /\ HonestOf(a) /\ ShownOf(a)
  BY DEF Honest, OutInv, SstInv
<1>2. ~ Serving(a, "stack") /\ ~ Sent(a, "stack")
  BY <1>1 DEF ProcessOf, ExchangeOf, HonestOf
<1>3. ASSUME NEW r \in RequestsOf(a), NEW service PROVE Part(r, service) \in Seq(Char)
  <2>1. r.arg = <<>> \/ r \in Prints
    BY <1>1 DEF RequestsOf, Bare, End, Ask
  <2>2. r.arg \in Seq(Char)
    BY <1>1, <2>1, Kinds, EmptySeq
  <2>3. QED
    BY <2>2, EmptySeq DEF Part
<1>4. ASSUME NEW service PROVE AskedFor(a, service) \in Seq(Char)
  <2>1. made[a] \in Seq(RequestsOf(a)) /\ End \in RequestsOf(a)
    BY <1>1 DEF ProcessOf, TypeOf, RequestsOf
  <2>2. Joined(made[a], service) \in Seq(Char)
    BY <1>3, <2>1, JoinedAppend
  <2>3. QED
    BY <2>2 DEF AskedFor
<1>5. QED
  BY <1>1, <1>2, <1>3, <1>4

\* An SST that ends has no honest user process that goes on; so with all at
\* their end nothing more is asked.
LEMMA OverMeansEnd ==
  ASSUME OutInv, testAt \in {"final", "end"}, NEW a \in Honest
  PROVE  sstAt[a] = "ending" /\ ~ Pending(a) /\ ~ Answered(a) /\ childAt[a] \in {"handler", "sent"}
BY HonestAsks DEF OutInv, SstInv, BootInv, HonestOf
\* A process that does nothing else than what its user process has not asked
\* yet: between two requests nothing is left to be shown.
LEMMA NothingLeft ==
  ASSUME OutInv, NEW a \in Honest, ~ Pending(a), NEW service \in Services,
         ~ (Over(a) /\ service = "WRITETERMINAL")
  PROVE  /\ shown[Place(a, service)] = AskedFor(a, service)
         /\ index[SST(a)] = 0 /\ io[SST(a)] = "none"
<1>1. ShownOf(a) /\ HonestOf(a) /\ ProcessOf(a) /\ AskedFor(a, service) \in Seq(Char)
  BY HonestAsks
<1>2. Left(a, service) = <<>>
  BY DEF Left
<1>3. shown[Place(a, service)] \in Seq(Char) /\ shown[Place(a, service)] \o <<>> = AskedFor(a, service)
  BY <1>1, <1>2 DEF ShownOf
<1>4. index[SST(a)] = 0 /\ io[SST(a)] = "none"
  BY <1>1 DEF Pending, HonestOf, ProcessOf, TransferOf
<1>5. shown[Place(a, service)] \o <<>> = shown[Place(a, service)]
  BY <1>3, ConcatEmptySeq
<1>6. QED
  BY <1>3, <1>4, <1>5

\* A new request is what is left to be shown.
LEMMA UserCallOut ==
  ASSUME OutInv, machine = "runs", NEW b \in Asid, NEW r \in RequestsOf(b), UserCall(b, r)
  PROVE  OutInv'
<1> USE Names
<1>1. SstInv /\ SstInv' /\ ProcessOf(b) /\ Domains /\ FinalInv
  BY UserCallInv DEF OutInv, SstInv
<1>2. /\ childAt[b] = "user" /\ childAt'[b] = "handler" /\ exc'[b] = "SENDMSG"
      /\ memory'[b] = [memory[b] EXCEPT !.user = r] /\ made'[b] = Append(made[b], r)
      /\ UNCHANGED <<machine, testAt, turn, sstAt, payload, inbox, io, index, busy, data, shown>>
  BY <1>1 DEF UserCall, ChildMoves, boot, services, transfer, Domains
<1>3. \A a \in Asid \ {b} : SameOut(a)
  BY <1>1 DEF UserCall, ChildMoves, boot, services, transfer, SameOut, Same, Domains
<1>4. FinalInv'
  <2>1. ASSUME 1 \in Honest, testAt \in {"final", "end"} PROVE made'[1] = made[1]
    <3>1. childAt[1] # "user"
      BY <2>1, OverMeansEnd
    <3>2. QED
      BY <3>1, <1>2, <1>3 DEF SameOut, Same
  <2>2. QED
    BY <1>1, <1>2, <2>1, SameFinal
<1>5. ASSUME b \in Honest PROVE HonestOf(b)' /\ ShownOf(b)'
  <2>1. /\ HonestOf(b) /\ ShownOf(b) /\ made[b] \in Seq(RequestsOf(b))
        /\ \A q \in RequestsOf(b) : \A service : Part(q, service) \in Seq(Char)
    BY <1>5, HonestAsks DEF ProcessOf, TypeOf
  <2>2. ~ Pending(b) /\ ~ Serving(b, "user") /\ sstAt[b] # "trapped"
    BY <1>1, <1>2, <2>1 DEF ProcessOf, ExchangeOf, Pending, Idle, HonestOf
  <2>3. memory[b] \in [user : RequestsOf(b) \cup {NULL}, stack : TrapRequests \cup {NULL}]
    BY <1>1 DEF ProcessOf, TypeOf
  <2>4. memory'[b].user = r /\ Pending(b)' /\ ~ Over(b)
    <3>1. ~ Over(b)
      BY <1>2, <1>5, OverMeansEnd DEF Over
    <3>2. QED
      BY <1>2, <2>3, <3>1 DEF Pending
  <2>5. index[SST(b)] = 0 /\ io[SST(b)] = "none"
    BY <1>5, <2>2, <2>4, NothingLeft DEF Services
  <2>6. busy[printer(b)] # SST(b) /\ busy[terminal(b)] # SST(b)
    BY <1>1, <2>5 DEF ProcessOf, TransferOf
  <2>7. HonestOf(b)'
    <3>1. sstAt[b] # "ending"
      BY <1>2, <2>1 DEF HonestOf
    <3>2. \A service \in Services : busy[Place(b, service)] # SST(b)
      BY <2>6 DEF Place
    <3>3. QED
      BY <1>2, <2>2, <2>5, <3>1, <3>2 DEF HonestOf
  <2>8. ASSUME NEW service \in Services
        PROVE  /\ shown'[Place(b, service)] \in Seq(Char)
               /\ shown'[Place(b, service)] \o Left(b, service)' = AskedFor(b, service)'
    <3>1. shown[Place(b, service)] = AskedFor(b, service) /\ shown[Place(b, service)] \in Seq(Char)
      BY <1>5, <2>1, <2>2, <2>4, NothingLeft DEF ShownOf
    <3>2. Left(b, service)' = Part(r, service)
      <4>1. Count(SST(b))' = 0
        BY <1>2, <2>5 DEF Count
      <4>2. r.service_code = service => r.arg \in Seq(Char)
        BY <2>1 DEF Part
      <4>3. r.service_code = service => From(r.arg, 0) = r.arg
        BY <4>2, FromFacts
      <4>4. Left(b, service)' = IF Pending(b)' /\ memory'[b].user.service_code = service
                                  THEN From(memory'[b].user.arg, Count(SST(b))') ELSE <<>>
        BY DEF Left
      <4>5. QED
        BY <2>4, <4>1, <4>3, <4>4 DEF Part
    <3>3. AskedFor(b, service)' = AskedFor(b, service) \o Part(r, service)
      <4>1. Joined(Append(made[b], r), service) = Joined(made[b], service) \o Part(r, service)
        <5> DEFINE R == RequestsOf(b)
                   done == made[b]
        <5>1. done \in Seq(R) /\ r \in R /\ \A q \in R : Part(q, service) \in Seq(Char)
          BY <2>1
        <5> HIDE DEF R, done
        <5>2. Joined(Append(done, r), service) = Joined(done, service) \o Part(r, service)
          BY ONLY <5>1, JoinedAppend
        <5>3. QED
          BY <5>2 DEF done
      <4>2. QED
        BY <1>2, <4>1 DEF AskedFor
    <3>4. QED
      BY <1>2, <3>1, <3>2, <3>3
  <2>9. QED
    BY <2>7, <2>8 DEF ShownOf
<1>6. QED
  BY <1>1, <1>2, <1>3, <1>4, <1>5, OneShown
\* A step that prints nothing and asks nothing of an honest user process keeps
\* what is left, if the request it has made stays made.
LEMMA NothingShown ==
  ASSUME OutInv, SstInv', NEW b \in Asid, \A a \in Asid \ {b} : Same(a),
         UNCHANGED <<testAt, io, index, busy, data, shown, made>>,
         b \in Honest =>
           /\ Pending(b)' = Pending(b) /\ memory'[b] = memory[b]
           /\ Serving(b, "user") => Serving(b, "user")' \/ (sstAt'[b] = "trapped" /\ io[SST(b)] = "none")
           /\ sstAt[b] = "trapped" => sstAt'[b] = "trapped"
           /\ sstAt'[b] = "trapped" =>
                /\ childAt'[b] = "sent" \/ (childAt'[b] = "handler" /\ exc'[b] = "RECEIVEMSG")
                /\ ~ Answered(b)' /\ memory'[b].user \in RequestsOf(b)
           /\ childAt'[b] \in {"none", "user", "handler", "sent"}
           /\ childAt'[b] = "handler" => exc'[b] \in {"SENDMSG", "RECEIVEMSG"}
           /\ sstAt'[b] = "ending" =>
                ~ Pending(b)' /\ ~ Answered(b)' /\ childAt'[b] \in {"handler", "sent"}
  PROVE  OutInv'
<1>1. FinalInv'
  BY SameFinal DEF OutInv
<1>2. \A a \in Asid \ {b} : SameOut(a)
  BY DEF SameOut
<1>3. ASSUME b \in Honest PROVE HonestOf(b)' /\ ShownOf(b)'
  <2>1. HonestOf(b) /\ ShownOf(b)
    BY <1>3, HonestAsks
  <2>2. Count(SST(b))' = Count(SST(b)) /\ (Over(b)' <=> Over(b))
    BY DEF Count, Over
  <2>3. \A service : Left(b, service)' = Left(b, service)
    BY <1>3, <2>2 DEF Left
  <2>4. \A service : AskedFor(b, service)' = AskedFor(b, service)
    BY DEF AskedFor
  <2>5. HonestOf(b)'
    BY <1>3, <2>1 DEF HonestOf
  <2>6. ShownOf(b)'
    BY <2>1, <2>2, <2>3, <2>4 DEF ShownOf
  <2>7. QED
    BY <2>5, <2>6
<1>4. QED
  BY <1>1, <1>2, <1>3, OneShown

LEMMA UserWaitOut ==
  ASSUME OutInv, machine = "runs", NEW b \in Asid, UserAwait(b) \/ UserTrap(b)
  PROVE  OutInv'
<1> USE Names
<1>1. SstInv /\ SstInv' /\ Domains
  BY UserWaitInv DEF OutInv, SstInv
<1>2. /\ UNCHANGED <<testAt, sstAt, payload, inbox, memory, io, index, busy, data, shown, made>>
      /\ \A a \in Asid \ {b} : Same(a)
  BY <1>1 DEF UserAwait, UserTrap, ChildMoves, boot, services, transfer, Same, Domains
<1>3. ASSUME b \in Honest
      PROVE  childAt[b] = "sent" /\ childAt'[b] = "handler" /\ exc'[b] = "RECEIVEMSG"
  <2>1. UserAwait(b)
    BY <1>3, HonestAsks DEF UserTrap
  <2>2. QED
    BY <1>1, <2>1 DEF UserAwait, ChildMoves, Domains
<1>4. b \in Honest => Pending(b)' = Pending(b)
  BY <1>2, <1>3 DEF Pending, Sent, Serving
<1>5. b \in Honest => HonestOf(b)
  BY HonestAsks
<1>6. QED
  BY <1>1, <1>2, <1>3, <1>4, <1>5, NothingShown DEF HonestOf, Serving, Answered

\* The request goes from the handler into the inbox.
LEMMA HandleSendOut ==
  ASSUME OutInv, machine = "runs", NEW b \in Asid, HandleSend(b)
  PROVE  OutInv'
<1> USE Names
<1>1. SstInv /\ SstInv' /\ Domains /\ ProcessOf(b)
  BY HandleSendInv DEF OutInv, SstInv
<1>2. /\ inbox'[SST(b)] = Push(inbox[SST(b)], Msg(child(b), "user"))
      /\ \A p \in Process : p # SST(b) => inbox'[p] = inbox[p]
  BY <1>1, SendEffect DEF HandleSend, Domains
<1>3. /\ UNCHANGED <<testAt, sstAt, payload, exc, memory, io, index, busy, data, shown, made>>
      /\ \A a \in Asid \ {b} : Same(a)
  BY <1>1, <1>2 DEF HandleSend, ChildMoves, boot, services, transfer, Same, Domains
<1>4. childAt[b] = "handler" /\ childAt'[b] = "sent" /\ exc[b] = "SENDMSG"
  BY <1>1 DEF HandleSend, ChildMoves, Domains
<1>5. Pending(b) /\ Pending(b)'
  <2>1. Msg(child(b), "user") \in ToSst(b) /\ inbox[SST(b)] \in Seq(ToSst(b))
    BY <1>1 DEF Msg, ToSst, ProcessOf, TypeOf
  <2>2. Has(inbox'[SST(b)], "user")
    BY <1>2, <2>1, PushHas
  <2>3. QED
    BY <1>4, <2>2 DEF Pending, Sent
<1>6. b \in Honest => sstAt[b] \notin {"ending", "trapped"}
  BY <1>4, <1>5, HonestAsks DEF HonestOf
<1>7. QED
  BY <1>1, <1>3, <1>4, <1>5, <1>6, NothingShown DEF Serving

\* The user process goes on with its answer.
LEMMA HandleReceiveOut ==
  ASSUME OutInv, machine = "runs", NEW b \in Asid, HandleReceive(b) \/ TrapReturns(b)
  PROVE  OutInv'
<1> USE Names
<1>1. SstInv /\ SstInv' /\ Domains /\ ProcessOf(b)
  BY HandleReceiveInv DEF OutInv, SstInv
<1>2. PICK i \in DOMAIN inbox[child(b)] : Receive(child(b), NULL, i)
  BY DEF HandleReceive, TrapReturns
<1>3. /\ \A p \in Process : p # child(b) => inbox'[p] = inbox[p]
      /\ Answered(b)
  BY <1>1, <1>2, AnswerTaken
<1>4. /\ UNCHANGED <<testAt, sstAt, payload, exc, memory, io, index, busy, data, shown, made>>
      /\ \A a \in Asid \ {b} : Same(a)
  BY <1>1, <1>3 DEF HandleReceive, TrapReturns, ChildMoves, boot, services, transfer, Same, Domains
<1>5. ASSUME b \in Honest
      PROVE  childAt[b] = "handler" /\ childAt'[b] = "user" /\ exc[b] = "RECEIVEMSG"
  <2>1. HandleReceive(b)
    BY <1>5, HonestAsks DEF HonestOf, TrapReturns, ChildMoves
  <2>2. QED
    BY <1>1, <2>1 DEF HandleReceive, ChildMoves, Domains
<1>6. b \in Honest => Pending(b)' = Pending(b) /\ sstAt[b] \notin {"ending", "trapped"}
  <2>1. b \in Honest => HonestOf(b)
    BY HonestAsks
  <2>2. inbox'[SST(b)] = inbox[SST(b)]
    BY <1>3
  <2>3. QED
    BY <1>3, <1>4, <1>5, <2>1, <2>2 DEF Pending, Sent, Serving, HonestOf
<1>7. QED
  BY <1>1, <1>4, <1>5, <1>6, NothingShown DEF Serving

LEMMA HandleTrapOut ==
  ASSUME OutInv, machine = "runs", NEW b \in Asid, HandleTrap(b)
  PROVE  OutInv'
<1> USE Names
<1>1. SstInv /\ SstInv' /\ Domains
  BY HandleTrapInv DEF OutInv, SstInv
<1>2. \A p \in Process : p # SST(b) => inbox'[p] = inbox[p]
  <2>1. DOMAIN inbox = Process /\ Send(child(b), SST(b), "stack")
    BY <1>1 DEF HandleTrap, Domains
  <2>2. QED
    BY <2>1, SendEffect
<1>3. /\ UNCHANGED <<testAt, io, index, busy, data, shown, made>>
      /\ \A a \in Asid \ {b} : Same(a)
  <2>1. \A a \in Asid \ {b} : memory'[a] = memory[a]
    BY <1>1 DEF HandleTrap, Domains
  <2>2. QED
    BY <1>1, <1>2, <2>1 DEF HandleTrap, ChildMoves, boot, services, transfer, Same, Domains
<1>4. b \notin Honest
  BY HonestAsks DEF HandleTrap, ChildMoves, HonestOf
<1>5. QED
  BY <1>1, <1>3, <1>4, NothingShown

LEMMA SstStartOut ==
  ASSUME OutInv, machine = "runs", NEW b \in Asid, SstStart(b)
  PROVE  OutInv'
<1> USE Names
<1>1. SstInv /\ SstInv' /\ Domains /\ ProcessOf(b)
  BY SstStartInv DEF OutInv, SstInv
<1>2. /\ UNCHANGED <<testAt, payload, exc, inbox, memory, io, index, busy, data, shown, made>>
      /\ \A a \in Asid \ {b} : Same(a)
      /\ sstAt[b] = "start" /\ sstAt'[b] = "receive" /\ childAt'[b] = "user"
  BY <1>1 DEF SstStart, SstMoves, boot, transfer, Same, Domains
<1>3. Pending(b)' = Pending(b) /\ ~ Serving(b, "user")
  BY <1>1, <1>2 DEF Pending, Sent, Serving, ProcessOf, ExchangeOf
<1>4. QED
  BY <1>1, <1>2, <1>3, NothingShown

\* An honest user process sends its request and nothing else, so that is what
\* the SST receives.
LEMMA SstReceiveOut ==
  ASSUME OutInv, machine = "runs", NEW b \in Asid, SstReceive(b)
  PROVE  OutInv'
<1> USE Names
<1>1. SstInv /\ SstInv' /\ Domains /\ ProcessOf(b)
  BY SstReceiveInv DEF OutInv, SstInv
<1>2. PICK i \in DOMAIN inbox[SST(b)] :
        /\ Receive(SST(b), child(b), i)
        /\ payload' = [payload EXCEPT ![b] = inbox[SST(b)][i].m_payload]
  BY DEF SstReceive
<1>3. \A p \in Process : p # SST(b) => inbox'[p] = inbox[p]
  BY <1>1, <1>2, ReceiveEffect DEF Domains
<1>4. /\ UNCHANGED <<testAt, childAt, exc, memory, io, index, busy, data, shown, made>>
      /\ \A a \in Asid \ {b} : Same(a)
      /\ sstAt[b] = "receive" /\ sstAt'[b] = "serve"
      /\ payload'[b] = inbox[SST(b)][i].m_payload
  BY <1>1, <1>2, <1>3 DEF SstReceive, SstMoves, boot, users, transfer, Same, Domains
<1>5. b \in Honest => Pending(b)' /\ Pending(b)
  <2>1. Sent(b, payload'[b])
    BY <1>4 DEF Sent, Has
  <2>2. inbox[SST(b)][i] \in ToSst(b)
    BY <1>1, ElementOfSeq DEF ProcessOf, TypeOf
  <2>3. b \in Honest => payload'[b] = "user"
    BY <1>4, <2>1, <2>2, HonestAsks DEF ToSst
  <2>4. QED
    BY <1>4, <2>1, <2>3 DEF Pending, Serving
<1>6. ~ Serving(b, "user") /\ (b \in Honest => HonestOf(b))
  BY <1>4, HonestAsks DEF Serving
<1>7. QED
  BY <1>1, <1>4, <1>5, <1>6, NothingShown DEF HonestOf
-----------------------------------------------------------------------------
\* The SST is at the end of its service with nothing left to show.
LEMMA ServiceEnds ==
  ASSUME OutInv, SstInv', NEW b \in Asid, \A a \in Asid \ {b} : SameOut(a),
         sstAt[b] = "serve", io[SST(b)] = "none",
         UNCHANGED <<testAt, io, busy, data, shown, made, memory, childAt, exc>>,
         index'[SST(b)] = 0, index'[test] = index[test], inbox'[SST(b)] = inbox[SST(b)],
         b \in Honest => /\ sstAt'[b] \in {"receive", "ending"}
                         /\ sstAt'[b] = "ending" => inbox'[child(b)] = inbox[child(b)]
                         /\ \A service \in Services : Left(b, service) = <<>>
  PROVE  OutInv'
<1> USE Names
<1>1. FinalInv'
  <2>1. io'[test] = io[test] /\ data'[terminal(1)] = data[terminal(1)]
    OBVIOUS
  <2>2. QED
    BY <2>1, SameFinal DEF OutInv
<1>2. ASSUME b \in Honest PROVE HonestOf(b)' /\ ShownOf(b)'
  <2>1. HonestOf(b) /\ ShownOf(b) /\ ProcessOf(b)
    BY <1>2, HonestAsks
  <2>2. Serving(b, "user") /\ ~ Sent(b, "user") /\ ~ Answered(b) /\ ~ Idle(b)
    <3>1. Serving(b, "user")
      BY <1>2, Served, HonestAsks DEF OutInv
    <3>2. QED
      BY <2>1, <3>1 DEF ProcessOf, ExchangeOf
  <2>3. ~ Pending(b)'
    BY <1>2, <2>2 DEF Pending, Serving, Sent, Idle
  <2>4. childAt[b] \in {"handler", "sent"}
    BY <2>1, <2>2 DEF Idle, HonestOf
  <2>5. busy[printer(b)] # SST(b) /\ busy[terminal(b)] # SST(b)
    BY <2>1 DEF ProcessOf, TransferOf
  <2>6. HonestOf(b)'
    <3>1. \A service \in Services : busy[Place(b, service)] # SST(b)
      BY <2>5 DEF Place
    <3>2. sstAt'[b] = "ending" => ~ Answered(b)'
      BY <1>2, <2>2 DEF Answered
    <3>3. QED
      BY <1>2, <2>1, <2>3, <2>4, <3>1, <3>2 DEF HonestOf
  <2>7. \A service \in Services : Left(b, service)' = Left(b, service)
    BY <1>2, <2>3 DEF Left
  <2>8. \A service : AskedFor(b, service)' = AskedFor(b, service)
    BY DEF AskedFor
  <2>9. ShownOf(b)'
    BY <2>1, <2>7, <2>8 DEF ShownOf, Over
  <2>10. QED
    BY <2>6, <2>9
<1>3. QED
  BY <1>1, <1>2, OneShown

\* The services that print nothing: the time, the end, none, and a trap.
LEMMA QuietOut ==
  ASSUME OutInv, machine = "runs", NEW b \in Asid, sstAt[b] = "serve",
         GetTod(b) \/ terminate(b) \/ SstIgnore(b) \/ SstTrap(b)
  PROVE  OutInv'
<1> USE Names
<1>1. SstInv /\ SstInv' /\ Domains /\ ProcessOf(b)
  BY SstServeInv DEF OutInv, SstInv, SstServe
<1>2. /\ UNCHANGED <<testAt, payload, childAt, exc, memory, io, index, busy, data, shown, made>>
      /\ \A a \in Asid \ {b} : sstAt'[a] = sstAt[a]
      /\ sstAt'[b] \in {"receive", "ending", "trapped"}
  BY <1>1 DEF GetTod, terminate, SstIgnore, SstTrap, Respond, SstMoves, boot, users, transfer, Domains
<1>3. /\ inbox'[SST(b)] = inbox[SST(b)]
      /\ \A a \in Asid \ {b} : inbox'[SST(a)] = inbox[SST(a)] /\ inbox'[child(a)] = inbox[child(a)]
      /\ ~ GetTod(b) => inbox'[child(b)] = inbox[child(b)]
  <2>1. CASE GetTod(b)
    <3>1. \A p \in Process : p # child(b) => inbox'[p] = inbox[p]
      BY <1>1, <2>1, SendEffect DEF GetTod, Respond, Domains
    <3>2. QED
      BY <2>1, <3>1
  <2>2. CASE ~ GetTod(b)
    <3>1. \A p \in Process : p # test => inbox'[p] = inbox[p]
      <4>1. CASE terminate(b)
        BY <1>1, <4>1, SendEffect DEF terminate, Domains
      <4>2. CASE SstTrap(b)
        <5>1. DOMAIN inbox = Process /\ Send(SST(b), test, "stack")
          BY <1>1, <4>2 DEF SstTrap, Domains
        <5>2. QED
          BY <5>1, SendEffect
      <4>3. CASE SstIgnore(b)
        BY <4>3 DEF SstIgnore
      <4>4. QED
        BY <2>2, <4>1, <4>2, <4>3
    <3>2. QED
      BY <3>1
  <2>3. QED
    BY <2>1, <2>2
<1>4. \A a \in Asid \ {b} : SameOut(a)
  BY <1>2, <1>3 DEF SameOut, Same
<1>5. io[SST(b)] = "none"
  <2>1. Request(b).service_code \notin {"WRITEPRINTER", "WRITETERMINAL"} \/ Request(b).arg = NULL
    BY DEF GetTod, terminate, SstIgnore, SstTrap
  <2>2. QED
    BY <1>1, <2>1, PrintsServed, Kinds
<1>6. ASSUME b \in Honest
      PROVE  /\ memory[b].user.service_code \notin Services /\ index[SST(b)] = 0
             /\ sstAt'[b] \in {"receive", "ending"}
             /\ sstAt'[b] = "ending" => inbox'[child(b)] = inbox[child(b)]
  <2>1. Serving(b, "user") /\ Request(b) = memory[b].user /\ Request(b) \in RequestsOf(b) /\ HonestOf(b)
    BY <1>1, <1>6, Served, HonestAsks
  <2>2. ~ SstTrap(b)
    BY <1>6, <2>1, Kinds, HonestAsks DEF SstTrap
  <2>3. memory[b].user.service_code \notin Services
    BY <2>1, <2>2 DEF GetTod, terminate, SstIgnore, Services
  <2>4. index[SST(b)] = 0
    BY <2>1, <2>3, Kinds DEF HonestOf, Services
  <2>5. GetTod(b) => sstAt'[b] = "receive"
    BY <1>1 DEF GetTod, SstMoves, Domains
  <2>6. ~ GetTod(b) => sstAt'[b] \in {"receive", "ending"}
    BY <1>1, <2>2 DEF terminate, SstIgnore, SstMoves, Domains
  <2>7. QED
    BY <1>3, <2>3, <2>4, <2>5, <2>6
<1>7. CASE b \in Honest
  <2>1. \A service \in Services : Left(b, service) = <<>>
    BY <1>6, <1>7 DEF Left
  <2>2. index'[SST(b)] = 0 /\ index'[test] = index[test]
    BY <1>2, <1>6, <1>7
  <2>3. QED
    BY <1>1, <1>2, <1>3, <1>4, <1>5, <1>6, <1>7, <2>1, <2>2, ServiceEnds
<1>8. CASE b \notin Honest
  BY <1>1, <1>2, <1>4, <1>8, NothingShown DEF SameOut
<1>9. QED
  BY <1>7, <1>8

\* The SST stops where it follows the pointer: what it has not shown is left.
LEMMA FaultOut ==
  ASSUME OutInv, machine = "runs", NEW b \in Asid, sstAt[b] = "serve", SstFault(b)
  PROVE  OutInv'
<1> USE Names
<1>1. SstInv /\ SstInv' /\ Domains /\ ProcessOf(b)
  BY SstServeInv DEF OutInv, SstInv, SstServe
<1>2. /\ UNCHANGED <<testAt, payload, childAt, exc, memory, io, index, busy, data, shown, made>>
      /\ \A a \in Asid \ {b} : sstAt'[a] = sstAt[a]
      /\ sstAt'[b] = "trapped" /\ Serving(b, "user") /\ io[SST(b)] = "none"
  BY <1>1 DEF SstFault, SstMoves, boot, users, transfer, Domains, Serving
<1>3. \A p \in Process : p # test => inbox'[p] = inbox[p]
  <2>1. DOMAIN inbox = Process /\ Send(SST(b), test, "stack")
    BY <1>1 DEF SstFault, Domains
  <2>2. QED
    BY <2>1, SendEffect
<1>4. \A a \in Asid \ {b} : Same(a)
  BY <1>2, <1>3 DEF Same
<1>5. ASSUME b \in Honest
      PROVE  /\ childAt[b] = "sent" \/ (childAt[b] = "handler" /\ exc[b] = "RECEIVEMSG")
             /\ ~ Answered(b) /\ memory[b].user \in RequestsOf(b)
  <2>1. HonestOf(b)
    BY <1>5, HonestAsks
  <2>2. ~ Idle(b) /\ ~ Answered(b) /\ memory[b].user \in RequestsOf(b)
    BY <1>1, <1>2 DEF ProcessOf, ExchangeOf
  <2>3. QED
    BY <2>1, <2>2 DEF HonestOf, Idle
<1>6. Pending(b) /\ Pending(b)'
  BY <1>2 DEF Pending
<1>7. Answered(b)' = Answered(b)
  BY <1>3 DEF Answered
<1>8. QED
  BY <1>1, <1>2, <1>4, <1>5, <1>6, <1>7, NothingShown

\* The device an SST prints on, and the string.
LEMMA PrintsWhat ==
  ASSUME OutInv, NEW b \in Honest, sstAt[b] = "serve", SstWrite(b)
  PROVE  /\ Serving(b, "user") /\ Request(b) = memory[b].user /\ memory[b].user \in Prints
         /\ memory[b].user.service_code \in Services
         /\ DeviceOf(b) = Place(b, memory[b].user.service_code)
         /\ memory[b].user.arg \in Seq(Char)
<1>1. b \in Asid /\ SstInv /\ ~ Serving(b, "stack")
  BY HonestAsks DEF OutInv
<1>2. Serving(b, "user") /\ Request(b) = memory[b].user /\ Request(b) \in RequestsOf(b)
  BY <1>1, Served
<1>3. memory[b].user \in Prints /\ memory[b].user.arg \in Seq(Char)
  BY <1>1, <1>2, Kinds DEF SstWrite
<1>4. QED
  BY <1>2, <1>3 DEF SstWrite, Services, Place, DeviceOf

\* The next character of the request goes into the command.
LEMMA SstEmitOut ==
  ASSUME OutInv, machine = "runs", NEW b \in Asid, sstAt[b] = "serve", SstWrite(b),
         Emit(SST(b), DeviceOf(b), Request(b).arg), UNCHANGED <<boot, services, users, inbox>>
  PROVE  OutInv'
<1> USE Names
<1>1. SstInv /\ SstInv' /\ Domains /\ ProcessOf(b)
  BY SstServeInv DEF OutInv, SstInv, SstServe
<1>2. DeviceOf(b) \in {printer(b), terminal(b)} /\ DeviceOf(b) \in Device
  BY DEF SstWrite, DeviceOf
<1>3. /\ io[SST(b)] = "none" /\ io'[SST(b)] = "asked" /\ busy'[DeviceOf(b)] = SST(b)
      /\ index[SST(b)] < Len(Request(b).arg)
      /\ data'[DeviceOf(b)] = Request(b).arg[index[SST(b)] + 1]
      /\ \A p \in Process \ {SST(b)} : io'[p] = io[p]
      /\ \A e \in Device \ {DeviceOf(b)} : busy'[e] = busy[e] /\ data'[e] = data[e]
      /\ UNCHANGED <<testAt, sstAt, payload, childAt, exc, memory, made, inbox, index, shown>>
  BY <1>1, <1>2 DEF Emit, boot, services, users, Domains
<1>4. \A a \in Asid \ {b} : SameOut(a)
  <2>1. \A a \in Asid \ {b}, service \in Services : Place(a, service) \in Device \ {DeviceOf(b)}
    BY <1>2, Places DEF Services
  <2>2. QED
    BY <1>3, <2>1, <1>2 DEF SameOut, Same
<1>5. FinalInv'
  <2>1. io[test] = "none" /\ testAt \notin {"final", "end"} /\ io'[test] = io[test]
    BY <1>1, <1>3, TestAway
  <2>2. QED
    BY <1>3, <2>1, SameFinal DEF OutInv
<1>6. ASSUME b \in Honest PROVE HonestOf(b)' /\ ShownOf(b)'
  <2>1. /\ Serving(b, "user") /\ Request(b) = memory[b].user /\ memory[b].user \in Prints
        /\ memory[b].user.service_code \in Services
        /\ DeviceOf(b) = Place(b, memory[b].user.service_code)
    BY <1>6, PrintsWhat
  <2>2. HonestOf(b) /\ ShownOf(b)
    BY <1>6, HonestAsks
  <2>3. busy[printer(b)] # SST(b) /\ busy[terminal(b)] # SST(b)
    BY <1>1, <1>3 DEF ProcessOf, TransferOf
  <2>4. ASSUME NEW service \in Services, busy'[Place(b, service)] = SST(b)
        PROVE  /\ memory[b].user.service_code = service
               /\ data'[Place(b, service)] = memory[b].user.arg[index[SST(b)] + 1]
    <3>1. Place(b, service) = DeviceOf(b)
      BY <1>3, <2>3, <2>4, Places
    <3>2. QED
      BY <1>3, <2>1, <3>1, Places
  <2>5. HonestOf(b)'
    <3>1. index[SST(b)] <= Len(memory[b].user.arg) /\ index[SST(b)] < Len(memory[b].user.arg)
      <4>1. memory[b].user.arg \in Seq(Char) /\ index[SST(b)] \in Nat
        BY <1>6, <2>2, PrintsWhat DEF HonestOf
      <4>2. Len(memory[b].user.arg) \in Nat
        BY <4>1, LenProperties
      <4>3. QED
        BY <1>3, <2>1, <4>1, <4>2
    <3>2. Pending(b)' = Pending(b) /\ Answered(b)' = Answered(b) /\ Serving(b, "user")'
      BY <1>3, <2>1 DEF Pending, Sent, Serving, Answered
    <3>3. QED
      BY <1>3, <2>1, <2>2, <2>4, <3>1, <3>2 DEF HonestOf
  <2>6. ShownOf(b)'
    <3>1. Count(SST(b))' = Count(SST(b)) /\ Pending(b)' = Pending(b) /\ Over(b)' = Over(b)
      BY <1>3 DEF Count, Pending, Sent, Serving, Over
    <3>2. \A service : Left(b, service)' = Left(b, service) /\ AskedFor(b, service)' = AskedFor(b, service)
      BY <1>3, <3>1 DEF Left, AskedFor
    <3>3. QED
      BY <1>3, <2>2, <3>1, <3>2 DEF ShownOf
  <2>7. QED
    BY <2>5, <2>6
<1>7. QED
  BY <1>1, <1>3, <1>4, <1>5, <1>6, OneShown

\* The character has been shown; the next one is due.
LEMMA SstCheckOut ==
  ASSUME OutInv, machine = "runs", NEW b \in Asid, sstAt[b] = "serve", SstWrite(b),
         Check(SST(b)), UNCHANGED <<boot, services, users, inbox>>
  PROVE  OutInv'
<1> USE Names
<1>1. SstInv /\ SstInv' /\ Domains /\ ProcessOf(b)
  BY SstServeInv DEF OutInv, SstInv, SstServe
<1>2. CASE io[SST(b)] = "done"
  <2>1. /\ io'[SST(b)] = "none" /\ index'[SST(b)] = index[SST(b)] + 1
        /\ \A p \in Process \ {SST(b)} : io'[p] = io[p] /\ index'[p] = index[p]
        /\ UNCHANGED <<testAt, sstAt, payload, childAt, exc, memory, made, inbox, busy, data, shown>>
    BY <1>1, <1>2 DEF Check, boot, services, users, Domains
  <2>2. \A a \in Asid \ {b} : SameOut(a)
    BY <2>1 DEF SameOut, Same
  <2>3. FinalInv'
    <3>1. io'[test] = io[test] /\ index'[test] = index[test] /\ data'[terminal(1)] = data[terminal(1)]
      BY <2>1
    <3>2. QED
      BY <2>1, <3>1, SameFinal DEF OutInv
  <2>4. ASSUME b \in Honest PROVE HonestOf(b)' /\ ShownOf(b)'
    <3>1. HonestOf(b) /\ ShownOf(b) /\ Serving(b, "user") /\ memory[b].user \in Prints
      BY <2>4, HonestAsks, PrintsWhat
    <3>2. busy[printer(b)] # SST(b) /\ busy[terminal(b)] # SST(b)
      BY <1>1, <1>2 DEF ProcessOf, TransferOf
    <3>3. /\ index[SST(b)] \in Nat /\ index'[SST(b)] \in Nat
          /\ index'[SST(b)] <= Len(memory[b].user.arg)
      <4>1. index[SST(b)] \in Nat /\ index[SST(b)] < Len(memory[b].user.arg)
        BY <1>2, <3>1 DEF HonestOf
      <4>2. Len(memory[b].user.arg) \in Nat
        BY <2>4, PrintsWhat, LenProperties
      <4>3. QED
        BY <2>1, <4>1, <4>2
    <3>4. HonestOf(b)'
      <4>1. \A service \in Services : busy[Place(b, service)] # SST(b)
        BY <3>2 DEF Place
      <4>2. Pending(b)' = Pending(b) /\ Answered(b)' = Answered(b) /\ Serving(b, "user")'
        BY <2>1, <3>1 DEF Pending, Sent, Serving, Answered
      <4>3. QED
        BY <2>1, <3>1, <3>3, <4>1, <4>2 DEF HonestOf
    <3>5. Count(SST(b))' = Count(SST(b))
      BY <1>2, <2>1, <3>3 DEF Count
    <3>6. \A service : Left(b, service)' = Left(b, service) /\ AskedFor(b, service)' = AskedFor(b, service)
      BY <2>1, <3>5 DEF Left, AskedFor, Pending, Sent, Serving
    <3>7. ShownOf(b)'
      BY <2>1, <3>1, <3>6 DEF ShownOf, Over
    <3>8. QED
      BY <3>4, <3>7
  <2>5. QED
    BY <1>1, <2>1, <2>2, <2>3, <2>4, OneShown
<1>3. CASE io[SST(b)] # "done"
  <2>1. UNCHANGED <<testAt, sstAt, payload, childAt, exc, memory, made, inbox, io, index, busy, data,
                    shown>>
    BY <1>3 DEF Check, boot, services, users, transfer
  <2>2. \A a \in Asid \ {b} : Same(a)
    BY <2>1 DEF Same
  <2>3. b \in Honest => HonestOf(b)
    BY HonestAsks
  <2>4. Pending(b)' = Pending(b) /\ Answered(b)' = Answered(b)
    BY <2>1 DEF Pending, Answered, Sent, Serving
  <2>5. QED
    BY <1>1, <2>1, <2>2, <2>3, <2>4, NothingShown DEF HonestOf, Serving
<1>4. QED
  BY <1>2, <1>3

\* The whole string has been shown, and the user process is told.
LEMMA SstWrittenOut ==
  ASSUME OutInv, machine = "runs", NEW b \in Asid, sstAt[b] = "serve", SstWrite(b),
         SstMoves(b, "serve", "receive"), Written(SST(b), Request(b).arg), Respond(b, "0")
  PROVE  OutInv'
<1> USE Names
<1>1. SstInv /\ SstInv' /\ Domains /\ ProcessOf(b)
  BY SstServeInv DEF OutInv, SstInv, SstServe
<1>2. /\ io[SST(b)] = "none" /\ index[SST(b)] >= Len(Request(b).arg) /\ index'[SST(b)] = 0
      /\ \A p \in Process \ {SST(b)} : index'[p] = index[p]
      /\ sstAt'[b] = "receive" /\ \A a \in Asid \ {b} : sstAt'[a] = sstAt[a]
      /\ UNCHANGED <<testAt, payload, childAt, exc, memory, made, io, busy, data, shown>>
  BY <1>1 DEF Written, Respond, SstMoves, boot, users, Domains
<1>3. \A p \in Process : p # child(b) => inbox'[p] = inbox[p]
  BY <1>1, SendEffect DEF Respond, Domains
<1>4. \A a \in Asid \ {b} : SameOut(a)
  BY <1>2, <1>3 DEF SameOut, Same
<1>5. ASSUME b \in Honest, NEW service \in Services PROVE Left(b, service) = <<>>
  <2>1. /\ Request(b) = memory[b].user /\ memory[b].user.arg \in Seq(Char) /\ index[SST(b)] \in Nat
    BY <1>5, PrintsWhat, HonestAsks DEF HonestOf
  <2>2. Count(SST(b)) = index[SST(b)]
    BY <1>2, <2>1 DEF Count
  <2>3. From(memory[b].user.arg, index[SST(b)]) = <<>>
    <3> DEFINE t == memory[b].user.arg
               k == index[SST(b)]
    <3>1. t \in Seq(Char) /\ k \in Nat /\ k >= Len(t) /\ <<>> \in Seq(Char)
      BY <1>2, <2>1, EmptySeq
    <3> HIDE DEF t, k
    <3>2. From(t, k) = <<>>
      BY <3>1, FromFacts
    <3>3. QED
      BY <3>2 DEF t, k
  <2>4. QED
    BY <2>2, <2>3 DEF Left
<1>6. inbox'[SST(b)] = inbox[SST(b)] /\ index'[test] = index[test]
  BY <1>2, <1>3
<1>7. QED
  BY <1>1, <1>2, <1>4, <1>5, <1>6, ServiceEnds

LEMMA SstServeOut ==
  ASSUME OutInv, machine = "runs", NEW b \in Asid, sstAt[b] = "serve", SstServe(b)
  PROVE  OutInv'
<1>1. CASE GetTod(b) \/ terminate(b) \/ SstIgnore(b) \/ SstTrap(b) \/ SstFault(b)
  BY <1>1, QuietOut, FaultOut
<1>2. CASE SstWrite(b)
  <2>1. CASE /\ SstMoves(b, "serve", "serve")
             /\ Write(SST(b), DeviceOf(b), Request(b).arg)
             /\ UNCHANGED <<boot, payload, users, inbox>>
    <3>1. UNCHANGED <<boot, services, users, inbox>>
      <4>1. sstAt' = sstAt
        BY <2>1 DEF SstMoves, OutInv, SstInv, Domains
      <4>2. QED
        BY <2>1, <4>1 DEF services
    <3>2. QED
      BY <1>2, <2>1, <3>1, SstEmitOut, SstCheckOut DEF Write
  <2>2. CASE /\ SstMoves(b, "serve", "receive")
             /\ Written(SST(b), Request(b).arg)
             /\ Respond(b, "0")
    BY <1>2, <2>2, SstWrittenOut
  <2>3. QED
    BY <1>2, <2>1, <2>2 DEF SstWrite
<1>3. QED
  BY <1>1, <1>2 DEF SstServe
\* The device shows the character that is due to it, and it was what was left.
LEMMA DeviceForSst ==
  ASSUME OutInv, machine = "runs", NEW d \in Device, DeviceAnswer(d), busy[d] # test
  PROVE  OutInv'
<1> USE Names
<1>1. SstInv /\ SstInv' /\ Domains /\ \A a \in Asid : ProcessOf(a)
  BY DeviceAnswerInv DEF OutInv, SstInv
<1>2. PICK b \in Asid : busy[d] = SST(b) /\ d \in {printer(b), terminal(b)}
  <2>1. busy[d] # NULL /\ \E a \in Asid : d = printer(a) \/ d = terminal(a)
    BY DEF DeviceAnswer, Device
  <2>2. QED
    BY <1>1, <2>1 DEF ProcessOf, TransferOf
<1>3. PICK service \in Services : d = Place(b, service)
  BY <1>2 DEF Services, Place
<1>4. io[SST(b)] = "asked" /\ sstAt[b] = "serve" /\ Serving(b, "user") /\ memory[b].user \in Prints
  BY <1>1, <1>2 DEF ProcessOf, TransferOf, Serving
<1>5. /\ busy'[d] = NULL
      /\ \/ io'[SST(b)] = "done" /\ shown'[d] = Append(shown[d], data[d])
         \/ io'[SST(b)] = "failed" /\ shown'[d] = shown[d]
      /\ \A p \in Process \ {SST(b)} : io'[p] = io[p]
      /\ \A e \in Device \ {d} : busy'[e] = busy[e] /\ shown'[e] = shown[e]
      /\ UNCHANGED <<testAt, sstAt, payload, childAt, exc, memory, made, inbox, index, data>>
  BY <1>1, <1>2 DEF DeviceAnswer, boot, services, users, Domains
<1>6. \A a \in Asid \ {b} : SameOut(a)
  <2>1. \A a \in Asid \ {b}, other \in Services : Place(a, other) \in Device \ {d}
    BY <1>3, Places
  <2>2. \A a \in Asid \ {b} : printer(a) # d /\ terminal(a) # d
    BY <1>2
  <2>3. QED
    BY <1>5, <2>1, <2>2 DEF SameOut, Same
<1>7. FinalInv'
  <2>1. io[test] = "none" /\ testAt \notin {"final", "end"} /\ io'[test] = io[test]
    BY <1>1, <1>4, <1>5, TestAway
  <2>2. QED
    BY <1>5, <2>1, SameFinal DEF OutInv
<1>8. ASSUME b \in Honest PROVE HonestOf(b)' /\ ShownOf(b)'
  <2>1. HonestOf(b) /\ ShownOf(b)
    BY <1>8, HonestAsks
  <2> DEFINE t == memory[b].user.arg
             k == index[SST(b)]
  <2>2. /\ memory[b].user.service_code = service /\ data[d] = t[k + 1] /\ k < Len(t) /\ k \in Nat
        /\ t \in Seq(Char) /\ shown[d] \in Seq(Char)
    BY <1>2, <1>3, <1>4, <2>1, Kinds DEF HonestOf, ShownOf
  <2>3. Pending(b) /\ Pending(b)' /\ Answered(b)' = Answered(b) /\ Serving(b, "user")'
        /\ Over(b)' = Over(b)
    BY <1>4, <1>5 DEF Pending, Sent, Serving, Answered, Over
  <2>4. HonestOf(b)'
    <3>1. \A other \in Services : busy'[Place(b, other)] = SST(b) => busy[Place(b, other)] = SST(b)
      BY <1>5, Places
    <3>2. QED
      BY <1>4, <1>5, <2>1, <2>2, <2>3, <3>1 DEF HonestOf
  <2>5. ASSUME NEW other \in Services
        PROVE  AskedFor(b, other)' = AskedFor(b, other)
    BY <1>5 DEF AskedFor
  <2>6. ASSUME NEW other \in Services, other # service
        PROVE  /\ shown'[Place(b, other)] = shown[Place(b, other)]
               /\ Left(b, other)' = Left(b, other)
    <3>1. Place(b, other) \in Device \ {d}
      BY <1>3, <2>6, Places
    <3>2. QED
      BY <1>5, <2>2, <2>6, <3>1 DEF Left
  <2>7. CASE io'[SST(b)] = "failed"
    <3>1. Count(SST(b))' = Count(SST(b))
      BY <1>4, <1>5, <2>7 DEF Count
    <3>2. \A other \in Services : Left(b, other)' = Left(b, other)
      BY <1>5, <2>3, <3>1 DEF Left
    <3>3. \A other \in Services : shown'[Place(b, other)] = shown[Place(b, other)]
      BY <1>3, <1>5, <2>6, <2>7
    <3>4. ShownOf(b)'
      BY <2>1, <2>3, <2>5, <3>2, <3>3 DEF ShownOf
    <3>5. QED
      BY <2>4, <3>4
  <2>8. CASE io'[SST(b)] = "done"
    <3>1. shown'[d] = Append(shown[d], t[k + 1])
      BY <1>5, <2>2, <2>8
    <3>2. Left(b, service) = From(t, k)
      <4>1. Count(SST(b)) = k
        BY <1>4, <2>2 DEF Count
      <4>2. QED
        BY <2>2, <2>3, <4>1 DEF Left
    <3>3. Left(b, service)' = From(t, k + 1)
      <4>1. Count(SST(b))' = k + 1
        BY <1>5, <2>8 DEF Count
      <4>2. Left(b, service)' = IF Pending(b)' /\ memory'[b].user.service_code = service
                                  THEN From(memory'[b].user.arg, Count(SST(b))') ELSE <<>>
        BY DEF Left
      <4>3. memory'[b] = memory[b]
        BY <1>5
      <4>4. QED
        BY <2>2, <2>3, <4>1, <4>2, <4>3
    <3>4. /\ shown'[d] \in Seq(Char)
          /\ shown'[d] \o From(t, k + 1) = shown[d] \o From(t, k)
      <4> DEFINE s == shown[d]
      <4>1. s \in Seq(Char) /\ t \in Seq(Char) /\ k \in Nat /\ k < Len(t)
        BY <2>2
      <4>2. shown'[d] = Append(s, t[k + 1])
        BY <3>1
      <4> HIDE DEF s, t, k
      <4>3. Append(s, t[k + 1]) \o From(t, k + 1) = s \o From(t, k) /\ t[k + 1] \in Char
        BY ONLY <4>1, FromFacts
      <4>4. Append(s, t[k + 1]) \in Seq(Char)
        BY <4>1, <4>3, AppendProperties
      <4>5. QED
        BY <4>2, <4>3, <4>4 DEF s
    <3>5. ASSUME NEW other \in Services
          PROVE  /\ shown'[Place(b, other)] \in Seq(Char)
                 /\ shown'[Place(b, other)] \o Left(b, other)' = shown[Place(b, other)] \o Left(b, other)
      <4>1. CASE other = service
        BY <1>3, <3>2, <3>3, <3>4, <4>1
      <4>2. CASE other # service
        BY <2>1, <2>6, <4>2 DEF ShownOf
      <4>3. QED
        BY <4>1, <4>2
    <3>6. ShownOf(b)'
      <4> HIDE DEF t, k
      <4>1. QED
        BY <2>1, <2>3, <2>5, <3>5 DEF ShownOf
    <3>7. QED
      BY <2>4, <3>6
  <2>9. QED
    BY <1>5, <2>7, <2>8
<1>9. QED
  BY <1>1, <1>5, <1>6, <1>7, <1>8, OneShown

\* The same for the final message, which test has on the first terminal.
LEMMA DeviceForTest ==
  ASSUME OutInv, machine = "runs", NEW d \in Device, DeviceAnswer(d), busy[d] = test
  PROVE  OutInv'
<1> USE Names
<1>1. SstInv /\ SstInv' /\ Domains /\ BootInv /\ FinalInv /\ \A a \in Asid : ProcessOf(a)
  BY DeviceAnswerInv DEF OutInv, SstInv
<1>2. d = terminal(1)
  <2>1. \E a \in Asid : d = printer(a) \/ d = terminal(a)
    BY DEF Device
  <2>2. \A a \in Asid : busy[printer(a)] # test /\ (busy[terminal(a)] = test => a = 1)
    BY <1>1 DEF ProcessOf, TransferOf
  <2>3. QED
    BY <2>1, <2>2
<1>3. io[test] = "asked" /\ testAt = "final"
  BY <1>1, <1>2 DEF BootInv
<1>4. /\ busy'[d] = NULL
      /\ \/ io'[test] = "done" /\ shown'[d] = Append(shown[d], data[d])
         \/ io'[test] = "failed" /\ shown'[d] = shown[d]
      /\ \A p \in Process \ {test} : io'[p] = io[p]
      /\ \A e \in Device \ {d} : busy'[e] = busy[e] /\ shown'[e] = shown[e]
      /\ UNCHANGED <<testAt, sstAt, payload, childAt, exc, memory, made, inbox, index, data>>
  BY <1>1 DEF DeviceAnswer, boot, services, users, Domains
<1>5. \A a \in Asid \ {1} : SameOut(a)
  <2>1. \A a \in Asid \ {1}, other \in Services : Place(a, other) \in Device \ {d}
    BY <1>2, Places
  <2>2. \A a \in Asid \ {1} : printer(a) # d /\ terminal(a) # d
    BY <1>2
  <2>3. QED
    BY <1>4, <2>1, <2>2 DEF SameOut, Same
<1> DEFINE k == index[test]
<1>6. k \in Nat /\ k < Len(FINAL) /\ data[d] = FINAL[k + 1] /\ FINAL \in Seq(Char)
  BY <1>1, <1>2, <1>3, SstAssumption DEF FinalInv
<1>7. 1 \in Honest => shown[d] \in Seq(Char)
  BY <1>2, HonestAsks, Places DEF ShownOf, Services
<1>8. 1 \in Honest /\ io'[test] = "done" =>
        shown'[d] \in Seq(Char) /\ shown'[d] \o From(FINAL, k + 1) = shown[d] \o From(FINAL, k)
  <2> SUFFICES ASSUME 1 \in Honest, io'[test] = "done"
               PROVE  shown'[d] \in Seq(Char) /\ shown'[d] \o From(FINAL, k + 1) = shown[d] \o From(FINAL, k)
    OBVIOUS
  <2> DEFINE s == shown[d]
  <2>1. s \in Seq(Char) /\ FINAL \in Seq(Char) /\ k \in Nat /\ k < Len(FINAL)
    BY <1>6, <1>7
  <2>2. shown'[d] = Append(s, FINAL[k + 1])
    BY <1>4, <1>6
  <2> HIDE DEF s, k
  <2>3. Append(s, FINAL[k + 1]) \o From(FINAL, k + 1) = s \o From(FINAL, k) /\ FINAL[k + 1] \in Char
    BY ONLY <2>1, FromFacts
  <2>4. Append(s, FINAL[k + 1]) \in Seq(Char)
    BY <2>1, <2>3, AppendProperties
  <2>5. QED
    BY <2>2, <2>3, <2>4 DEF s
<1>9. FinalInv'
  <2>1. io'[test] # "asked" /\ index'[test] = k
    BY <1>4
  <2>2. ASSUME 1 \in Honest
        PROVE  shown'[terminal(1)] \o From(FINAL, Count(test)') = AskedFor(1, "WRITETERMINAL")' \o FINAL
    <3>1. shown[d] \o From(FINAL, Count(test)) = AskedFor(1, "WRITETERMINAL") \o FINAL
      BY <1>1, <1>2, <1>3, <2>2 DEF FinalInv
    <3>2. Count(test) = k
      BY <1>3, <1>6 DEF Count
    <3>3. AskedFor(1, "WRITETERMINAL")' = AskedFor(1, "WRITETERMINAL")
      BY <1>4 DEF AskedFor
    <3>4. CASE io'[test] = "done"
      <4>1. Count(test)' = k + 1
        BY <2>1, <3>4 DEF Count
      <4>2. QED
        BY <1>2, <1>8, <2>2, <3>1, <3>2, <3>3, <3>4, <4>1
    <3>5. CASE io'[test] = "failed"
      <4>1. Count(test)' = k /\ shown'[d] = shown[d]
        BY <1>4, <1>6, <2>1, <3>5 DEF Count
      <4>2. QED
        BY <1>2, <3>1, <3>2, <3>3, <4>1
    <3>6. QED
      BY <1>4, <3>4, <3>5
  <2>3. QED
    BY <1>1, <1>3, <1>4, <1>6, <2>1, <2>2 DEF FinalInv
<1>10. ASSUME 1 \in Honest PROVE HonestOf(1)' /\ ShownOf(1)'
  <2>1. HonestOf(1) /\ ShownOf(1) /\ ProcessOf(1)
    BY <1>10, HonestAsks
  <2>2. Pending(1)' = Pending(1) /\ Answered(1)' = Answered(1) /\ Serving(1, "user")' = Serving(1, "user")
        /\ Over(1) /\ Over(1)' /\ Count(SST(1))' = Count(SST(1))
    BY <1>3, <1>4 DEF Pending, Sent, Serving, Answered, Over, Count
  <2>3. HonestOf(1)'
    <3>1. \A service \in Services : busy'[Place(1, service)] = SST(1) => busy[Place(1, service)] = SST(1)
      BY <1>4, Places
    <3>2. QED
      BY <1>4, <2>1, <2>2, <3>1 DEF HonestOf
  <2>4. ShownOf(1)'
    <3>1. shown'[Place(1, "WRITEPRINTER")] = shown[Place(1, "WRITEPRINTER")]
      BY <1>2, <1>4, Places
    <3>2. shown'[Place(1, "WRITETERMINAL")] \in Seq(Char)
      BY <1>2, <1>4, <1>7, <1>8, <1>10, Places
    <3>3. Left(1, "WRITEPRINTER")' = Left(1, "WRITEPRINTER")
          /\ AskedFor(1, "WRITEPRINTER")' = AskedFor(1, "WRITEPRINTER")
      BY <1>4, <2>2 DEF Left, AskedFor
    <3>4. QED
      BY <2>1, <2>2, <3>1, <3>2, <3>3 DEF ShownOf, Services
  <2>5. QED
    BY <2>3, <2>4
<1>11. QED
  BY <1>1, <1>4, <1>5, <1>9, <1>10, OneShown
\* test does nothing to what the user processes are shown before it prints.
LEMMA TestBeforeOut ==
  ASSUME OutInv, machine = "runs", TestCreateMutex \/ spawn_sst \/ TestEnd
  PROVE  OutInv'
<1> USE Names
<1>1. SstInv /\ SstInv' /\ Domains /\ BootInv /\ FinalInv /\ turn \in Asid
  BY TestSpawnInv DEF OutInv, SstInv, BootInv
<1>2. PICK b \in Asid : b = turn
  BY <1>1
<1>3. /\ UNCHANGED <<payload, childAt, exc, memory, made, inbox, io, index, busy, data, shown>>
      /\ testAt' \in {"final", "end"} <=> testAt \in {"final", "end"}
      /\ testAt' = "final" <=> testAt = "final"
      /\ \A a \in Asid \ {b} : sstAt'[a] = sstAt[a]
      /\ sstAt'[b] = sstAt[b] \/ (sstAt[b] = "none" /\ sstAt'[b] = "start")
  <2>1. CASE TestCreateMutex \/ TestEnd
    BY <2>1 DEF TestCreateMutex, TestEnd, boot, services, users, transfer
  <2>2. CASE spawn_sst
    <3>1. sstAt[b] = "none"
      <4>1. turn \in turn..N
        BY <1>1, SstAssumption DEF Asid
      <4>2. QED
        BY <1>1, <1>2, <2>2, <4>1 DEF spawn_sst, BootInv
    <3>2. QED
      BY <1>1, <1>2, <2>2, <3>1 DEF spawn_sst, users, transfer, Domains
  <2>3. QED
    BY <2>1, <2>2
<1>4. FinalInv'
  <2>1. index'[test] = index[test] /\ Count(test)' = Count(test)
        /\ AskedFor(1, "WRITETERMINAL")' = AskedFor(1, "WRITETERMINAL")
    BY <1>3 DEF Count, AskedFor
  <2>2. QED
    BY <1>1, <1>3, <2>1 DEF FinalInv
<1>5. \A a \in Asid \ {b} : SameOut(a)
  BY <1>3 DEF SameOut, Same
<1>6. ASSUME b \in Honest PROVE HonestOf(b)' /\ ShownOf(b)'
  <2>1. CASE sstAt'[b] = sstAt[b]
    <3>1. SameOut(b)
      BY <1>3, <2>1 DEF SameOut, Same
    <3>2. QED
      BY <1>3, <1>6, <3>1, HonestAsks, SameShown
  <2>2. CASE sstAt[b] = "none" /\ sstAt'[b] = "start"
    <3>1. HonestOf(b) /\ ShownOf(b) /\ ~ Serving(b, "user") /\ ~ Serving(b, "user")'
      BY <1>6, <2>2, HonestAsks DEF Serving
    <3>2. Pending(b)' = Pending(b) /\ Answered(b)' = Answered(b) /\ Over(b)' = Over(b)
          /\ Count(SST(b))' = Count(SST(b))
      BY <1>3, <2>2, <3>1 DEF Pending, Sent, Answered, Over, Count
    <3>3. HonestOf(b)'
      BY <1>3, <2>2, <3>1, <3>2 DEF HonestOf
    <3>4. \A service : Left(b, service)' = Left(b, service) /\ AskedFor(b, service)' = AskedFor(b, service)
      BY <1>3, <3>2 DEF Left, AskedFor
    <3>5. ShownOf(b)'
      BY <1>3, <3>1, <3>2, <3>4 DEF ShownOf
    <3>6. QED
      BY <3>3, <3>5
  <2>3. QED
    BY <1>3, <2>1, <2>2
<1>7. QED
  BY <1>1, <1>3, <1>4, <1>5, <1>6, OneShown

\* When the last SST has reported, the first terminal has shown all that its
\* user process has asked, and the final message is due.
LEMMA TestJoinOut ==
  ASSUME OutInv, machine = "runs", TestJoin
  PROVE  OutInv'
<1> USE Names
<1>1. SstInv /\ SstInv' /\ Domains /\ BootInv' /\ BootInv /\ FinalInv /\ turn \in Asid
  BY TestJoinInv DEF OutInv, SstInv, BootInv
<1>2. PICK i \in DOMAIN inbox[test] : Receive(test, SST(turn), i)
  BY DEF TestJoin
<1>3. \A p \in Process : p # test => inbox'[p] = inbox[p]
  BY <1>1, <1>2, ReceiveEffect DEF Domains
<1>4. /\ UNCHANGED <<sstAt, payload, childAt, exc, memory, made, io, index, busy, data, shown>>
      /\ testAt = "join" /\ testAt' \in {"join", "final"}
  BY DEF TestJoin, boot, services, users, transfer
<1>5. \A a \in Asid : SameOut(a)
  BY <1>3, <1>4 DEF SameOut, Same
<1>6. ASSUME NEW a \in Honest
      PROVE  /\ HonestOf(a)
             /\ shown[Place(a, "WRITETERMINAL")] \in Seq(Char)
             /\ testAt' = "final" => shown[Place(a, "WRITETERMINAL")] = AskedFor(a, "WRITETERMINAL")
  <2>1. HonestOf(a) /\ ShownOf(a) /\ a \in Asid
    BY HonestAsks
  <2>2. testAt' = "final" => ~ Pending(a)
    BY <1>1, <1>4, <2>1 DEF BootInv, HonestOf
  <2>3. ~ Over(a)
    BY <1>4 DEF Over
  <2>4. QED
    BY <2>1, <2>2, <2>3, NothingLeft DEF ShownOf, Services
<1>7. FinalInv'
  <2>1. index'[test] = 0 /\ io'[test] = "none"
    BY <1>1, <1>4 DEF FinalInv, BootInv
  <2>2. ASSUME 1 \in Honest, testAt' \in {"final", "end"}
        PROVE  shown'[terminal(1)] \o (IF testAt' = "final" THEN From(FINAL, Count(test)') ELSE <<>>)
                 = AskedFor(1, "WRITETERMINAL")' \o FINAL
    <3>1. testAt' = "final"
      BY <1>4, <2>2
    <3>2. Count(test)' = 0
      BY <2>1 DEF Count
    <3>3. From(FINAL, 0) = FINAL
      BY SstAssumption, EmptySeq, FromFacts
    <3>4. shown'[terminal(1)] = AskedFor(1, "WRITETERMINAL")
      BY <1>4, <1>6, <2>2, <3>1, Places
    <3>5. AskedFor(1, "WRITETERMINAL")' = AskedFor(1, "WRITETERMINAL")
      BY <1>4 DEF AskedFor
    <3>6. QED
      BY <3>1, <3>2, <3>3, <3>4, <3>5
  <2>3. Len(FINAL) \in Nat
    BY SstAssumption, LenProperties
  <2>4. /\ index'[test] \in Nat /\ index'[test] <= Len(FINAL)
        /\ testAt' # "final" => index'[test] = 0
        /\ io'[test] # "none" => index'[test] < Len(FINAL)
        /\ io'[test] = "asked" => data'[terminal(1)] = FINAL[index'[test] + 1]
    BY <2>1, <2>3
  <2>5. QED
    BY <2>2, <2>4 DEF FinalInv
<1>8. ASSUME NEW a \in Honest PROVE HonestOf(a)' /\ ShownOf(a)'
  <2>1. HonestOf(a) /\ ShownOf(a) /\ a \in Asid
    BY HonestAsks
  <2>2. Pending(a)' = Pending(a) /\ Answered(a)' = Answered(a) /\ Serving(a, "user")' = Serving(a, "user")
        /\ Count(SST(a))' = Count(SST(a)) /\ ~ Over(a)
    BY <1>4, <1>5, <2>1 DEF Pending, Sent, Answered, Serving, Count, Over, SameOut, Same
  <2>3. HonestOf(a)'
    BY <1>4, <2>1, <2>2 DEF HonestOf
  <2>4. \A service : Left(a, service)' = Left(a, service) /\ AskedFor(a, service)' = AskedFor(a, service)
    BY <1>4, <2>2 DEF Left, AskedFor
  <2>5. ShownOf(a)'
    BY <1>4, <2>1, <2>2, <2>4 DEF ShownOf
  <2>6. QED
    BY <2>3, <2>5
<1>9. QED
  BY <1>1, <1>7, <1>8 DEF OutInv

\* test prints the final message.
LEMMA TestFinalOut ==
  ASSUME OutInv, machine = "runs", TestFinal
  PROVE  OutInv'
<1> USE Names
<1>1. SstInv /\ SstInv' /\ Domains /\ BootInv /\ FinalInv
  BY TestFinalInv DEF OutInv, SstInv
<1>2. testAt = "final" /\ UNCHANGED <<sstAt, payload, childAt, exc, memory, made, inbox>>
  BY DEF TestFinal, services, users
<1> DEFINE k == index[test]
           asked == AskedFor(1, "WRITETERMINAL")
<1>3. k \in Nat /\ Len(FINAL) \in Nat /\ FINAL \in Seq(Char) /\ asked' = asked
  BY <1>1, <1>2, SstAssumption, LenProperties DEF FinalInv, AskedFor
<1>4. 1 \in Honest => shown[terminal(1)] \o From(FINAL, Count(test)) = asked \o FINAL
  BY <1>1, <1>2 DEF FinalInv
<1>5. CASE Emit(test, terminal(1), FINAL) /\ UNCHANGED boot
  <2>1. /\ io[test] = "none" /\ io'[test] = "asked" /\ k < Len(FINAL)
        /\ data'[terminal(1)] = FINAL[k + 1] /\ busy'[terminal(1)] = test
        /\ \A p \in Process \ {test} : io'[p] = io[p]
        /\ \A e \in Device \ {terminal(1)} : busy'[e] = busy[e] /\ data'[e] = data[e]
        /\ UNCHANGED <<testAt, index, shown>>
    BY <1>1, <1>5 DEF Emit, boot, Domains
  <2>2. Count(test)' = Count(test)
    BY <2>1 DEF Count
  <2>3. FinalInv'
    BY <1>1, <1>2, <1>3, <1>4, <2>1, <2>2 DEF FinalInv
  <2>4. \A a \in Asid \ {1} : SameOut(a)
    <3>1. \A a \in Asid \ {1}, other \in Services : Place(a, other) \in Device \ {terminal(1)}
      BY Places
    <3>2. QED
      BY <1>2, <2>1, <3>1 DEF SameOut, Same
  <2>5. ASSUME 1 \in Honest PROVE HonestOf(1)' /\ ShownOf(1)'
    <3>1. HonestOf(1) /\ ShownOf(1)
      BY <2>5, HonestAsks
    <3>2. Pending(1)' = Pending(1) /\ Answered(1)' = Answered(1) /\ Serving(1, "user")' = Serving(1, "user")
          /\ Over(1)' = Over(1) /\ Count(SST(1))' = Count(SST(1))
      BY <1>2, <2>1 DEF Pending, Sent, Serving, Answered, Over, Count
    <3>3. \A service \in Services : busy'[Place(1, service)] = SST(1) =>
            Place(1, service) \in Device \ {terminal(1)} /\ busy[Place(1, service)] = SST(1)
      BY <2>1, Places
    <3>4. HonestOf(1)'
      BY <1>2, <2>1, <3>1, <3>2, <3>3 DEF HonestOf
    <3>5. \A service : Left(1, service)' = Left(1, service) /\ AskedFor(1, service)' = AskedFor(1, service)
      BY <1>2, <3>2 DEF Left, AskedFor
    <3>6. ShownOf(1)'
      BY <2>1, <3>1, <3>2, <3>5 DEF ShownOf
    <3>7. QED
      BY <3>4, <3>6
  <2>6. QED
    BY <1>1, <2>1, <2>3, <2>4, <2>5, OneShown
<1>6. CASE Check(test) /\ UNCHANGED boot
  <2>1. /\ \/ io[test] = "done" /\ io'[test] = "none" /\ index'[test] = k + 1
           \/ io'[test] = io[test] /\ index'[test] = k
        /\ \A p \in Process \ {test} : io'[p] = io[p] /\ index'[p] = index[p]
        /\ UNCHANGED <<testAt, busy, data, shown>>
    BY <1>1, <1>6 DEF Check, boot, transfer, Domains
  <2>2. Count(test)' = Count(test)
    BY <1>3, <2>1 DEF Count
  <2>3. FinalInv'
    <3>1. io[test] = "done" => k < Len(FINAL)
      BY <1>1 DEF FinalInv
    <3>2. index'[test] \in Nat /\ index'[test] <= Len(FINAL)
      BY <1>1, <1>3, <2>1, <3>1 DEF FinalInv
    <3>3. QED
      BY <1>1, <1>2, <1>3, <1>4, <2>1, <2>2, <3>2 DEF FinalInv
  <2>4. \A a \in Asid : SameOut(a)
    BY <1>2, <2>1 DEF SameOut, Same
  <2>5. 1 \in Honest => HonestOf(1)' /\ ShownOf(1)'
    BY <2>1, <2>4, HonestAsks, SameShown
  <2>6. QED
    BY <1>1, <2>1, <2>3, <2>4, <2>5, OneShown
<1>7. CASE Written(test, FINAL) /\ testAt' = "end"
  <2>1. /\ io[test] = "none" /\ k >= Len(FINAL) /\ index'[test] = 0
        /\ \A p \in Process \ {test} : index'[p] = index[p]
        /\ UNCHANGED <<io, busy, data, shown>>
    BY <1>1, <1>7 DEF Written, Domains
  <2>2. FinalInv'
    <3>1. Count(test) = k
      BY <1>3, <2>1 DEF Count
    <3>2. From(FINAL, k) = <<>>
      <4> HIDE DEF k
      <4>1. QED
        BY <1>3, <2>1, EmptySeq, FromFacts
    <3>3. 1 \in Honest => shown'[terminal(1)] \o <<>> = asked' \o FINAL
      BY <1>3, <1>4, <2>1, <3>1, <3>2
    <3>4. testAt' = "end" /\ testAt' # "final" /\ io'[test] = "none"
      BY <1>7, <2>1
    <3>5. QED
      BY <1>3, <2>1, <3>3, <3>4 DEF FinalInv
  <2>3. \A a \in Asid : SameOut(a)
    BY <1>2, <2>1 DEF SameOut, Same
  <2>4. testAt' \in {"final", "end"} <=> testAt \in {"final", "end"}
    BY <1>2, <1>7
  <2>5. 1 \in Honest => HonestOf(1)' /\ ShownOf(1)'
    BY <2>3, <2>4, HonestAsks, SameShown
  <2>6. QED
    BY <1>1, <2>2, <2>3, <2>4, <2>5, OneShown
<1>8. QED
  BY <1>5, <1>6, <1>7 DEF TestFinal, Write
LEMMA InitOutInv == SstInit => OutInv
<1> SUFFICES ASSUME SstInit PROVE OutInv
  OBVIOUS
<1> USE Names
<1>1. SstInv
  BY InitSstInv
<1>2. FinalInv
  <2>1. Len(FINAL) \in Nat
    BY SstAssumption, LenProperties
  <2>2. index[test] = 0 /\ io[test] = "none" /\ testAt = "mutex"
    BY DEF SstInit
  <2>3. QED
    BY <2>1, <2>2 DEF FinalInv
<1>3. ASSUME NEW a \in Honest PROVE HonestOf(a) /\ ShownOf(a)
  <2>1. a \in Asid
    BY DEF Honest
  <2>2. /\ childAt[a] = "none" /\ sstAt[a] = "none" /\ index[SST(a)] = 0 /\ io[SST(a)] = "none"
        /\ inbox[SST(a)] = <<>> /\ made[a] = <<>>
        /\ \A d \in Device : busy[d] = NULL /\ shown[d] = <<>>
    BY <2>1 DEF SstInit
  <2>3. HonestOf(a)
    BY <2>1, <2>2, Places DEF HonestOf
  <2>4. ~ Pending(a)
    BY <2>2 DEF Pending, Sent, Has, Serving
  <2>5. ASSUME NEW service \in Services
        PROVE  /\ shown[Place(a, service)] \in Seq(Char)
               /\ shown[Place(a, service)] \o Left(a, service) = AskedFor(a, service)
    <3>1. shown[Place(a, service)] = <<>> /\ Left(a, service) = <<>>
      BY <2>1, <2>2, <2>4, Places DEF Left
    <3>2. AskedFor(a, service) = <<>>
      BY <2>2, JoinedNone DEF AskedFor
    <3>3. <<>> \in Seq(Char) /\ <<>> \o <<>> = <<>>
      BY EmptySeq, ConcatEmptySeq
    <3>4. QED
      BY <3>1, <3>2, <3>3
  <2>6. QED
    BY <2>3, <2>5 DEF ShownOf
<1>4. QED
  BY <1>1, <1>2, <1>3 DEF OutInv

LEMMA NextOutInv == OutInv /\ [SstNext]_sstVars => OutInv'
<1> SUFFICES ASSUME OutInv, [SstNext]_sstVars PROVE OutInv'
  OBVIOUS
<1>1. CASE UNCHANGED sstVars
  <2>1. /\ UNCHANGED <<machine, testAt, turn, sstAt, payload, childAt, exc, memory, made, inbox, io,
                       index, busy, data, shown>>
    BY <1>1 DEF sstVars, boot, services, users, transfer
  <2>2. SstInv' /\ FinalInv'
    BY <1>1, <2>1, SstNextInv, SameFinal DEF OutInv
  <2>3. \A a \in Asid : SameOut(a)
    BY <2>1 DEF SameOut, Same
  <2>4. QED
    BY <2>1, <2>2, <2>3, HonestAsks, SameShown DEF OutInv
<1>2. ASSUME machine = "runs", TestStep PROVE OutInv'
  BY <1>2, TestBeforeOut, TestJoinOut, TestFinalOut DEF TestStep
<1>3. ASSUME machine = "runs", NEW a \in Asid, SSTServer(a) PROVE OutInv'
  BY <1>3, SstStartOut, SstReceiveOut, SstServeOut DEF SSTServer
<1>4. ASSUME machine = "runs", NEW a \in Asid, UserStep(a) PROVE OutInv'
  BY <1>4, UserWaitOut, UserCallOut DEF UserStep
<1>5. ASSUME machine = "runs", NEW a \in Asid, UserAwait(a) PROVE OutInv'
  BY <1>5, UserWaitOut
<1>6. ASSUME machine = "runs", NEW a \in Asid, GeneralExceptionHandlerSupport(a) PROVE OutInv'
  BY <1>6, HandleSendOut, HandleReceiveOut, HandleTrapOut DEF GeneralExceptionHandlerSupport
<1>7. ASSUME machine = "runs", NEW d \in Device, DeviceAnswer(d) PROVE OutInv'
  BY <1>7, DeviceForSst, DeviceForTest
<1>8. ASSUME NucleusPanics PROVE OutInv'
  <2>1. UNCHANGED <<testAt, turn, sstAt, payload, childAt, exc, memory, made, inbox, io, index, busy,
                    data, shown>>
    BY <1>8 DEF NucleusPanics, getDevNumPanics, schedulerPanics, boot, services, users, transfer
  <2>2. SstInv' /\ FinalInv'
    BY <1>8, <2>1, NucleusPanicsInv, SameFinal DEF OutInv
  <2>3. \A a \in Asid : SameOut(a)
    BY <2>1 DEF SameOut, Same
  <2>4. QED
    BY <2>1, <2>2, <2>3, HonestAsks, SameShown DEF OutInv
<1>9. QED
  BY <1>1, <1>2, <1>3, <1>4, <1>5, <1>6, <1>7, <1>8 DEF SstNext, Runs, NucleusPanics

\* What is shown and what is left of it are what was asked, so what is shown
\* is a beginning, and all of it when nothing is left.
LEMMA OutMeansExact == OutInv => OutputExact
<1> SUFFICES ASSUME OutInv, NEW a \in Honest
             PROVE  /\ Begins(shown[printer(a)], OnPrinter(a))
                    /\ Begins(shown[terminal(a)], OnTerminal(a))
                    /\ childAt[a] = "user" => /\ shown[printer(a)] = OnPrinter(a)
                                              /\ shown[terminal(a)] = OnTerminal(a)
  BY DEF OutputExact
<1>1. /\ ShownOf(a) /\ ProcessOf(a) /\ a \in Asid
      /\ \A service : AskedFor(a, service) \in Seq(Char)
      /\ \A r \in RequestsOf(a) : \A service : Part(r, service) \in Seq(Char)
  BY HonestAsks
<1>2. \A service \in Services : Left(a, service) \in Seq(Char)
  <2> SUFFICES ASSUME NEW service \in Services, Pending(a), memory[a].user.service_code = service
               PROVE  From(memory[a].user.arg, Count(SST(a))) \in Seq(Char)
    BY EmptySeq DEF Left
  <2>1. memory[a].user \in RequestsOf(a)
    BY <1>1, HonestAsks DEF Pending, ProcessOf, ExchangeOf, HonestOf
  <2>2. memory[a].user.arg \in Seq(Char)
    BY <1>1, <2>1 DEF Part
  <2>3. Count(SST(a)) \in Nat
    BY HonestAsks DEF HonestOf, Count
  <2>4. QED
    BY <2>2, <2>3, EmptySeq, FromFacts
<1>3. FINAL \in Seq(Char)
  BY SstAssumption
<1>4. ASSUME NEW s \in Seq(Char), NEW t \in Seq(Char), NEW u, s \o t = u PROVE Begins(s, u)
  <2>1. Begins(s, s \o t)
    BY FromFacts
  <2>2. QED
    BY <1>4, <2>1
<1>5. ASSUME NEW service \in Services, ~ (Over(a) /\ service = "WRITETERMINAL")
      PROVE  Begins(shown[Place(a, service)], AskedFor(a, service))
  <2>1. shown[Place(a, service)] \in Seq(Char)
        /\ shown[Place(a, service)] \o Left(a, service) = AskedFor(a, service)
    BY <1>1, <1>5 DEF ShownOf
  <2>2. QED
    BY <1>2, <1>4, <2>1
<1>6. Begins(shown[printer(a)], OnPrinter(a))
  BY <1>1, <1>5, Places DEF OnPrinter, Services
<1>7. ~ Over(a) => OnTerminal(a) = AskedFor(a, "WRITETERMINAL")
  <2>1. AskedFor(a, "WRITETERMINAL") \o <<>> = AskedFor(a, "WRITETERMINAL")
    BY <1>1, ConcatEmptySeq
  <2>2. QED
    BY <2>1 DEF OnTerminal, Over
<1>8. Begins(shown[terminal(a)], OnTerminal(a))
  <2>1. CASE ~ Over(a)
    BY <1>1, <1>5, <1>7, <2>1, Places DEF Services
  <2>2. CASE Over(a)
    <3> DEFINE tail == IF testAt = "final" THEN From(FINAL, Count(test)) ELSE <<>>
    <3>1. a = 1 /\ testAt \in {"final", "end"}
      BY <2>2 DEF Over
    <3>2. shown[terminal(1)] \o tail = AskedFor(1, "WRITETERMINAL") \o FINAL /\ Count(test) \in Nat
      <4>1. FinalInv /\ 1 \in Honest
        BY <3>1 DEF OutInv
      <4>2. shown[terminal(1)] \o tail = AskedFor(1, "WRITETERMINAL") \o FINAL
        BY <3>1, <4>1 DEF FinalInv
      <4>3. Count(test) \in Nat
        BY <4>1 DEF FinalInv, Count
      <4>4. QED
        BY <4>2, <4>3
    <3>3. tail \in Seq(Char)
      BY <1>3, <3>2, EmptySeq, FromFacts
    <3>4. OnTerminal(1) = AskedFor(1, "WRITETERMINAL") \o FINAL
      BY <3>1 DEF OnTerminal
    <3>5. shown[terminal(1)] \in Seq(Char)
      BY <1>1, <3>1, Places DEF ShownOf, Services
    <3> HIDE DEF tail
    <3>6. Begins(shown[terminal(1)], OnTerminal(1))
      BY <1>4, <3>2, <3>3, <3>4, <3>5
    <3>7. QED
      BY <3>1, <3>6
  <2>3. QED
    BY <2>1, <2>2
<1>9. ASSUME childAt[a] = "user"
      PROVE  shown[printer(a)] = OnPrinter(a) /\ shown[terminal(a)] = OnTerminal(a)
  <2>1. ~ Over(a)
    BY <1>9, OverMeansEnd DEF Over
  <2>2. ~ Pending(a)
    BY <1>1, <1>9, HonestAsks DEF ProcessOf, ExchangeOf, Pending, Idle, HonestOf
  <2>3. \A service \in Services : shown[Place(a, service)] = AskedFor(a, service)
    BY <2>1, <2>2, NothingLeft
  <2>4. QED
    BY <1>1, <1>7, <2>1, <2>3, Places DEF OnPrinter, Services
<1>10. QED
  BY <1>6, <1>8, <1>9

\* sst.c:149-176, initProc.c:123-127: a printer or a terminal shows the strings
\* its user process has asked for, in order and without a gap, whatever the
\* other processes and devices do, and the final message comes after them.
THEOREM OutputIsExact == SstSpec => []OutputExact
<1>1. SstInit => OutInv
  BY InitOutInv
<1>2. OutInv /\ [SstNext]_sstVars => OutInv'
  BY NextOutInv
<1>3. OutInv => OutputExact
  BY OutMeansExact
<1>4. QED
  BY <1>1, <1>2, <1>3, PTL DEF SstSpec
=============================================================================
