# A verification of MicroPandOS

MicroPandOS is a small message-passing operating system for the uMPS3 machine,
in three phases: lists and pools (phase 1), the nucleus (phase 2) and the support
level with virtual memory and system service threads (phase 3). This directory
holds TLA+ modules that model it, TLC configurations that check them on small
instances, and proofs checked by TLAPS.

Run from this directory: `tlc -config <run>.cfg <module>`, with the module that
section 3 names for the run, checks a run; `tlapm <module>.tla` checks the proofs
of a module.

## 1. Inventory

| Component | State | Operations | Correct when |
|---|---|---|---|
| PCB pool, queues, tree (`phase1/pcb.c`) | `pcbFree_h`, the queues threaded through `p_list`, `p_parent`/`p_child`/`p_sib` | allocPcb, freePcb, insertProcQ, removeProcQ, outProcQ, insertChild, removeChild, outChild | each PCB is in one list at most; a child hangs under a live process |
| Messages (`phase1/msg.c`) | `msgFree_h`, one inbox per PCB, newest first | allocMsg, freeMsg, pushMessage, popMessage | no message is lost or delivered twice; cells come back |
| Lists (`headers/listx.h`) | pointers | list_add, list_add_tail, list_del, iteration | implements sequences |
| Initialisation (`phase2/initial.c`) | all globals | main | starts with the SSI and `test` |
| Scheduler (`phase2/scheduler.c`) | `current_process`, `ready_queue`, the counters | scheduler: dispatch, HALT, WAIT, PANIC | round robin; stops the machine only when it should |
| Exceptions (`phase2/exceptions.c`) | the saved state in the BIOS page | dispatch by cause, PassUp_Or_Die, system calls | goes back to the interrupted process or to the scheduler |
| System calls (`phase2/syscall.c`) | inboxes, `blocked_msg`, `ready_queue` | SendMessage, ReceiveMessage | no lost wakeup; nothing reaches the dead |
| SSI (`phase2/ssi.c`) | a process; changes all kernel data | CREATEPROCESS, TERMPROCESS, DOIO, GETTIME, CLOCKWAIT, GETSUPPORTPTR, GETPROCESSID | one answer per request; families die together; counters are exact |
| Interrupts (`phase2/interrupts.c`) | `blocked_dev`, `blocked_pseudo_clock` | local timer, interval timer, devices | whoever waits is readied, once |
| Start and end (`phase3/initProc.c`) | `sst_processes`, `supports`, `swap_pool` | test, spawn_sst | the system ends once, after all eight SSTs |
| SST (`phase3/sst.c`) | one process per user process | GET_TOD, TERMINATE, WRITEPRINTER, WRITETERMINAL | answers its user process; ends with it |
| Swap mutex (`phase3/vmSupport.c`) | a process; `process_locking_the_swap_mutex` | swapMutexProcess, and the SEND and RECEIVE of its clients | mutual exclusion; a holder that traps gives it back |
| Pager (`phase3/vmSupport.c`) | `swap_pool`, page tables, TLB, frames, flash devices | pager, replacement, transfers, uTLB refill | swap pool, page tables and TLB agree; no page changes but by its owner |
| Support exceptions (`phase3/exceptionsSupport.c`, `phase3/syscall.c`) | saved exception state | SYSCALLs of user processes, traps | a trap releases the mutex and terminates |
| `klog.c`, tests, user programs, build files | | | not modelled |

How they interact. There is one processor. Handlers of the nucleus (system
calls, interrupts, traps) run with interrupts disabled and end in the
interrupted process or in `scheduler()`. Everything else is a process, the SSI
included: a client asks for a service with a SEND to the SSI followed by a
RECEIVE from it, and the SSI changes the kernel's data itself, with interrupts
enabled, and answers with a SEND. For DOIO the interrupt handler gives the
answer, in the SSI's name.

What is hard: the client may be preempted between its SEND and its RECEIVE, be
terminated before its request is served, or between serving and answering;
the kernel keeps counters apart from the lists they count; it never checks
where a PCB is before inserting it; both pools are finite.

Phase 3 is a program on top of that. `test` creates the swap mutex and one SST
for each address space, and waits for their end. An SST creates its user
process and serves its requests, which it reads through a pointer into the
memory they share. User processes run in virtual memory, and their SSTs read it
through the same page tables; a page fault or trap of either continues in the
support level, in the same process, which asks the mutex for the swap pool by
message, and the SSI for transfers. An SST and its user process share one
support structure, one page table and one stack for the pager, and both run from
the SEND of a request until its answer.

What is hard there: the mutex and its clients decide what a message means from
a global both read; a client can trap, or have a transfer fail, anywhere in the
critical section; two processes of one address space can be in the pager at
once; three tables (swap pool, page tables, TLB) and the contents
of memory must agree although they are changed at different times; the end of
one process is a message that another one is to understand.

## 2. The modules

The nucleus (phases 1 and 2), each module extending the one above:

    KernelState   state, types, the data operations of phase 1
    Scheduler     scheduler() and the end of GeneralExceptionHandler
    Syscall       SendMessage, ReceiveMessage
    Ssi           SSIServer and its services
    Interrupts    the three branches of InterruptExceptionHandler
    Nucleus       the composition: Init, processes, Next, fairness
    NucleusProperties   what the nucleus promises
    MCNucleus     values of the constants for TLC
    NucleusProofs   theorems: types, no PCB lost, what breaks the lists
    CountProofs     theorems: wakeups, counters, verdicts, cells, answers

What lies below the data operations of `KernelState`:

    ListX         listx.h, pointer by pointer
    PcbLists      pcb.c over ListX          implements OrderedLists
    MsgLists      msg.c over ListX          implements OrderedLists
    Devices       registers, slots, halves of terminals   implements Channels
    SsiRace       the ready queue with its pointers, the SSI preempted inside
                  an insertion
    MCStructures  PcbLists, MsgLists and Devices side by side, for TLC
    StructuresProofs   theorems about lists of any length, pcb.c, msg.c, devices

Phase 3:

    Messages      inboxes, for the two modules that use them
    SwapMutex     swapMutexProcess and its clients        implements Lock
    Pager         pager and uTLB refill, extending Lock   implements Memory
    Sst           test, SSTs, user processes, their handlers   implements Join
    InboxProofs   theorems: what push and pop do to an inbox
    SwapMutexProofs, PagerProofs, SstProofs   theorems
    MCSwapMutex, MCPager, MCSst    values of the constants for TLC

`Foundations`, which knows nothing of this system, adds induction and recursion
over the natural numbers to the theorems of the library.

The abstract specifications are what a component promises to its users:

* `OrderedLists`: each list is a sequence, an item is in one at most, an
  operation inserts at an end or removes one item. `KernelState` is written
  in these terms.
* `Channels`: a process commands a subdevice and is answered when it has
  completed, with its status. The device slots of `Nucleus` and the DOIO of
  `Sst` are such channels.
* `Lock`: one client is inside at a time, and somebody is let in when nobody is
  inside. `Pager` uses it for the mutex; that a trapping holder gives the mutex
  back is part of what `SwapMutex` shows.
* `Memory`: every page is a cell. A load returns what the cell it names contains,
  a store changes the cell it names and no other, and nothing else changes any.
  The accesses are part of the specification as programs see them (`access`: the
  operation, the address and the value), so that a store that lands in another
  page's frame, or in none, is no step of it.
* `Join`: workers finish once; the final message and HALT come after the last.

A definition has the name of the function it models where there is one.
Definitions whose comment begins with "Mutant" are plausible bugs of the
definition that follows. No specification uses them: each shows that a property
notices when it takes the place of the original.

### The nucleus: state and code

| Variable | Code |
|---|---|
| `pcbFree_h`, `blocked_msg` | the lists of that name, as sets: the code searches them or takes any element. (The pool is LIFO; the model allows any free PCB to be allocated.) |
| `ready_queue`, `blocked_pseudo_clock` | the lists of that name, head first |
| `current_process` | the global, `NULL` included |
| `p_parent` | the field; `p_child` and `p_sib` are its inverse |
| `p_supportStruct` | whether the field is not NULL |
| `reg_a1` | `p_s.reg_a1` of a process that executes, or is about to execute, a RECEIVE; `NORECV` otherwise |
| `msg_inbox`, `msgFree_h` | the inboxes, newest message first; the number of free cells |
| `process_count`, `soft_blocked_count`, `blocked_dev` | the globals |
| `dev_busy` | the devices with a command to complete |
| `ssi` | the position of SSIServer in its loop, with its local variables |
| `cpu` | running, in WAIT, stopped by HALT or PANIC, stopped by an access through NULL, or returned from `scheduler()` to a caller with nothing to do |

Not in the state: `p_time`, `p_pid`, processor registers other than `a1`, timer
values, the contents of messages beyond the kind of request.

### The nucleus: steps and code

One action is one handler with the scheduling decision it ends in: `ClientSend`,
`ClientRequest` and `ClientReceive` are the two system calls issued by a process,
`PassUp_Or_Die` a trap without support structure, `Slice`, `Tick` and
`Device(d)` the interrupts. `SsiReceive`, the seven services and `SsiReply` are
the three stages of SSIServer's loop, between which it can be preempted. GETTIME
stands for GETSUPPORTPTR too (both read one field of the sender), and `OTHER`
for every unknown service code, which terminates the sender. Clients are
otherwise arbitrary: they may send to anyone, receive from anyone, ask for any
service in `Requests` and trap, in any order. Their only discipline is that a
request is followed by a RECEIVE from the SSI, as in every client of the
repository, that nothing but requests is sent to the SSI, and that nobody asks
for the termination of the SSI.

Priorities among pending interrupts are left open: the model allows them in any
order.

### Where the model of the nucleus ends

All lists of the kernel run through the one `p_list` field of a PCB. Inserting a
PCB that is in a list already corrupts both lists, and hanging a child under a
free PCB corrupts the tree. What happens then depends on pointers this model
does not have, so it ends at such a step: `Running` requires `Intact`. The
property `BreakOnlyByLateRequest` says which steps these are, and it is proved
that there are no others. The state properties are about the states up to that
point. `PcbLists` has the pointers, for callers that respect `Intact`; `SsiRace`
shows one way in which the pointers are corrupted without a late request.

### Lists, pools and devices

| Variable | Code |
|---|---|
| `heap` (`PcbLists`, `MsgLists`, `SsiRace`) | `next` and `prev` of every `struct list_head`, the static heads and those inside PCBs and messages |
| `p_parent`, `m_sender` | the fields |
| `blocked_dev`, `device`, `answer`, `panic` (`Devices`) | the array with its slots; the state of each subdevice; to whom the last interrupt has answered, with which status; whether getDevNum has stopped the machine |
| `ssi`, `asked`, `current_process`, `pcbFree_h` (`SsiRace`) | where the SSI is in the insertion, with the local variables of `list_add_tail`; who has an unserved CREATEPROCESS; the globals |

In `ListX` an operation is the heap after its assignments. The operations of
`pcb.c` and `msg.c` are called as the nucleus calls them: a PCB is inserted when
it is in no queue, hung under a parent while it has no children, freed when it
has no relatives; a message is pushed or freed by whoever holds it. The
pointers that removals leave behind stay in the heap. In `Devices` an interrupt
is handled in one step, with the terminal half guessed from the slot as in
`interrupts.c:94`; the subdevices are those phase 3 uses. In `SsiRace`, the only
module in which the SSI is preempted inside a service, the read and the four
stores of `insertProcQ` are steps.

### The swap mutex

| Variable | Code |
|---|---|
| `process_locking_the_swap_mutex` | the global |
| `inbox` | the inboxes of the mutex and its clients |
| `server` | the position of swapMutexProcess in its loop and its local `sender` |
| `pc`, `paging` | where each client is in pager() or TrapExceptionHandlerSupport, and who has been called from pager() |

Steps: `MutexReceive`, `MutexAssign` and `MutexAnswer` are the loop of the mutex;
`Request`, `Obtain`, `Release`, `Resume` the four messages of pager();
`Fail`, `Trap` and the `Trap...` actions are TrapExceptionHandlerSupport, called
from the pager after a failed transfer or for another trap. A client can be
preempted between any two.

A client in `Careless` may have an answer of its SST in its inbox that it has
not received, as any program may that faults or traps between its SEND and its
RECEIVE (`testers/print.c:19-20`). The trap handler ends in a RECEIVE from PARENT, which is 0, which is ANYMESSAGE: it
takes such an answer, returns, and the pager it was called from goes on without
the mutex (`TrapReturn`). The model contains this; the safety properties are
about the other clients, whatever the careless ones do. What a careless one does
with the swap pool then is outside of them.

### The pager

| Variable | Code |
|---|---|
| `st` | the state of the lock (from `Lock`) |
| `swap_pool`, `next` | the array (the page a frame is assigned to, `NULL` for `sw_asid` -1); the static variable of replacementAlgorithm |
| `sup_privatePgTbl` | `pte_entryLO` of every page in use: valid bit and frame |
| `tlb` | the entry the TLB has for a page, if it has one |
| `ram`, `flash` | the contents of the frames and of the flash devices |
| `sup_exceptState` | of each address space, the page in the saved state of its last fault |
| `response` | the local of pager(), on the one stack its address space has for it: NULL or the support structure |
| `pc`, `page`, `frame` | where a client is; the locals `missing_page_number` and `replacing_frame` |
| `access`, `overlap`, `doubled` | history, for the properties only: the last load or store; whether two clients of one address space have been in the pager at once; whether a page has been read that was in memory |

The two sections with the local timer off (`vmSupport.c:127-137`, `154-169`) are
one step each: no other client runs there, and a device interrupt goes back to
the interrupted process. Everything else can be preempted. A refill may push
any other entry out of the TLB. A flash device in `Failing` may fail any
transfer; a write fails for every block that does not exist.

A client is a process. The SST and the user process of one address space
(`asid`) have one support structure, and the model follows both when they fault
at once: the second fault overwrites the saved state of the first
(`PageFault`), sets the `response` of the other to NULL until its own request
for the support structure is answered (`FollowsNull` is the pager that follows
it meanwhile), and the page to bring in is the one saved last (`ChooseFrame`).
The other locals are on the same stack, as the code is compiled with `-O0`, but
only the holder of the mutex writes and reads them. After `LDST` a client goes
on in whatever state was saved last; as `Program` lets every client access every
page of its address space, which one that is makes no difference here.

The model ends at an access through NULL, and when a page that is in memory has
been read again (`Followed`): the page then has two copies, and a frame that
belongs to nobody.

### System service threads

| Variable | Code |
|---|---|
| `machine` | running, HALT, PANIC |
| `testAt`, `turn` | where test is; `i` of its loops |
| `sstAt`, `payload` | where each SST is; the pointer it has received |
| `childAt`, `exc`, `memory`, `made` | where each user process is; the cause saved in `sup_exceptState`; the request it has in its memory and the one in the frame of TrapExceptionHandlerSupport; the requests it has made (for the properties only) |
| `inbox` | the inboxes of test, SSTs and user processes |
| `io`, `index` | the DOIO under way for each process that prints; `i` in the string |
| `busy`, `data`, `shown` | `blocked_dev`; the character in a device's command; what it has shown |

`Request(a)` follows the pointer when it is used, not when it is received: what
the user process, or the trap handler, has put there meanwhile is what the SST
sees. The trap handler runs on a stack that the handler of its own SYSCALL uses
from the top again, so the frame with its request may hold something else by
then (`HandleTrap`). A bad pointer (`Lost`) makes the SST itself trap, whose
report to `test` is not OK. A page of the user process that the SST follows its
pointer to may be missing, and the transfer that brings it in, or the one that
writes its victim, may fail: then the pager calls the same handler
(`SstFault`, for the SSTs in `Faulty`). An SST that has trapped waits for a
message of anyone; if its user process sends one it goes on from there, which
the model does not follow.

What is below a DOIO is in `Nucleus` and `Devices`. Two ways of the nucleus to
PANIC are here too, because phase 3 can take them: two devices of one line that
answer before the interrupt of the first is handled (`getDevNumPanics`), which two
SSTs that print at the same time are enough for, and the deadlock the scheduler
finds when everybody waits for a message (`schedulerPanics`), as after the
trap of an SST that is not the one `test` waits for.

## 3. What is checked

| Run | Module | Instance | Properties |
|---|---|---|---|
| `families` | `MCNucleus` | 4 PCBs, 1 cell, no device; creation, queries, an unknown service, termination of `a` or `b` by anyone; `a` and `b` symmetric | `TypeOK`, `NothingLost`, `ProcessCountExact`, `FamilyOfTest`, `BreakOnlyByLateRequest` |
| `waits` | `MCNucleus` | 3 PCBs, 2 cells, 1 device; creation with support structure, termination of `a`, CLOCKWAIT, DOIO | `NoLostWakeup`, `SchedulerVerdict`, `DeadReceiveOnlyFromDevices`, `CellsLostOnlyByReuse`, `AnswersMixOnlyByReuse`, `BreakOnlyByLateRequest`, `SoftCountDriftsOnlyByOverwrite` |
| `devices` | `MCNucleus` | 3 PCBs, 2 cells, 2 devices on one line; creation, CLOCKWAIT, DOIO; no symmetry | `SchedulerVerdict`, `OneAnswerPerRequest`, `SoftCountDriftsOnlyByOverwrite`, `ReadyIsDispatched`, `SoftBlockedWakes` |
| `structures` | `MCStructures` | 3 PCBs with one queue; 4 messages, 2 inboxes, 2 senders; 3 processes with flash 0 and 1, printer 7 and the transmitters of terminals 0 and 7 | `WellLinked`, `ParentsAgree`, `ImplementsLists`, `ImplementsInboxes`, `FirstOfSender`, `ImplementsChannels` |
| `mutex` | `MCSwapMutex` | 3 clients, one of them careless; all may trap at any time | `MutualExclusion`, `MessagesUnderstood`, `TrapTestExact`, `ImplementsLock`, `ImplementsGranted` |
| `paging` | `MCPager` | the two processes of one address space and one of another, 3 pages in 2 frames, one page of data; one flash device may fail; the two processes symmetric | `TablesAgree`, `OneFrameEach`, `ImplementsMemory` |
| `services` | `MCSst` | 2 address spaces; one request of a process that may trap, pass a bad pointer and whose printer may fail, two of one that does not; a page of whose memory may fail to come for its SST; strings of one and two characters | `OutputExact`, `NoLostAnswer`, `PanicExplained`, `ImplementsJoin`, `EndsWhenAsked` |
| `late_answer` | `MCNucleus` | as `waits` | `DeviceAnswersTheWaiting`, violated |
| `undetected_deadlock` | `MCNucleus` | as `waits` | `WaitForSomething`, violated |
| `preempted_insert` | `SsiRace` | 3 PCBs | `InsertedIsQueued`, violated |
| `stack_page` | `MCPager` | one process, page 0 and the stack, one frame | `WrittenBack`, violated |
| `double_fault` | `MCPager` | the two processes of one address space, 2 pages, 2 frames | `ReadsNewPage`, violated |

Bounds, and why they are enough:

* Nucleus: the SSI, `test` and one more PCB (two in `families`), one or two
  message cells, no more than two devices. Two clients are enough for each race
  found (a requester and one process that preempts or terminates it); the two
  PCBs besides `test` in `families` give a chain of three generations as well as
  siblings. One message cell makes every second SEND meet the exhausted table.
  `MaxSoft` bounds the drift of `soft_blocked_count`: no client sends a DOIO
  request in a state where the counter has reached it. The counter can still
  pass it by the requests already sent, so the case beyond the bound occurs
  too. With it the state space is finite.
* `structures`: three PCBs give queues and lists of children with a first, a
  middle and a last entry; four messages in two inboxes let a search pass over a
  message and take one from the middle. `pcb.c`, `msg.c` and the devices have no
  state in common: each behaviour exercises one of them. The subdevices are the
  ends of the layout and one line with two devices, for getDevNum's PANIC.
* `mutex`: one holder, one waiter, and one that disturbs; what an arbitrary
  number of them does is proved.
* `paging`: both owners of a victim occur (the address space itself and the other
  one), a page returns to another frame, and the replacement goes round. Two
  processes of one address space fault at once, on one page and on two, while a
  third takes frames. The proofs are for any number.
* `services`: two SSTs so that they can end in either order, and answers, devices
  and reports can be mistaken for another's. `MaxRequests` bounds the requests
  of a user process before its TERMINATE. Both print, so that two devices of
  one line are busy; one may do wrong, and the other, about which `OutputExact`
  speaks, has an SST that may fail.

What the violated properties show:

* `late_answer`: `interrupts.c:100` speaks of the process that waits for the
  device. A requester that is preempted between its SEND and its RECEIVE does
  not wait yet when the SSI serves its request and the device completes; the
  handler inserts its PCB into the ready queue, in which it already is
  (`interrupts.c:108-109`).
* `undetected_deadlock`: `scheduler.c:23-25` answers a deadlock with PANIC. Two
  DOIO requests for one device count twice in `soft_blocked_count` and are
  answered once (`ssi.c:79-80`), after which a deadlock is a WAIT for ever. The
  clients in the repository serialise their use of a device; the nucleus does
  not ask them to.
* `preempted_insert`: `pcb.c:67` says that insertProcQ inserts into the queue.
  The SSI runs with interrupts enabled. When it has read `head->prev` and is
  preempted, the last process of the ready queue may be dispatched and block;
  the SSI then links the new process behind it, in a list that is not the ready
  queue any more, and the new process never runs.
* `stack_page`: `vmSupport.c:125` says that the page is written back. The block
  is computed from `pte_entryHI` (`vmSupport.c:140`), which for the stack page
  gives 0x3FFFF and not 31, the block it was read from (`vmSupport.c:119` treats
  the stack apart). The write fails and the process that needed the frame is
  terminated.

* `double_fault`: `vmSupport.c:146` speaks of the new page. A user process and its
  SST fault on one page, between the SEND and the RECEIVE of a request; the
  second to get the mutex does not look again (`vmSupport.c:115-122`) and reads
  the page, which is in memory by then, into a second frame. The page table
  names the new copy, and what was stored into the first is lost.

The pattern of `late_answer` makes `waitForClock` and `createProcess` unsafe for
a requester that has been preempted or terminated (`LateRequest`, first two
cases), and `BreakOnlyByLateRequest` says that, with services that are one step
each, nothing else is.

`OneAnswerPerRequest` is checked in a model in which no PCB is reused (only
`test` can end, by a trap, and nothing is created after that). With reuse, a
late answer can reach the new owner of the PCB, and `waits`, in which `a` is
terminated and created again, violates it. What `waits` checks instead is
`AnswersMixOnlyByReuse`: such an inheritance is the only way to an answer that
was not asked for. A process that begins with nothing due has at most one
answer coming while it waits for the SSI, and none while it does not.

What is not promised, and why the properties are stated as they are:

* `BreakOnlyByLateRequest` names the late requests as the exception, it does not
  forbid them; and it is about services that are one step each (`SsiRace` shows
  another way when they are not).
* `DeadReceiveOnlyFromDevices` has its exception too. A DOIO that is served after
  its requester has been terminated puts a dead process into the slot, and a
  process with two commands keeps one slot when it is terminated; the interrupt
  then pushes the response into the inbox of a free PCB
  (`interrupts.c:103-108`). SENDs, services and the clock never do.
* `OneFrameEach` is promised while no two processes of one address space have been
  in the pager at once; `double_fault` shows what happens otherwise.
* A waiter of the mutex may starve: inboxes are last in, first out, so `Granted`
  says that somebody enters, not who. It is checked under the condition that no
  client has an answer it has not received (`AllCareful`).
* Once a transfer has failed, the pager leaves swap pool and page table as they
  were, with the valid bit inverted; the next replacement of that frame inverts
  it again. `ImplementsMemory`, `OneFrameEach` and half of `TablesAgree` end at
  that point (`Trapped`); that the TLB follows the page tables does not. When a
  page in memory has been read again (`doubled`), `ImplementsMemory` and that half
  of `TablesAgree` end, too.
* With the stack among the pages, its eviction is such a failure (`stack_page`);
  `paging` has pages whose blocks exist.
* `PanicExplained` is a list of reasons: an SST that follows a bad pointer, an SST
  whose own page fault ends in a failed transfer (every eviction of a stack page
  is one, `stack_page`), a device that fails, two devices of one line at once,
  and everybody waiting. User processes can stop the machine, and so can good
  ones that print at the same time. What it excludes is that the end of a user
  process, by a request or by a trap, at any point of a service, is taken for
  anything but OK.
* `EndsWhenAsked` has the machine stop, not how; a deadlock counts only after an SST
  has trapped.
* A user process whose trap finds its request overwritten may wait for ever
  (`HandleTrap`): it has not asked for its end, and `EndsWhenAsked` says nothing.

Deadlock is checked in the runs of the nucleus and in `structures`; `Stopped` is
the step of a machine that has stopped by HALT, PANIC or at the end of the
model. It is not checked in the others: a mutex whose clients do not ask is
quiet, all clients of the pager may have been terminated, the system of `Sst`
ends, and `SsiRace` ends with an empty ready queue. There the liveness
properties are the answer.

Fairness. In the nucleus only that of the hardware is assumed: an interrupt that
stays enabled comes (the processor's local timer, the interval timer, a device
with a command). Nothing is assumed of processes, which may loop for ever. That
the scheduler is fair is a result (`ReadyIsDispatched`), and it justifies what
`SwapMutex` and `Sst` assume: a process that can go on inside the kernel or the
support level does (`WF` of the mutex and of `Proceeds`, of test, the SSTs and
the handlers), and a busy device answers (`SoftBlockedWakes`). Nothing is assumed
of user programs: `EndsWhenAsked` begins when they have asked for their end.

## 4. What is proved

TLAPS checks the following for every value of the constants that their named
assumptions allow. Every invariant and every safety property of a step that a
passing run checks is stated by one of these theorems, and so are the
refinements but for the one that is a liveness property; `OneAnswerPerRequest`
needs a hypothesis on the clients, given below.

The nucleus (`KernelAssumption`: the PCBs are finitely many, the SSI and `test`
are two of them, NULL and NORECV are none). `NucleusProofs`:

* `TypeCorrect`: `TypeOK` always holds. The invariant is
  `TypeInv == TypeOK /\ Actors`. `Actors` says that a process is on the
  processor when it runs and that the SSI serves a PCB. Without it the sender of
  a message might be NULL.
* `Invariant`, with `NoPcbLost` and `OnlyLateRequestsBreak` as its
  consequences. The invariant is `IInv == TypeInv /\ SsiApart /\ (Intact =>
  Somewhere)`: no PCB is lost, and the SSI is set apart from its clients.
  `SsiApart` is needed because a SSI that could terminate itself, answer itself
  or wait for a device would be running and in a list at once. The argument
  follows each PCB through the places where it may be. `ResumeSets` shows that
  the end of a handler only moves PCBs between the ready queue and the
  processor, so each handler needs to account for one PCB, or one family, and
  the lists it leaves and enters (`Separate`, `Somewhere`). Where the destination of an
  insertion is not known to be outside the lists, the step is a `LateRequest`.

`CountProofs`:

* `WakeupSafe`: no lost wakeup. `NoLostWakeup` is inductive relative to
  `TypeInv`: a message is pushed either to a process that is not blocked, or to
  one that does not wait for it, or together with its removal from
  `blocked_msg`; and `Intact` says that the PCB of a running or new process is
  not in `blocked_msg`, so its registers and inbox may change.
* `DeadIsLeftAlone`: `DeadReceiveOnlyFromDevices`, for every step, late ones
  included. SEND looks where its destination is. The device interrupt does not,
  and clears the slot of whom it answers. The clock answers those who wait for
  it.
* `AccountsHold` and its consequences `CountExact`, `AllOfTest`, `VerdictSound`
  and `DriftExplained`: the counters and the verdict of the scheduler.
  The invariant `AInv` adds to `IInv` that a free PCB has no parent, that
  `process_count` is exact, that all but the SSI descend from `test`, and that
  `soft_blocked_count` is never too low. The first is what makes a family
  consist of processes only (`FamilyLives`), so that removing a family from
  each list and subtracting its size are the same. The last is what makes
  PANIC sound although the counter can be too high: with `soft_blocked_count`
  0 nobody waits for the clock or a device, so all are in `blocked_msg`.
* `CellsAccounted`: `CellsLostOnlyByReuse`. `Cells` is a sum over the PCBs, which
  the library defines by choosing the function that satisfies a recursion.
  `SumsExist` shows that there is one, and `SumChanges` that a sum changes by
  what one of its terms changes. Each step changes one inbox at most
  (`OneInboxChanges`) and takes a cell from the pool for it or gives one back,
  or re-initialises it.
* `AnswersMixByReuseOnly`: `AnswersMixOnlyByReuse`. An answer for `p` is in one of
  four places (an unserved request, the SSI, a slot of `blocked_dev`, the inbox
  of `p`). `StepDue` says what each step does to the sum: when `p` asks, it grows by
  one and `p` begins to wait for the SSI (`OneAsked`); when `p` receives an answer
  it was waiting for, it shrinks by one and `p` stops (`OneGot`); all others move
  an answer or lose it, and leave the register of `p` alone unless `p` waits for
  somebody else or is allocated (`NothingAdded`). A process that stays alive is
  not allocated, so its account stays right (`AccountKept`).
* `OneAnswer`: under `Lasting`, `OneAnswerPerRequest`. `Lasting` is a hypothesis on
  `Requests`: nobody asks to be terminated or to terminate, and processes are
  created with a support structure, so that of all processes only `test` can
  trap in the nucleus. The clients of phase 3 do this until they end; `devices` is
  an instance. `LastingInv` adds to the account that nothing is due to a
  free PCB while `test` lives; after `test`, nobody is left to create
  another process (`AfterTest`).

Lists, pools and devices (`StructuresProofs`; `PcbAssumption`, `MsgAssumption`: the
heads of queues and inboxes are none of those inside PCBs and messages, and no
address is NULL; `DevicesAssumption`: the layout of the device registers, and of
a terminal only the transmitter is in use):

* `AddLinked` and `DelLinked`: insertion and removal keep a list of any length
  well linked in both directions and leave other lists alone, whatever pointers
  the removed entries keep. From them `MoveIsRedundant` and
  `PatchNeverApplies`: of the two assignments to `p_child.next` that `pcb.c` makes
  by hand, one does what `list_del` does afterwards, and the other is never made.
* `PcbInvariant` and `MsgInvariant`. Both rest on the predicate
  `Lists(h, N, H, L)`: in the heap `h`, the lists with the heads `H` are the
  sequences `L`, threaded both ways, and no node is an item twice. `ListsWith` and
  `ListsWithout` are insertion and removal in these terms, and `ListsWalked` says
  that the loops of the code find `L` again. `PcbInv` adds that a free
  PCB has neither parent nor children, that any other can have children, and that
  the lists of children are the inverse of `p_parent`. Without the first,
  allocPcb would hand out a PCB that is still hung in the tree.
* `PcbListsImplemented`, `InboxesImplemented`: every call is a step of
  `OrderedLists`, and the loops of initPcbs and initMsgs, whose length is a
  constant, make the pool (`PoolFilled`). `ListsAreWellLinked`,
  `ParentsAndChildrenAgree` and `FirstOfSenderFirst` are about the same
  invariants.
* `ChannelsImplemented`: the slot of a subdevice determines it (`SlotFacts`), with the
  state of the upper half of a terminal included, and a process is in the slot
  of each subdevice that works or has completed, and in no other (`DevInv`).

The swap mutex (`MutexAssumption`; any set of clients, any part of it careless):
`MutexInvariant` is the inductive `MutexInv`. For each honest client its exchange
with the mutex is in one place (in the mutex's inbox, taken, or answered:
`OneExchange`), and the global names it exactly from when its request is
granted until its release is taken (`Holding`). `Exclusion`, `Understood` and
`TrapReleases` follow. `LockImplemented` maps each step to a step of `Lock` or a
stutter. Careless clients appear in the proof only as senders.

The pager (`PagerAssumption`; any address spaces, pages, frames and failing
devices): `PagerInvariant` is `PagerInv`, which has two halves. Whoever works on
the swap pool has the lock, and the TLB has what the page tables have, always
(`PlaceInv`, `TlbInv`). Until a transfer fails or a page is read twice, the page
in a frame is valid unless the holder is at work on that frame, a valid page is
in the frame assigned to it, and the page the holder has read is not valid until
it updates the tables (`PoolInv`, `TableInv`, `WorkInv`, and `Tidy` for the last
state of the model). Nothing in this depends on how many clients
an address space has. `FaultInv` does: while no two clients of one address space
have been in the pager at once, the page a client waits for is the one it has
saved, and it is not valid, because only clients of its address space could
have brought it in. `Agreement` follows from the first part and `OneFrame` from
the second. `VirtualMemory`: under the refinement mapping `Contents`, each step is
one of `Memory`. A store goes to the frame in the TLB, so that it is a store of
`Memory` at the address of the program needs that the TLB has what the page table
has and that no other page is in that frame.

System service threads (`SstProofs`; `SstAssumption`; any number of user processes,
any strings and requests, any of them trapping or passing bad pointers, any SST
with a page that fails to come, any device failing):

* `SstInvariant` is the inductive `SstInv`. A request of a user process and its
  answer are in one place (`ExchangeOf`), an SST prints the request of its user
  process and nothing else and is the one its device answers (`TransferOf`), and
  `test` knows which SSTs are at their end (`BootInv`).
* `AnswersArrive` and `PanicHasAReason` follow; in the second, that a report of an
  SST that has not trapped is OK is part of `SstInv`. The device that test and the first
  SST share has one slot, and `BootInv` and `TransferOf` exclude that both wait for it.
* `JoinImplemented` maps each step to a step of `Join` or a stutter.
* `OutputIsExact` needs `OutInv`: what a device has shown, followed by the rest of
  the string that is being printed, is what its user process has asked for
  (`ShownOf`). It is about processes that neither trap nor pass a bad pointer,
  among others that do; a device or an SST of theirs that fails ends the output,
  but puts nothing wrong into it; that they wait for each answer
  (`HonestOf`) is what keeps the request under the pointer from changing.

Induction over data. The library's induction theorems have an operator as a
parameter, which none of the provers can instantiate. `Foundations` states what
is needed with sets and functions instead: a set of numbers with 0 and the
successors of its members has them all (`NatSetInduction`, from the
well-foundedness of the order), the same for intervals, and there is a function
for each first value and step (`Recursion`). With that the loops over lists, the
initialisation of the pools and the sums are proved for any size.

Only model-checked: the liveness properties `ReadyIsDispatched`,
`SoftBlockedWakes`, `ImplementsGranted` and `EndsWhenAsked`, which rest on fairness and
so on ENABLED, out of the provers' reach; and the five violations.

## 5. What is not modelled, and the plan

Left out of the components that are modelled:

* The body of a service of the SSI is one step, but for createProcess's insertion
  in `SsiRace`. Its other list operations and `soft_blocked_count++` have the
  same race.
* Which program goes on when the SST and the user process of one address space have
  faulted at once: both resume in the state saved last. `Pager` lets both access
  their pages as they like; in `Sst` an SST has its own page faults only as far as
  they fail.
* What an SST does that returns from its own trap, and what a client does with the
  swap pool that returns into the pager without the mutex. `SwapMutex` follows
  the second in its messages, `Pager` ends what it promises at the failed
  transfer.
* The end of a process by another one while it is in the pager: it just takes no
  more steps.
* The TLBMOD test of pager(): every page is dirty, so it never applies.
* The TERMPROCESS after the RECEIVE of `sst.c:32`: `test` never answers, and the
  SSTs end with `test`.
* headMessage, list_prev, list_is_last and the backward walks, which nothing calls.
* `p_time`, `p_pid`, time slices and the accounting of time; stack addresses
  and register contents.

Met while modelling, and seen in the models but not stated as properties: a
RECEIVE and a PRINTCHR have the same command value, so the slot of a receiver
would be taken for that of a transmitter (`ssi.c:77`; phase 3 only transmits);
the comments of `vmSupport.c:11` and `:15` describe each other's branch;
allocPcb leaves `p_supportStruct` as it was.

Not modelled: `klog.c` (a debugging buffer nothing reads), the tests of phases 1
and 2 (read for what they expect), the images of user programs and the machine
configuration. User programs are covered by arbitrary clients (`Nucleus`), by
ones with and without an answer they have not received when they fault
(`SwapMutex`), by arbitrary accesses to the pages of their address space
(`Pager`) and by arbitrary requests that are awaited (`Sst`).

Next:

1. `Mailbox`: what SEND and RECEIVE promise, as an abstract specification that
   `Nucleus` implements, and what becomes of messages whose sender's PCB is
   reused (`m_sender` is a pointer).
2. The removals of the SSI, and its counter, in `SsiRace`.
