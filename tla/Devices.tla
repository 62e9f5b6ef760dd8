------------------------------ MODULE Devices ------------------------------
(***************************************************************************)
(* Device registers, slots of blocked_dev and halves of terminals: the      *)
(* address arithmetic of doIO (ssi.c) and of the device branch of           *)
(* InterruptExceptionHandler (interrupts.c), over which Nucleus abstracts.  *)
(*                                                                         *)
(* A subdevice is named by the address of its status register; its command  *)
(* register is the next word.  A terminal has two, the receiver and, eight  *)
(* bytes on, the transmitter.  They share the bit of their interrupt line.  *)
(***************************************************************************)
EXTENDS Integers, FiniteSets

CONSTANTS
  Sub,       \* the status registers of the subdevices in use
  Proc, NULL

START_DEVREG == 268435540   \* 0x10000054
PRINTCHR     == 2
SEMDEVLEN    == 49

\* The line (0 for disks to 4 for terminals) and the number of a subdevice,
\* and whether it is the transmitter of a terminal.
line(s)        == (s - START_DEVREG) \div 128
number(s)      == ((s - START_DEVREG) % 128) \div 16
transmitter(s) == (s - START_DEVREG) % 16 = 8

VARIABLES
  blocked_dev,
  device,    \* the state of each subdevice
  answer,    \* the last message of an interrupt: to whom, with which status
  panic

devicesVars == <<blocked_dev, device, answer, panic>>

DevicesInit ==
  /\ blocked_dev = [i \in 0..(SEMDEVLEN - 2) |-> NULL]
  /\ device = [s \in Sub |-> "idle"]
  /\ answer = NULL
  /\ panic = FALSE

Bit(value, mask) == (value \div mask) % 2 = 1

\* Mutant: the slots of the receivers are also those of the transmitters.
slotShared(commandAddr, commandValue) == (commandAddr - START_DEVREG) \div 16

\* The slot of doIO.
slot(commandAddr, commandValue) ==
  LET snum == (commandAddr - START_DEVREG) \div 16
  IN  IF Bit(commandValue, PRINTCHR) /\ snum < 40 /\ snum >= 32
        THEN snum + 8 ELSE snum

\* The command that is given to each subdevice: PRINTCHR with a character, or
\* READBLK.
value(s) == IF transmitter(s) THEN 256 * 65 + PRINTCHR ELSE 3

\* doIO for a process that has nothing else to wait for, on an idle device.
doIO(p, s) ==
  /\ device[s] = "idle" /\ \A i \in DOMAIN blocked_dev : blocked_dev[i] # p
  /\ blocked_dev' = [blocked_dev EXCEPT ![slot(s + 4, value(s))] = p]
  /\ device' = [device EXCEPT ![s] = "busy"]
  /\ answer' = NULL
  /\ UNCHANGED panic

Complete(s) ==
  /\ device[s] = "busy"
  /\ device' = [device EXCEPT ![s] = "done"]
  /\ answer' = NULL
  /\ UNCHANGED <<blocked_dev, panic>>
-----------------------------------------------------------------------------
Pending(l) == {number(s) : s \in {r \in Sub : device[r] = "done" /\ line(r) = l}}

\* Disks first, terminals last.
Served(l) == Pending(l) # {} /\ \A k \in 0..(l - 1) : Pending(k) = {}

\* getDevNum knows the bitmaps with one bit only.
getDevNumPanics ==
  /\ \E l \in 0..4 : Served(l) /\ Cardinality(Pending(l)) > 1
  /\ panic' = TRUE
  /\ UNCHANGED <<blocked_dev, device, answer>>

\* Whether it is the upper half of the device that is dealt with.
upperHalf(l, n) == l = 4 /\ blocked_dev[8 * l + n] = NULL

\* The answer is the status of that half, and goes to the process in its slot;
\* the half is acknowledged, which does nothing to one that has not completed.
InterruptExceptionHandler ==
  \E l \in 0..4 : \E n \in Pending(l) :
    LET snum == 8 * l + n + (IF upperHalf(l, n) THEN 8 ELSE 0)
        reg  == START_DEVREG + 128 * l + 16 * n + (IF upperHalf(l, n) THEN 8 ELSE 0)
    IN  /\ Served(l) /\ Cardinality(Pending(l)) = 1
        /\ answer' = IF blocked_dev[snum] = NULL THEN NULL
                     ELSE <<blocked_dev[snum], reg>>
        /\ blocked_dev' = [blocked_dev EXCEPT ![snum] = NULL]
        /\ device' = [s \in Sub |-> IF s = reg /\ device[s] = "done" THEN "idle"
                                    ELSE device[s]]
        /\ UNCHANGED panic

DevicesNext ==
  /\ ~panic
  /\ \/ \E s \in Sub : Complete(s) \/ \E p \in Proc : doIO(p, s)
     \/ getDevNumPanics
     \/ InterruptExceptionHandler

DevicesSpec == DevicesInit /\ [][DevicesNext]_devicesVars
-----------------------------------------------------------------------------
\* The slot that is meant for a subdevice.
SlotOf(s) == 8 * line(s) + number(s) + (IF transmitter(s) THEN 8 ELSE 0)

C == INSTANCE Channels WITH waiter <- [s \in Sub |-> blocked_dev[SlotOf(s)]]

\* ssi.c:75-79, interrupts.c:76-115: two computations of a slot, one from the
\* address and the value of a command and one from a line, a number and the
\* contents of a slot, meet: whoever gives a command is answered when it has
\* been carried out, with its status, and nobody else is.
ImplementsChannels == C!ChannelSpec
=============================================================================
