---------------------------- MODULE MCStructures ----------------------------
(***************************************************************************)
(* PcbLists, MsgLists and Devices for TLC.  The three have no state in      *)
(* common, so nothing is gained by interleaving them: each behaviour        *)
(* exercises one of them and leaves the others as they were initialised.    *)
(***************************************************************************)
EXTENDS PcbLists

CONSTANTS MAXMESSAGES, Inbox, Sender, Sub, Proc
VARIABLES m_heap, m_sender, blocked_dev, device, answer, panic, part

Msgs == INSTANCE MsgLists WITH heap <- m_heap
Devs == INSTANCE Devices

\* The inboxes are variables of their own, and no address is NULL.
ASSUME MsgAssumption ==
  /\ MAXMESSAGES \in Nat \ {0}
  /\ IsFiniteSet(Inbox)
  /\ Msgs!msgFree_h \notin Inbox /\ \A m \in Msgs!Cell : Msgs!m_list(m) \notin Inbox
  /\ NULL \notin Msgs!Heads \cup Msgs!Links \cup Sender \cup Proc

\* Sub are status registers of the layout of Devices; of a terminal phase 3 uses
\* the transmitter alone.  RECEIVECHAR is the same number as PRINTCHR, so that
\* doIO would give the receiver the slot of the transmitter.
ASSUME DevicesAssumption ==
  \A s \in Sub :
    /\ s \in Nat /\ Devs!line(s) \in 0..4
    /\ Devs!transmitter(s) <=> Devs!line(s) = 4
    /\ s = Devs!START_DEVREG + 128 * Devs!line(s) + 16 * Devs!number(s)
             + (IF Devs!transmitter(s) THEN 8 ELSE 0)

msgState == <<m_heap, m_sender>>
devState == <<blocked_dev, device, answer, panic>>

StructuresInit ==
  /\ PcbInit /\ Msgs!MsgInit /\ Devs!DevicesInit
  /\ part \in {"pcb.c", "msg.c", "devices"}

PcbPart == part = "pcb.c"   /\ PcbNext          /\ UNCHANGED <<msgState, devState, part>>
MsgPart == part = "msg.c"   /\ Msgs!MsgNext     /\ UNCHANGED <<pcbVars, devState, part>>
DevPart == part = "devices" /\ Devs!DevicesNext /\ UNCHANGED <<pcbVars, msgState, part>>

\* getDevNum has stopped the machine.
Stopped == panic /\ UNCHANGED <<pcbVars, msgState, devState, part>>

StructuresSpec ==
  /\ StructuresInit
  /\ [][PcbPart \/ MsgPart \/ DevPart \/ Stopped]_<<pcbVars, msgState, devState, part>>

\* msg.c:9-76: see MsgLists.
ImplementsInboxes == Msgs!ImplementsInboxes

\* msg.c:58-60: see MsgLists.
FirstOfSender == Msgs!FirstOfSender

\* ssi.c:75-79, interrupts.c:76-115: see Devices.
ImplementsChannels == Devs!ImplementsChannels

\* Names of the heads.
OneQueue   == {<<"ready_queue", 0>>}
TwoInboxes == {<<"msg_inbox", 1>>, <<"msg_inbox", 2>>}

\* The subdevice at the address 0x10000000 + offset.
At(offset) == 268435456 + offset

\* Flash devices 0 and 1, printer 7, the transmitters of terminals 0 and 7.
PhaseThree == {At(\hD4), At(\hE4), At(\h244), At(\h25C), At(\h2CC)}
=============================================================================
