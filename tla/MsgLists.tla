------------------------------ MODULE MsgLists ------------------------------
(***************************************************************************)
(* phase1/msg.c with its pointers: the pool of messages and the inboxes.    *)
(* A message that is in no list is in the hands of a caller, which puts it  *)
(* into an inbox or gives it back.                                          *)
(***************************************************************************)
EXTENDS ListX, Functions

CONSTANTS
  MAXMESSAGES,
  Inbox,      \* the heads of the inboxes
  Sender

Cell == 1..MAXMESSAGES
msgFree_h == <<"msgFree_h", 0>>

m_list(m) == <<"m_list", m>>

Heads == Inbox \cup {msgFree_h}
Links == {m_list(m) : m \in Cell}

VARIABLES heap, m_sender

msgVars == <<heap, m_sender>>

ListAt(head) == Entries(heap, head)

\* The static msgTable and the heads, then initMsgs.
initMsgs ==
  LET field == [n \in Heads \cup Links |-> IF n \in Heads THEN n ELSE NULL]
      added[i \in 0..MAXMESSAGES] ==
        IF i = 0 THEN [next |-> field, prev |-> field]
        ELSE list_add(added[i - 1], m_list(i), msgFree_h)
  IN  added[MAXMESSAGES]

MsgInit ==
  /\ heap = initMsgs
  /\ m_sender = [m \in Cell |-> NULL]

Held(m) == \A n \in Heads : m_list(m) \notin Range(ListAt(n))
-----------------------------------------------------------------------------
freeMsg(m) ==
  /\ Held(m)
  /\ heap' = list_add(heap, m_list(m), msgFree_h)
  /\ UNCHANGED m_sender

\* The caller fills in the sender at once.
allocMsg(m, p) ==
  /\ list_next(heap, msgFree_h) = m_list(m)
  /\ heap' = INIT_LIST_HEAD(list_del(heap, m_list(m)), m_list(m))
  /\ m_sender' = [m_sender EXCEPT ![m] = p]

insertMessage(q, m) ==
  /\ Held(m)
  /\ heap' = list_add_tail(heap, m_list(m), q)
  /\ UNCHANGED m_sender

pushMessage(q, m) ==
  /\ Held(m)
  /\ heap' = list_add(heap, m_list(m), q)
  /\ UNCHANGED m_sender

Matches(m, p_ptr) == p_ptr = NULL \/ m_sender[m] = p_ptr

\* Mutant: INIT_LIST_HEAD before list_del.
popMessageTooSoon(q, p_ptr) ==
  \E m \in Cell, i \in DOMAIN ListAt(q) :
    /\ ListAt(q)[i] = m_list(m) /\ Matches(m, p_ptr)
    /\ \A j \in 1..(i - 1), k \in Cell : ListAt(q)[j] = m_list(k) => ~Matches(k, p_ptr)
    /\ heap' = list_del(INIT_LIST_HEAD(heap, m_list(m)), m_list(m))
    /\ UNCHANGED m_sender

\* Mutant: the search begins at the other end.
popMessageLast(q, p_ptr) ==
  \E m \in Cell, i \in DOMAIN ListAt(q) :
    /\ ListAt(q)[i] = m_list(m) /\ Matches(m, p_ptr)
    /\ \A j \in DOMAIN ListAt(q), k \in Cell :
         j > i /\ ListAt(q)[j] = m_list(k) => ~Matches(k, p_ptr)
    /\ heap' = INIT_LIST_HEAD(list_del(heap, m_list(m)), m_list(m))
    /\ UNCHANGED m_sender

\* The first message of p_ptr from the head, or the first one.
popMessage(q, p_ptr) ==
  \E m \in Cell, i \in DOMAIN ListAt(q) :
    /\ ListAt(q)[i] = m_list(m) /\ Matches(m, p_ptr)
    /\ \A j \in 1..(i - 1), k \in Cell : ListAt(q)[j] = m_list(k) => ~Matches(k, p_ptr)
    /\ heap' = INIT_LIST_HEAD(list_del(heap, m_list(m)), m_list(m))
    /\ UNCHANGED m_sender

MsgNext ==
  \/ \E m \in Cell : \/ freeMsg(m)
                     \/ \E p \in Sender : allocMsg(m, p)
                     \/ \E q \in Inbox : insertMessage(q, m) \/ pushMessage(q, m)
  \/ \E q \in Inbox, p_ptr \in Sender \cup {NULL} : popMessage(q, p_ptr)

MsgSpec == MsgInit /\ [][MsgNext]_msgVars
-----------------------------------------------------------------------------
AllFree == [n \in Heads |-> IF n = msgFree_h
                              THEN [i \in Cell |-> m_list(MAXMESSAGES + 1 - i)]
                              ELSE <<>>]

Ordered == INSTANCE OrderedLists WITH List <- Heads, Item <- Links,
       InitialLists <- AllFree, lists <- [n \in Heads |-> ListAt(n)]

\* msg.c: through any sequence of sends at either end and of searches that take
\* a message from the middle, the pool and the inboxes are sequences of which no
\* message is in two, and none but the one that is taken leaves its place.
ImplementsInboxes == Ordered!ListsSpec

\* A step that takes the second of two messages of a sender has taken the first.
InOrder ==
  \A q \in Inbox : \A i, j \in DOMAIN ListAt(q) : \A m, k \in Cell :
    (/\ i < j /\ ListAt(q)[i] = m_list(m) /\ ListAt(q)[j] = m_list(k)
     /\ m_sender[m] = m_sender[k] /\ Held(k)') => Held(m)'

\* msg.c:58-60, "rimuove il primo elemento (partendo dalla testa) ... il cui
\* mittente e' p_ptr": the messages of a sender leave an inbox in the order in
\* which they stand in it, whoever is searched for.
FirstOfSender == [][InOrder]_msgVars
=============================================================================
