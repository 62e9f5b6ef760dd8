------------------------------ MODULE Messages ------------------------------
(***************************************************************************)
(* Inboxes as phase1/msg.c keeps them, for the modules that speak of        *)
(* processes and not of the nucleus: a sequence of messages, newest first.  *)
(***************************************************************************)
EXTENDS Integers, Sequences

CONSTANT NULL   \* NULL, and ANYMESSAGE and PARENT of a RECEIVE: all are 0

Msg(p, v) == [m_sender |-> p, m_payload |-> v]

\* Mutant: insertMessage for pushMessage: the oldest message first.
PushLast(box, m) == Append(box, m)

\* pushMessage: list_add at the head of the inbox.
Push(box, m) == <<m>> \o box

\* Mutant: popMessage ignores the sender.
MatchingAny(box, from) == DOMAIN box

\* Where popMessage looks for a message of "from".
Matching(box, from) == {i \in DOMAIN box : from = NULL \/ box[i].m_sender = from}

\* The message popMessage takes is the first one that matches.
Takes(box, from, i) ==
  /\ i \in Matching(box, from)
  /\ \A j \in Matching(box, from) : i <= j

Rest(box, i) == SubSeq(box, 1, i - 1) \o SubSeq(box, i + 1, Len(box))
=============================================================================
