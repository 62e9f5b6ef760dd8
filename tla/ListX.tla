------------------------------- MODULE ListX -------------------------------
(***************************************************************************)
(* The circular doubly linked lists of headers/listx.h.  A heap h holds the *)
(* fields next and prev of every struct list_head, those that are heads of  *)
(* lists and those embedded in PCBs and messages.  Each operation is the    *)
(* heap after its assignments, in their order.                              *)
(***************************************************************************)
EXTENDS Integers, Sequences, FiniteSets

CONSTANT NULL

INIT_LIST_HEAD(h, list) ==
  [next |-> [h.next EXCEPT ![list] = list],
   prev |-> [h.prev EXCEPT ![list] = list]]

\* __list_add
AddBetween(h, new, prev, next) ==
  [next |-> [h.next EXCEPT ![new] = next, ![prev] = new],
   prev |-> [h.prev EXCEPT ![next] = new, ![new] = prev]]

list_add(h, new, head)      == AddBetween(h, new, head, h.next[head])
list_add_tail(h, new, head) == AddBetween(h, new, h.prev[head], head)

\* Mutant: only the successor learns of it.
BypassBackwards(h, prev, next) == [h EXCEPT !.prev[next] = prev]

\* __list_del
Bypass(h, prev, next) == [h EXCEPT !.prev[next] = prev, !.next[prev] = next]

\* The entry that is removed keeps its own pointers.
list_del(h, entry) == Bypass(h, h.prev[entry], h.next[entry])

list_empty(h, head)   == h.next[head] = head
list_next(h, current) == IF list_empty(h, current) THEN NULL ELSE h.next[current]

\* The entries list_for_each visits, in order, with as many steps as there are
\* nodes at most; a list that was never made leads nowhere.
Entries(h, head) ==
  LET from[steps \in Nat] ==
        [n \in DOMAIN h.next \cup {NULL} |->
           IF n \in {head, NULL} \/ steps = 0 THEN <<>>
           ELSE <<n>> \o from[steps - 1][h.next[n]]]
  IN  from[Cardinality(DOMAIN h.next)][h.next[head]]

\* The loop comes back to the head.
Ends(h, head) ==
  LET e == <<head>> \o Entries(h, head)
  IN  h.next[e[Len(e)]] = head

\* Every pointer of the nodes S leads to a node of S, which points back.
Linked(h, S) ==
  \A x \in S : /\ h.next[x] \in S /\ h.prev[h.next[x]] = x
               /\ h.prev[x] \in S /\ h.next[h.prev[x]] = x
=============================================================================
