------------------------------ MODULE PcbLists ------------------------------
(***************************************************************************)
(* phase1/pcb.c with its pointers: the pool of PCBs, the process queues and *)
(* the process tree, as lists threaded through the PCBs.  The callers are   *)
(* those of the nucleus: a PCB is inserted into a queue when it is in none, *)
(* is hung under a parent while it has no children, and is freed when it is  *)
(* in no queue and has neither parent nor children.                         *)
(***************************************************************************)
EXTENDS ListX, Functions

CONSTANTS
  MAXPROC,
  Queue       \* the heads of the process queues

Pcb == 1..MAXPROC
pcbFree_h == <<"pcbFree_h", 0>>

p_list(p)  == <<"p_list", p>>
p_sib(p)   == <<"p_sib", p>>
p_child(p) == <<"p_child", p>>

Heads == Queue \cup {pcbFree_h} \cup {p_child(p) : p \in Pcb}
Links == {p_list(p) : p \in Pcb} \cup {p_sib(p) : p \in Pcb}
Node  == Heads \cup Links

\* The queues are variables of their own, and no address is NULL.
ASSUME PcbAssumption ==
  /\ MAXPROC \in Nat \ {0}
  /\ IsFiniteSet(Queue)
  /\ pcbFree_h \notin Queue
  /\ \A p \in Pcb : p_list(p) \notin Queue /\ p_sib(p) \notin Queue /\ p_child(p) \notin Queue
  /\ NULL \notin Pcb /\ NULL \notin Node

VARIABLES
  heap,
  p_parent

pcbVars == <<heap, p_parent>>

\* p_child is not a list before the PCB is allocated for the first time.
Made(head) == heap.next[head] # NULL

ListAt(head) == IF Made(head) THEN Entries(heap, head) ELSE <<>>
IsIn(node, head) == node \in Range(ListAt(head))

Free(p)   == IsIn(p_list(p), pcbFree_h)
Queued(p) == \E q \in Queue : IsIn(p_list(p), q)

\* The static pcbTable and the heads with LIST_HEAD, then initPcbs.
zeroed ==
  LET field == [n \in Node |-> IF n \in Queue \cup {pcbFree_h} THEN n ELSE NULL]
  IN  [next |-> field, prev |-> field]

initPcbs ==
  LET added[i \in 0..MAXPROC] ==
        IF i = 0 THEN zeroed ELSE list_add(added[i - 1], p_list(i), pcbFree_h)
  IN  added[MAXPROC]

PcbInit ==
  /\ heap = initPcbs
  /\ p_parent = [p \in Pcb |-> NULL]
-----------------------------------------------------------------------------
freePcb(p) ==
  /\ ~Free(p) /\ ~Queued(p) /\ p_parent[p] = NULL /\ list_empty(heap, p_child(p))
  /\ heap' = list_add(heap, p_list(p), pcbFree_h)
  /\ UNCHANGED p_parent

\* The first free PCB leaves the pool and its lists are made empty.
allocPcb(p) ==
  LET taken == list_del(heap, p_list(p))
      sib   == INIT_LIST_HEAD(INIT_LIST_HEAD(taken, p_list(p)), p_sib(p))
  IN  /\ list_next(heap, pcbFree_h) = p_list(p)
      /\ heap' = INIT_LIST_HEAD(sib, p_child(p))
      /\ p_parent' = [p_parent EXCEPT ![p] = NULL]

insertProcQ(q, p) ==
  /\ ~Free(p) /\ ~Queued(p)
  /\ heap' = list_add_tail(heap, p_list(p), q)
  /\ UNCHANGED p_parent

removeProcQ(q) ==
  /\ ~list_empty(heap, q)
  /\ heap' = list_del(heap, heap.next[q])
  /\ UNCHANGED p_parent

\* For any p: it is removed if the search meets it.
outProcQ(q, p) ==
  /\ IsIn(p_list(p), q)
  /\ heap' = list_del(heap, p_list(p))
  /\ UNCHANGED p_parent

insertChild(prnt, p) ==
  /\ ~Free(p) /\ ~Free(prnt) /\ p # prnt
  /\ p_parent[p] = NULL /\ list_empty(heap, p_child(p))
  /\ heap' = list_add_tail(heap, p_sib(p), p_child(prnt))
  /\ p_parent' = [p_parent EXCEPT ![p] = prnt]

\* Mutant: p_child.next is not moved on, and list_del is forgotten with it.
removeChildKept(p) ==
  \E c \in Pcb :
    /\ list_next(heap, p_child(p)) = p_sib(c)
    /\ heap' = INIT_LIST_HEAD(heap, p_sib(c))
    /\ p_parent' = [p_parent EXCEPT ![c] = NULL]

\* p_child.next is moved on by hand before list_del.
removeChild(p) ==
  \E c \in Pcb :
    LET moved == [heap EXCEPT !.next[p_child(p)] = heap.next[p_sib(c)]]
    IN  /\ list_next(heap, p_child(p)) = p_sib(c)
        /\ heap' = INIT_LIST_HEAD(list_del(moved, p_sib(c)), p_sib(c))
        /\ p_parent' = [p_parent EXCEPT ![c] = NULL]

\* Mutant: the parent is not forgotten.
outChildKept(p) ==
  /\ p_parent[p] # NULL
  /\ heap' = INIT_LIST_HEAD(list_del(heap, p_sib(p)), p_sib(p))
  /\ UNCHANGED p_parent

\* list_del before the comparison with p_child.next, which never holds then.
outChild(p) ==
  LET sib_list == p_sib(p)
      child    == p_child(p_parent[p])
      next_sib == list_next(heap, sib_list)
      cut      == list_del(heap, sib_list)
      patched  == IF cut.next[child] = sib_list
                    THEN [cut EXCEPT !.next[child] = next_sib] ELSE cut
  IN  /\ p_parent[p] # NULL
      /\ heap' = INIT_LIST_HEAD(patched, sib_list)
      /\ p_parent' = [p_parent EXCEPT ![p] = NULL]

PcbNext ==
  \E p \in Pcb :
    \/ freePcb(p) \/ allocPcb(p)
    \/ removeChild(p) \/ outChild(p)
    \/ \E q \in Queue : insertProcQ(q, p) \/ outProcQ(q, p) \/ removeProcQ(q)
    \/ \E prnt \in Pcb : insertChild(prnt, p)

PcbSpec == PcbInit /\ [][PcbNext]_pcbVars
-----------------------------------------------------------------------------
\* initPcbs adds at the head: the last PCB comes first.
AllFree == [n \in Heads |-> IF n = pcbFree_h
                              THEN [i \in Pcb |-> p_list(MAXPROC + 1 - i)] ELSE <<>>]

Ordered == INSTANCE OrderedLists WITH List <- Heads, Item <- Links,
       InitialLists <- AllFree, lists <- [n \in Heads |-> ListAt(n)]

\* pcb.c: with every pointer of list_del left behind in the PCB it removes, and
\* p_child.next patched by hand, the pool, the queues and the lists of children
\* are sequences of which no PCB is in two.
ImplementsLists == Ordered!ListsSpec

\* listx.h: every list can be walked in both directions, and ends.
WellLinked ==
  \A n \in Heads : Made(n) =>
    /\ Ends(heap, n)
    /\ Linked(heap, {n} \cup Range(ListAt(n)))

\* pcb.c:109-153: p_parent and the lists of children are one tree.
ParentsAgree ==
  \A c, p \in Pcb : p_parent[c] = p <=> IsIn(p_sib(c), p_child(p))
=============================================================================
