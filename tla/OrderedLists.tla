---------------------------- MODULE OrderedLists ----------------------------
(***************************************************************************)
(* What the lists of phase 1 promise: each is a sequence, an item is in one *)
(* of them at most, and an operation inserts an item at an end of one list  *)
(* or takes one out, leaving the order of the others as it is.              *)
(***************************************************************************)
EXTENDS Integers, Sequences, Functions

CONSTANTS List, Item, InitialLists
VARIABLE lists

ListsInit == lists = InitialLists

Insert(l, x) ==
  /\ lists'[l] \in {Append(lists[l], x), <<x>> \o lists[l]}
  /\ \A k \in List : x \notin Range(lists[k])
  /\ lists' = [lists EXCEPT ![l] = lists'[l]]

Remove(l, x) ==
  LET seq == lists[l]
  IN  \E i \in DOMAIN seq :
        /\ seq[i] = x
        /\ lists' = [lists EXCEPT ![l] = SubSeq(seq, 1, i - 1)
                                           \o SubSeq(seq, i + 1, Len(seq))]

ListsNext == \E l \in List, x \in Item : Insert(l, x) \/ Remove(l, x)

ListsSpec == ListsInit /\ [][ListsNext]_lists
=============================================================================
