-------------------------------- MODULE Lock --------------------------------
(***************************************************************************)
(* What the swap mutex promises to the processes that use the swap pool: at *)
(* most one of them is inside at a time, and while somebody waits and       *)
(* nobody is inside, somebody is let in.                                    *)
(***************************************************************************)
CONSTANT Client
VARIABLE st

LockInit == st = [c \in Client |-> "out"]

Ask(c) ==
  /\ st[c] = "out"
  /\ st' = [st EXCEPT ![c] = "waiting"]

Enter(c) ==
  /\ st[c] = "waiting"
  /\ \A d \in Client : st[d] # "in"
  /\ st' = [st EXCEPT ![c] = "in"]

Leave(c) ==
  /\ st[c] = "in"
  /\ st' = [st EXCEPT ![c] = "out"]

LockNext == \E c \in Client : Ask(c) \/ Enter(c) \/ Leave(c)

LockSafe == LockInit /\ [][LockNext]_st

\* Whenever nobody is inside and somebody waits, somebody enters.
Granted == WF_st(\E c \in Client : Enter(c))

LockSpec == LockSafe /\ Granted
=============================================================================
