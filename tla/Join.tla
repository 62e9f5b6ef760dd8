-------------------------------- MODULE Join --------------------------------
(***************************************************************************)
(* What the end of phase 3 promises: each worker finishes its work once;    *)
(* the final message is shown, and the machine halts, only when all have.   *)
(* The system may give up at any time before it halts.                      *)
(***************************************************************************)
CONSTANT Worker
VARIABLES working, end

joinVars == <<working, end>>

JoinInit == working = Worker /\ end = "no"

Finish(w) ==
  /\ w \in working /\ end = "no"
  /\ working' = working \ {w}
  /\ UNCHANGED end

\* The final message begins to be shown.
Announce ==
  /\ working = {} /\ end = "no"
  /\ end' = "announced"
  /\ UNCHANGED working

Halt ==
  /\ end = "announced"
  /\ end' = "halted"
  /\ UNCHANGED working

GiveUp ==
  /\ end \in {"no", "announced"}
  /\ end' = "panic"
  /\ UNCHANGED working

JoinNext == (\E w \in Worker : Finish(w)) \/ Announce \/ Halt \/ GiveUp

JoinSpec == JoinInit /\ [][JoinNext]_joinVars
=============================================================================
