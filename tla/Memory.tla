------------------------------- MODULE Memory -------------------------------
(***************************************************************************)
(* What virtual memory promises to programs: every page of every address    *)
(* space is a cell of its own.  A store changes the cell it names and no    *)
(* other, a load returns what the cell it names contains, and nothing else  *)
(* a program or the operating system does changes a cell.  Once failed,     *)
(* nothing is promised any more.                                            *)
(***************************************************************************)
CONSTANTS Cell, Val, Initial, NULL
VARIABLES
  mem,
  access,   \* the load or store of the last step, as its program sees it
  failed

memoryVars == <<mem, access, failed>>

MemoryInit ==
  /\ mem = Initial
  /\ access = NULL
  /\ failed = FALSE

Store(k, v) ==
  /\ access' = [op |-> "store", cell |-> k, val |-> v]
  /\ mem' = [mem EXCEPT ![k] = v]
  /\ UNCHANGED failed

Load(k) ==
  /\ access' = [op |-> "load", cell |-> k, val |-> mem[k]]
  /\ UNCHANGED <<mem, failed>>

\* Whatever else happens.
Hidden ==
  /\ access' = NULL
  /\ UNCHANGED <<mem, failed>>

Broken == failed'

MemoryNext ==
  Hidden \/ Broken \/ \E k \in Cell : Load(k) \/ \E v \in Val : Store(k, v)

MemorySpec == MemoryInit /\ [][~failed => MemoryNext]_memoryVars
=============================================================================
