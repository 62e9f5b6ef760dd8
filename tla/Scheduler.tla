----------------------------- MODULE Scheduler -----------------------------
(***************************************************************************)
(* phase2/scheduler.c, and the end of GeneralExceptionHandler that calls    *)
(* it.  Every handler of the nucleus runs with interrupts disabled and ends *)
(* in Resume, so a handler and the scheduling decision it leads to are one  *)
(* step.                                                                    *)
(***************************************************************************)
EXTENDS KernelState

\* Mutant: off by one in the number of soft-blocked processes.
VerdictEager(count, soft) ==
  CASE count = 1             -> "halt"
    [] count > 1 /\ soft > 1 -> "wait"
    [] OTHER                 -> "panic"

\* What an empty ready queue means.  HALT does not come back, so what follows
\* it is for more than one process.  The last case: scheduler() returns.
Verdict(count, soft) ==
  CASE count = 1             -> "halt"
    [] count > 1 /\ soft > 0 -> "wait"
    [] count > 1 /\ soft = 0 -> "panic"
    [] OTHER                 -> "lost"

\* scheduler(), given the ready queue and the counters the handler leaves:
\* dispatch the head, or decide what an empty ready queue means.
scheduler(rq, count, soft) ==
  \/ /\ rq # <<>>
     /\ current_process' = Head(rq)
     /\ ready_queue' = Tail(rq)
     /\ cpu' = "run"
  \/ /\ rq = <<>>
     /\ current_process' = NULL
     /\ ready_queue' = rq
     /\ cpu' = Verdict(count, soft)

\* Mutant: the scheduler is called even if a process is interrupted.
ResumeForgetting(cur, rq, count, soft) == scheduler(rq, count, soft)

\* The end of GeneralExceptionHandler: back to the interrupted process if
\* there still is one (LDST), otherwise to the scheduler.
Resume(cur, rq, count, soft) ==
  IF cur = NULL
  THEN scheduler(rq, count, soft)
  ELSE current_process' = cur /\ ready_queue' = rq /\ cpu' = "run"
=============================================================================
