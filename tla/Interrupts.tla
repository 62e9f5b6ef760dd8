----------------------------- MODULE Interrupts -----------------------------
(***************************************************************************)
(* phase2/interrupts.c: one action per branch of InterruptExceptionHandler, *)
(* from the interrupt to the process that runs next.                        *)
(***************************************************************************)
EXTENDS Ssi

\* LOCALTIMERINT: the time slice of the running process is over.  (WAIT() is
\* entered with the local timer disabled.)
LocalTimerInterrupt ==
  /\ cpu = "run"
  /\ Resume(NULL, insertProcQ(ready_queue, current_process),
            process_count, soft_blocked_count)
  /\ UNCHANGED <<pcbFree_h, blocked_msg, blocked_pseudo_clock, tree, messages,
                 devices, counters, reg_a1, ssi>>

\* TIMERINTERRUPT: the tick of the pseudo-clock readies all who wait for it.
IntervalTimerInterrupt ==
  /\ blocked_pseudo_clock' = <<>>
  /\ soft_blocked_count' = soft_blocked_count - Len(blocked_pseudo_clock)
  /\ Resume(current_process, ready_queue \o blocked_pseudo_clock,
            process_count, soft_blocked_count')
  /\ UNCHANGED <<pcbFree_h, blocked_msg, tree, messages, devices, process_count,
                 reg_a1, ssi>>

\* The interrupt of device d: the process in its slot, if any, gets a message
\* in the name of the SSI and becomes ready, and the device is acknowledged.
DeviceInterrupt(d) ==
  LET waiting_process == blocked_dev[d]
      device_response == [m_sender |-> ssi_pcb, m_payload |-> Reply]
  IN  /\ d \in dev_busy
      /\ ~OutOfMessages
      /\ dev_busy' = dev_busy \ {d}
      /\ blocked_dev' = [blocked_dev EXCEPT ![d] = NULL]
      /\ IF waiting_process # NULL
         THEN /\ msg_inbox' = [msg_inbox EXCEPT ![waiting_process] =
                                 pushMessage(@, device_response)]
              /\ msgFree_h' = msgFree_h - 1
              /\ blocked_msg' = blocked_msg \ {waiting_process}
              /\ soft_blocked_count' = soft_blocked_count - 1
              /\ Resume(current_process, insertProcQ(ready_queue, waiting_process),
                        process_count, soft_blocked_count')
         ELSE /\ Resume(current_process, ready_queue, process_count, soft_blocked_count)
              /\ UNCHANGED <<messages, blocked_msg, soft_blocked_count>>
      /\ UNCHANGED <<pcbFree_h, blocked_pseudo_clock, tree, process_count,
                     reg_a1, ssi>>

\* getDevNum: two devices of d's line have an interrupt pending, so the bitmap
\* of the line is none of DEV0ON..DEV7ON.
TwoDevicesPending(d) ==
  /\ d \in dev_busy
  /\ \E e \in dev_busy \ {d} : Line[e] = Line[d]
  /\ cpu' = "panic"
  /\ UNCHANGED <<queues, tree, messages, devices, counters, current_process,
                 reg_a1, ssi>>
=============================================================================
