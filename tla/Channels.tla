------------------------------ MODULE Channels ------------------------------
(***************************************************************************)
(* What DOIO promises: a process gives a subdevice a command and is         *)
(* answered when that subdevice has completed it, with its status.          *)
(***************************************************************************)
CONSTANTS Sub, Proc, NULL
VARIABLES
  waiter,   \* the process each subdevice works for
  device,   \* "idle", "busy", or "done": completed and not acknowledged
  answer    \* the last answer: to whom, and with the status of which subdevice

channelVars == <<waiter, device, answer>>

ChannelInit ==
  /\ waiter = [s \in Sub |-> NULL]
  /\ device = [s \in Sub |-> "idle"]
  /\ answer = NULL

Command(s, p) ==
  /\ device[s] = "idle" /\ \A r \in Sub : waiter[r] # p
  /\ waiter' = [waiter EXCEPT ![s] = p]
  /\ device' = [device EXCEPT ![s] = "busy"]
  /\ answer' = NULL

Completion(s) ==
  /\ device[s] = "busy"
  /\ device' = [device EXCEPT ![s] = "done"]
  /\ answer' = NULL
  /\ UNCHANGED waiter

Answer(s) ==
  /\ device[s] = "done"
  /\ answer' = <<waiter[s], s>>
  /\ waiter' = [waiter EXCEPT ![s] = NULL]
  /\ device' = [device EXCEPT ![s] = "idle"]

ChannelNext ==
  \E s \in Sub : Completion(s) \/ Answer(s) \/ \E p \in Proc : Command(s, p)

ChannelSpec == ChannelInit /\ [][ChannelNext]_channelVars
=============================================================================
