CONSTANTS
  ssi_pcb = ssi_pcb
  test_pcb = test_pcb
  a = a
  b = b
  Pcb = {ssi_pcb, test_pcb, a}
  MAXMESSAGES = 2
  NDEV = 2
  Line <- OneLine
  Requests <- DeviceRequests
  MaxSoft = 2
  NULL = NULL
  NORECV = NORECV
SPECIFICATION Spec
INVARIANTS SchedulerVerdict OneAnswerPerRequest
PROPERTIES SoftCountDriftsOnlyByOverwrite ReadyIsDispatched SoftBlockedWakes
