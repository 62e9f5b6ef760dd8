CONSTANTS
  ssi_pcb = ssi_pcb
  test_pcb = test_pcb
  a = a
  b = b
  Pcb = {ssi_pcb, test_pcb, a}
  MAXMESSAGES = 2
  NDEV = 1
  Line <- OneLineEach
  Requests <- WaitRequests
  MaxSoft = 2
  NULL = NULL
  NORECV = NORECV
SPECIFICATION Spec
PROPERTIES DeviceAnswersTheWaiting
