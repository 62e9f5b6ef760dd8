CONSTANTS
  ssi_pcb = ssi_pcb
  test_pcb = test_pcb
  a = a
  b = b
  Pcb = {ssi_pcb, test_pcb, a, b}
  MAXMESSAGES = 1
  NDEV = 0
  Line <- OneLineEach
  Requests <- FamilyRequests
  MaxSoft = 2
  NULL = NULL
  NORECV = NORECV
SPECIFICATION Spec
INVARIANTS TypeOK NothingLost ProcessCountExact FamilyOfTest
PROPERTIES BreakOnlyByLateRequest
SYMMETRY FreePcbs
