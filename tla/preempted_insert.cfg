CONSTANTS
  NULL = NULL
  ssi_pcb = ssi_pcb
  test_pcb = test_pcb
  Pcb = {ssi_pcb, test_pcb, a}
SPECIFICATION RaceSpec
PROPERTIES InsertedIsQueued
CHECK_DEADLOCK FALSE
