CONSTANTS
  NULL = NULL
  swap_table_pcb = swap_table_pcb
  sst = sst
  c1 = c1
  c2 = c2
  c3 = c3
  Client = {c1, c2, c3}
  Careless = {c3}
SPECIFICATION MutexSpec
INVARIANTS MutualExclusion MessagesUnderstood TrapTestExact
PROPERTIES ImplementsLock ImplementsGranted
CHECK_DEADLOCK FALSE
