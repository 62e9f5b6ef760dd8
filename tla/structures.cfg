CONSTANTS
  NULL = NULL
  MAXPROC = 3
  Queue <- OneQueue
  MAXMESSAGES = 4
  Inbox <- TwoInboxes
  Sender = {p1, p2}
  Proc = {p1, p2, p3}
  Sub <- PhaseThree
SPECIFICATION StructuresSpec
INVARIANTS WellLinked ParentsAgree
PROPERTIES ImplementsLists ImplementsInboxes FirstOfSender ImplementsChannels
