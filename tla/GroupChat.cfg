CONSTANTS
  h = h
  a = a
  b = b
  User = User
  Nobody = Nobody
  Members = {h, a, b}
  MaxPending = 2
  Hosts = {h, Nobody}
  Rosters = {{h, a, b}, {h}}
  Speeches <- MCSpeeches
  Messages <- MCMessages
  MaxSpeeches = 3
  MaxLaunches = 2
  MaxFailures = 2
  MaxRows = 3
  MaxEvents = 1
SPECIFICATION FairSpec
INVARIANTS
  TypeOK
  NoOneWaitsTwice
  SiblingsAreUnseen
PROPERTIES
  NothingSkipped
  NotesAreKept
  TurnEnds
CHECK_DEADLOCK FALSE
