CONSTANTS
  MaxTurns = 2
  MaxConns = 3
  MaxProcs = 2
  MaxSessions = 2
  MaxUpsets = 2
SPECIFICATION FairSpec
INVARIANTS
  AliveHasItsProcess
  PromptsInItsSession
PROPERTIES
  TurnsEnd
CHECK_DEADLOCK FALSE
