CONSTANTS
  Msgs = {m1, m2}
  Runs = {r1, r2}
  MaxRows = 9
  NoRun = NoRun
  Reaper = Reaper
  MaxDequeueRetries = 2
  Events = {"interrupt"}
  MaxEvents = 1
SYMMETRY Symmetry
SPECIFICATION Spec
INVARIANTS
  InterruptSparesOwnMessage
\* All messages are sent, all goroutines are over: the session stops.
CHECK_DEADLOCK FALSE
