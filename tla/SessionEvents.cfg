CONSTANTS
  Msgs = {m1, m2}
  Runs = {r1, r2}
  MaxRows = 9
  NoRun = NoRun
  Reaper = Reaper
  MaxDequeueRetries = 1
  Events = {"cancel", "interrupt", "inject", "edit", "fault", "resume", "shutdown", "crash"}
  MaxEvents = 1
SYMMETRY Symmetry
SPECIFICATION Spec
INVARIANTS
  TypeOK
  StoreInv
  RunningIsCancellable
  RunningIsReleased
  AtMostOneTurn
  TakenIsHeld
  InterruptSparesLaterTurns
PROPERTIES
  NothingVanishes
  RetireLeavesNoWork
  ImplementsDelivery
\* All messages are sent, all goroutines are over: the session stops.
CHECK_DEADLOCK FALSE
