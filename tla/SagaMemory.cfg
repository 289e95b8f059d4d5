SPECIFICATION Spec
CONSTANTS
  r1 = r1
  r2 = r2
  r3 = r3
  k1 = k1
  Undefined = Undefined
  NoRun = NoRun
  NoKey = NoKey
  Runs = {r1, r2, r3}
  Keys = {k1}
  KeyOf <- TwoKeyed
  Segments <- TxOut
  Locks = {1, 2}
  LocksOf <- OverlappingLocks
  Attempts = 1
  MaxCalls = 2
  Transactional = FALSE
  LocksOutliveTx = TRUE
  Faults = {"step", "commit", "outbound", "reply", "reinvoke", "lockTimeout"}
INVARIANTS
  ActsAlone
  StuckOnlyAfterEffect
  LockedStepsExclude
  LocksFollowAttempts
