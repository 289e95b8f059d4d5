SPECIFICATION FairSpec
CONSTANTS
  r1 = r1
  r2 = r2
  r3 = r3
  k1 = k1
  Undefined = Undefined
  NoRun = NoRun
  NoKey = NoKey
  Runs = {r1, r2}
  Keys = {k1}
  KeyOf <- OneKey
  Segments <- OutboundFirst
  Locks = {1}
  LocksOf <- SharedLock
  Attempts = 2
  MaxCalls = 2
  Transactional = TRUE
  LocksOutliveTx = FALSE
  Faults = {"step", "commit", "reinvoke", "checkpoint", "resolve", "outbound", "crash"}
INVARIANTS
  ClaimComesFirst
  RetriesSeeCleanCtx
  HooksFollowCommits
PROPERTIES
  EveryRunEnds
