SPECIFICATION Spec
CONSTANTS
  r1 = r1
  r2 = r2
  r3 = r3
  k1 = k1
  Undefined = Undefined
  NoRun = NoRun
  NoKey = NoKey
  Runs = {r1, r2}
  Keys = {k1}
  KeyOf <- OneKey
  Segments <- TwoOutbounds
  Locks = {}
  LocksOf <- NoLocksOf
  Attempts = 1
  MaxCalls = 1
  Transactional = TRUE
  LocksOutliveTx = FALSE
  Faults = {"outbound"}
SYMMETRY Duplicates
INVARIANTS
  NoCompensationAfterExternalEffect
