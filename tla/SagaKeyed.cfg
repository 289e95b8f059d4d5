SPECIFICATION Spec
CONSTANTS
  r1 = r1
  r2 = r2
  r3 = r3
  k1 = k1
  Undefined = Undefined
  NoRun = NoRun
  NoKey = NoKey
  Runs = {r1, r2, r3}
  Keys = {k1}
  KeyOf <- OneKey
  Segments <- TxOutTx
  Locks = {}
  LocksOf <- NoLocksOf
  Attempts = 2
  MaxCalls = 1
  Transactional = TRUE
  LocksOutliveTx = FALSE
  Faults = {"step", "commit", "lostCommit", "checkpoint", "resolve", "outbound", "crash"}
SYMMETRY Duplicates
INVARIANTS
  ActsAlone
  EffectOncePerKey
  AnswerIsGenuine
  NeverRerun
PROPERTIES
  KeepsKeyPromise
