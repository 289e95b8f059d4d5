SPECIFICATION Spec
CONSTANTS
  m1 = m1
  m2 = m2
  m3 = m3
  m4 = m4
  c1 = c1
  c2 = c2
  close1 = close1
  close2 = close2
  Pump = Pump
  NoMsg = NoMsg
  Msgs = {m1, m2}
  Consumers = {c1}
  Closers = {close1}
  Capacity = 2
SYMMETRY Interchangeable
CHECK_DEADLOCK FALSE
INVARIANTS
  DrainIsComplete
