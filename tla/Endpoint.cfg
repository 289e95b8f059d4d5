SPECIFICATION FairSpec
CONSTANTS
  d1 = d1
  d2 = d2
  t1 = t1
  t2 = t2
  Flow = Flow
  Nobody = Nobody
  Deliveries = {d1, d2}
  Targets = {t1, t2}
  Refusable = {t1, t2}
  Plans <- MCPlans
INVARIANTS
  AcknowledgedWorkHasAnOwner
  FlowsGoOnWithReplies
PROPERTIES
  OneRunPerClaim
  EverythingEnds
