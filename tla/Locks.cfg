SPECIFICATION FairSpec
CONSTANTS
  u1 = u1
  u2 = u2
  u3 = u3
  u4 = u4
  e1 = e1
  e2 = e2
  Units = {u1, u2, u3, u4}
  Names = {1, 2, 3}
  Keys = {1, 2, 3}
  Entities = {e1, e2}
  Machine <- Circuit
  First = "pending"
  Scenes <- AllScenes
  MaxAttempts = 2
INVARIANTS
  DeclaredLocksExclude
  QueueIsFair
  TimeoutsStayWithTheirLocks
  NoMoveIsLost
  UnitsMoveOnce
PROPERTIES
  EveryUnitSettles
