SPECIFICATION Spec
CONSTANTS
  Apps <- TapApps
  Reports = 1
INVARIANTS
  CopiesNeverAnswer
