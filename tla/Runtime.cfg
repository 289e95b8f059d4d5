SPECIFICATION FairSpec
CONSTANTS
  Apps <- AllApps
  Reports = 5
INVARIANTS
  FannedCopiesNeverAnswer
  NoEndlessFanout
  DeliveriesFindConsumers
  NothingStaysQueued
PROPERTIES
  EverythingSettles
