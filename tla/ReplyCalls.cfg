SPECIFICATION OutboundFairSpec
CONSTANTS
  first = first
  second = second
  Calls = {first, second}
  Awaited = {first}
  MaxReplies = 3
  BoundCalls <- AllBoundCalls
  Bindings <- AllBindings
  Defaults <- AllDefaults
  Targets <- AllTargets
  Failures <- AllFailures
INVARIANTS
  NothingLeaks
  OutcomesAreGenuine
  EffectsAreLicensed
PROPERTIES
  EverythingSettles
