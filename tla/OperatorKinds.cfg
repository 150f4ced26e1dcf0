SPECIFICATION DeliveringSpec
CONSTANTS
  Workers = {w1}
  Resources = {r1}
  GenericPlural = {}
  GenericKind = {}
  Specs = {s1, s2, bad}
  Invalid = {bad}
  Listing = {s2}
  MaxChanges = 2
  MaxQueue = 1
  NoSpec = NoSpec
  NoEvent = NoEvent
  Free = Free
PROPERTIES
  LifecycleIsManaged
CHECK_DEADLOCK FALSE
