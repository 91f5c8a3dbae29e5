CONSTANTS
  Devices <- MCDevices
  TickMod = 3
SPECIFICATION Spec
INVARIANTS
  TypeOK
  AlwaysGated
  ServiceEnded
  TicksCounted
  CriticalUndisturbed
PROPERTIES
  EndsOnlyItsOwn
  TickServed
