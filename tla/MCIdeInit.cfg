CONSTANT SizeOf <- MCSizeOf
SPECIFICATION Spec
INVARIANTS
  SlotsLeadToDrives
  SomeSlotIfSomeDrive
PROPERTY ScanEnds
\* The scan is over.
CHECK_DEADLOCK FALSE
