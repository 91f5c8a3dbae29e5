CONSTANT Disks <- MCDisks
SPECIFICATION Spec
INVARIANTS
  LoadedInOrder
  KernelArrives
PROPERTY BootEnds
\* The kernel runs, or the loader has stopped.
CHECK_DEADLOCK FALSE
