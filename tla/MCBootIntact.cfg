CONSTANT Disks <- MCDisks
SPECIFICATION Spec
INVARIANT KernelIntact
CHECK_DEADLOCK FALSE
