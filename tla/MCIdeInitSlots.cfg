CONSTANT SizeOf <- MCSizeOf
SPECIFICATION Spec
INVARIANT SlotSaysWhoExists
CHECK_DEADLOCK FALSE
