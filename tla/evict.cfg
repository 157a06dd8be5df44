CONSTANTS
  j = j  k = k  x = x  y = y  z = z
  Queue <- TwoJobs
  Instances = {x, y, z}
  Inst <- Targeted
  Peak <- Peaks
  Loads <- Parts
  Vram = 5
  Slots = 2
SPECIFICATION Spec
INVARIANTS RestIsJustified
PROPERTIES SparedKeepsMemory
CHECK_DEADLOCK FALSE
