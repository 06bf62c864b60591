SPECIFICATION Spec
CONSTANTS
  Alignment = 2
  MaxFreeBlocks = 256
  Unlimited = 1000
  Plans <- MCPlans
INVARIANTS SharedSoundly 
