CONSTANTS
  Frames <- FrameCatalog
  kMaxBodyBytes = 2
  DamageValues = {0, 1, 2, 3}
  MaxFrames = 3
  MaxDamage = 1
SPECIFICATION FrameSpec
INVARIANT OnlyTheTypeCanBeForged
PROPERTIES ImplementsFrameChannel DecodersAgree
CHECK_DEADLOCK FALSE
