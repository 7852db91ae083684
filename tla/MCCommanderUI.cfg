SPECIFICATION Spec
CONSTANTS
  Dot = Dot
  DotDot = DotDot
  Dir = Dir
  Part = Part
  Foreign = Foreign
  None = None
  A = A
  B = B
  S = S
  Old = Old
  Older = Older
  Order <- Listed
  InitDisk <- Disks
  Typed <- Answers
  MaxOps = 2
  MaxFaults = 1
  MaxOthers = 1
  MaxSaves = 2
INVARIANTS
  TypeOK
  EditsAreNeverLost
  ListingIsCurrent
PROPERTIES
  OnlyWhatWasShownVanishes
  NothingSeenIsReplacedUnasked
CHECK_DEADLOCK FALSE
