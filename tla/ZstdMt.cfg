\* Two workers and sections of two chunks.
SPECIFICATION FairSpec
CONSTANTS
  Workers = {w1, w2}
  targetSectionSize = 2
  targetPrefixSize = 1
  Instances <- MCInstances
  None = None
CHECK_DEADLOCK FALSE
INVARIANTS
  InputIsIntact
  FrameIsWhatWasFed
PROPERTIES
  EndIsReached
