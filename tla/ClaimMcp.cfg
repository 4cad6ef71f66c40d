SPECIFICATION Spec
CONSTANTS
  Wishes    <- NoWishes
  Samples   <- MCSamples
  StrayRpcs <- MCStrayRpcs
INVARIANT EnvelopeInEveryCase
CHECK_DEADLOCK FALSE
