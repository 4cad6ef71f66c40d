SPECIFICATION Spec
CONSTANTS
  Wishes    <- MCWishes
  Samples   <- MCSamples
  StrayRpcs <- MCStrayRpcs
INVARIANTS
  IInv
  TypeOK
  NoSilentZero
  DoorsAgree
  CallIsForTheWish
  AdvertisedIsCallable
CHECK_DEADLOCK FALSE
