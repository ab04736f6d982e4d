SPECIFICATION Spec
CONSTANTS
  Radix = 4
  Capacity = 18
  BundleIds <- BundleIdLimits
  Ids <- IdLimits
  ByteValues <- ByteLimits
  IntValues <- IntLimits
  LongValues <- LongLimits
  Texts <- SomeTexts
  MaxInt = 127
  Timestamps = {0, 1, 6, 127}
  Offsets = {0, 5, 127}
  Lengths = {0, 1, 3, 6}
  NoText <- Null
  Space = {"0"}
INVARIANTS OldTimestampIsRefused
\* A message is sent once: then there is nothing left to do.
CHECK_DEADLOCK FALSE
