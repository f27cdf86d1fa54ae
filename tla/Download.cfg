CONSTANTS
  v1 = v1
  v2 = v2
  Version = {v1, v2}
  SizeOf <- Sizes
  Registered = v1
  HasBytes = TRUE
  HasChecksum = TRUE
  FetchRetries = 1
  MaxFaults = 3
  MaxDeaths = 1
  MaxChanges = 1

SPECIFICATION FairDownloadSpec

INVARIANTS
  PartAligned
  SuccessIsWhole

PROPERTIES
  OnlyVerifiedReplaces
  UndisturbedSucceeds
