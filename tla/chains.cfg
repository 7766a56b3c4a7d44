SPECIFICATION FairSpec
CONSTANTS
  NameLen = 3
  NSlots = 3
  FatLen = 8
  total_clusters = 5
  ClusterBytes = 2
  MaxBytes = 3
  TypedNames <- MCNames
  HostNames <- MCHostNames
  p = p
  q = q
  Payload <- MCPayload
  Torn = Torn
  NoRequest = NoRequest
  NoFile = NoFile
  Disks <- MCDisks
INVARIANTS
  TypeOK
  FilesWhole
  NoCrossLink
  NothingBehindEndMark
  PendingOK
PROPERTIES
  LostOnlyByFailureOrFullDirectory
  NoSpaceIsTrue
  StoreSpec
  WriteReturns
