SPECIFICATION FSpec
CONSTANTS
  NameLen = 3
  NSlots = 2
  FatLen = 6
  total_clusters = 4
  ClusterBytes = 2
  MaxBytes = 3
  TypedNames <- MCOneName
  HostNames <- MCHostNames
  p = p
  q = q
  Payload <- MCPayload
  Torn = Torn
  NoRequest = NoRequest
  NoFile = NoFile
  Disks <- MCFaultDisks
  SectorEntries = 3
  JunkValues <- MCJunkValues
  JunkDirs <- MCJunkDirs
  MaxFaults = 2
INVARIANTS
  FTypeOK
PROPERTIES
  SpoiltOnlyByMisread
  NewFileWhole
  FWriteReturns
