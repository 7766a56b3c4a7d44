SPECIFICATION CSpec
CONSTANTS
  NameLen = 3
  NSlots = 3
  FatLen = 7
  total_clusters = 4
  ClusterBytes = 1
  MaxBytes = 1
  TypedNames <- EmptyNames
  HostNames <- MCHostNames
  p = p
  q = q
  Payload <- MCPayload
  Torn = Torn
  NoRequest = NoRequest
  NoFile = NoFile
  Disks <- MCOneClusterDisks
INVARIANT NothingBehindEndMark
