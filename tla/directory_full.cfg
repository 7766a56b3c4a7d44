SPECIFICATION Spec
CONSTANTS
  NameLen = 3
  NSlots = 3
  FatLen = 7
  total_clusters = 4
  ClusterBytes = 2
  MaxBytes = 3
  TypedNames <- MCNames
  HostNames <- MCHostNames
  p = p
  q = q
  Payload <- MCPayload
  Torn = Torn
  NoRequest = NoRequest
  NoFile = NoFile
  Disks <- MCDisks
PROPERTY WriteCreatesEntry
