SPECIFICATION CSpec
CONSTANTS
  NameLen = 3
  NSlots = 3
  FatLen = 7
  total_clusters = 4
  ClusterBytes = 3
  MaxBytes = 2
  TypedNames <- ShellNames
  HostNames <- MCHostNames
  p = p
  q = q
  Payload <- MCPayload
  Torn = Torn
  NoRequest = NoRequest
  NoFile = NoFile
  Disks <- MCOneClusterDisks
INVARIANTS
  CTypeOK
  EveryFirstNameReadable
  TableNamesFiles
PROPERTIES
  ReadIsStable
