CHECK_DEADLOCK FALSE
SPECIFICATION FairSpec
CONSTANTS
  SectorBytes = 4
  DiskSector <- MCDiskSector
  LargeSector <- MCLargeSector
  Data <- MCData
  Count <- MCCount
  Blank = 9
  OpenBus = 255
  Untouched = 77
INVARIANTS
  ATypeOK
  DriveQuiet
PROPERTIES
  WrittenUnlessFailed
  ReadIsExact
  CallsReturn
  StoreSpec
