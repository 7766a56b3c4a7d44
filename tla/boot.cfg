CHECK_DEADLOCK FALSE
SPECIFICATION Spec
CONSTANTS
  Word = 65536
  DWord = 1073741824
  Disks <- MCDisks
  MaxNMI = 1
INVARIANTS
  BTypeOK
  ResetOnlyByEarlyNMI
  FrameIntact
  TimerAndKeyboardEnded
  NullOnlyWhenIdle
  ClustersAgree
  SearchSound
PROPERTIES
  BootEnds
