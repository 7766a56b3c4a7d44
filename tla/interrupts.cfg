SPECIFICATION FairSpec
CONSTANT MaxKeys = 3
INVARIANTS
  TypeOK
  NeverShutOut
  NoKeyStranded
PROPERTY KeysAreRead
