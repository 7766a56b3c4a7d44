SPECIFICATION USpec
CONSTANTS
  SCREEN_WIDTH = 3
  SCREEN_HEIGHT = 3
  MAX_COMMAND_LENGTH = 5
  DataLength = 5
  Key <- MCKey
  Plain <- MCPlain
  Shifted <- MCShifted
  Glyph <- MCGlyph
  WriteWord <- MCWriteWord
  ClearLine <- MCClearLine
  Output <- MCOutput
  Welcome <- MCWelcome
  EnterData <- MCEnterData
  NoSpace <- MCNoSpace
  NoFile = NoFile
  Byte = 2
  MaxTicks = 3
INVARIANTS
  UTypeOK
  ScreenShowsEntered
  IndexAboveText
PROPERTIES
  OnlyEnteredErased
  EditsLines
