SPECIFICATION LibrarySpec
CONSTANTS
  Char <- MCChar
  Writes <- MCWrites
  Formats <- MCFormats
  Modes = {"r", "w", "a", "a+", "r+"}
  Offsets <- MCOffsets
  Buffers = {0, 3}
  MaxLen = 3
  ReadBuf = 2
  WriteBuf = 2
  MaxVBuf = 1
  MaxNumLen = 2
  Lists <- MCLists
  Orders = {"less", "any", "failing"}
  MatchAt <- LuaMatchAt
  MeaningAt <- MeantAt
  MaxCaptures = 3
  MaxMatchCalls = 7
  MaxInteger = 7
  MaxRepSize = 5
  MaxStrResult = 12
  MaxUnpack = 5
  ByteValues = 4
  IntegerSize = 2
  MaxIntSize = 4
  MaxNumeral = 8
  Questions <- MCQuestions
INVARIANTS SortExact PatternsMean AnswersExact PackRoundTrip
PROPERTY FileImplements
VIEW LibraryView
CHECK_DEADLOCK FALSE
