SPECIFICATION StreamsSpec
CONSTANTS
  Letters <- MCLetters
  OpenTag <- MCOpenTag
  CloseTag <- MCCloseTag
  Chunks <- MCChunks
  MaxChunks = 5
  Words = {"v", "w"}
  MaxBlocks = 2
  MaxEvents = 8
INVARIANTS
  TypeOK
  WellFormed
  OneEnding
  ResultFitsStream
  TextIntact
  ToolCallsIntact
  ConvertedWhole
  MessageWhole
  CopyWhole
  LossIsTold
  EarlyEndShows
CHECK_DEADLOCK FALSE
