SPECIFICATION RequestSpec
CONSTANTS
  k1 = k1
  r1 = r1
  r2 = r2
  a1 = a1
  id1 = id1
  id2 = id2
  args = args
  tool = tool
  word = word
  other = other
  rest = rest
  parts = parts
  Keys = {k1}
  NoToken = NoToken
  Requests = {r1, r2}
  Listing = {r2}
  Admins = {a1}
  MaxRestarts = 1
  NoString = NoString
  Arrays = {parts}
  TextIn <- MCTextIn
  NoCalls = NoCalls
  NoChoice = NoChoice
  Absent = Absent
  Malformed = Malformed
  NoBody = NoBody
  EmptyObject = EmptyObject
  Broken = Broken
  Null = Null
  Boolean = Boolean
  Atoms <- MCAtoms
  Words <- MCWords
  Properties <- MCProperties
  MaxDepth = 5
  AnthropicDocs <- MCAnthropicDocs
  OpenAIDocs <- MCOpenAIDocs
INVARIANTS
  RevokedStaysOut
  NothingSaidIsLost
  OnlyUnreadIsLost
  CallsAnswered
  SchemasClean
  PassedThrough
CHECK_DEADLOCK FALSE
