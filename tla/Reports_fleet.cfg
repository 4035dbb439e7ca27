SPECIFICATION Spec
CONSTANTS
  Devices <- MCDevices
  Writers = {w1, w2}
  Blank = Blank
  Topics <- MCTopics
  Payloads <- MCPayloads
  Older <- MCOlder
  Platforms <- MCPlatforms
  Bodies <- MCBodies
  MaxWrites <- MCMaxWrites
  MaxDay <- MCMaxDay
  NoRow = NoRow
  Facts <- MCFacts
  SerialOrder <- MCOrder
  Placeholders <- MCPlaceholders
  Alias <- MCAlias
  Machines = {0, 3}
  Computers = {3}
  UserRows = 2
  UserLimit = 1
  NoText = NoText
  NoAgent = NoAgent
  Untold = Untold
  Bookkeeping = {9}
  StaleAfter = 1
  SilentAfter = 1
  Empty = Empty
  Unset = Unset
  MinDevices = 2
  Queries <- MCQueries
  Scopes <- MCScopes
  NoQuery = NoQuery
  CertWindow = 1
  Unnamed = 0
  CertLimits = {1, 3}
  TopN = 1
  SplitFactor = 2
  SplitFloor = 2
  UsageQuestions <- MCUsageQuestions
  AppQuestions <- MCAppQuestions
  Names <- MCNames
  UpdateQuestions <- MCUpdateQuestions
  NoList = NoList
  CveQuestions <- MCCveQuestions
  ThreatQuestions <- MCThreatQuestions
  NotSaid = NotSaid
  Pieces <- MCPieces
  MacListLimit = 2
  NoCount = NoCount
  NoName = NoName
SYMMETRY WriterTwins
INVARIANTS
  UsageAddsUp
  ListsAddUp
  CardsCountTheirReports
  CardCountsOnce
PROPERTIES
  SilenceProvesNothing
  ReplaceClears
CHECK_DEADLOCK FALSE
