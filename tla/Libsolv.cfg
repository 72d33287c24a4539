SPECIFICATION SolvSpec
CONSTANTS
  Pkg <- MCPkg
  Names <- MCNames
  name <- MCname
  version <- MCversion
  rank <- MCrank
  LoadOrder <- MCLoadOrder
  NoPkg = NoPkg
  Worlds <- SolvWorlds
PROPERTIES
  TransactionDelivers
  ArrivesAfterNeeds
  HeldAndExcludedStay
  PendingIsDone
  MarksKept
  NoClashLeft
