CONSTANTS
  s1 = s1
  s2 = s2
  NoFile = NoFile
  main = main
  extra = extra
  all = all
  arm = arm
  Source <- MCSource
  Component <- MCComponent
  Arch <- MCArch
  Url <- MCUrl
  Worlds <- EachWorld
  MaxVersion = 2
  Size = 2
SPECIFICATION FairSpec
INVARIANTS
  FeedsInv
PROPERTIES
  UpdateDelivers
  DistReliable
  SignedUpdateDelivers
  PackageAsFeedSays
  ListsRecover
