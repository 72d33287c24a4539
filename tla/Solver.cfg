SPECIFICATION Spec
CONSTANTS
  Pkg <- MCPkg
  Names <- MCNames
  name <- MCname
  version <- MCversion
  rank <- MCrank
  LoadOrder <- MCLoadOrder
  NoPkg = NoPkg
  Worlds <- MCWorlds
PROPERTIES
  OnlyRemovalsBreak
  RemovalBreaksNothing
  NoNewClash
  InPlaceIsWanted
  InstallDelivers
  DependencyConfiguredFirst
  HeldStays
