SPECIFICATION Spec
CONSTANTS
  Pkg <- MCPkg
  Names <- MCNames
  name <- MCname
  version <- MCversion
  Path <- MCPath
  Worlds <- MCWorlds
  NoPkg = NoPkg
INVARIANTS
  SharedPathsStay
