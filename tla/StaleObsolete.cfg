SPECIFICATION Spec
CONSTANTS
  Pkg <- MCPkg
  Names <- MCNames
  File <- MCFile
  name <- MCname
  version <- MCversion
  Worlds <- HandoverWorlds
  NoPkg = NoPkg
  User = User
PROPERTIES
  NoSilentOverwrite
