SPECIFICATION Spec
CONSTANTS
  Pkg <- MCPkg
  Names <- MCNames
  File <- MCFile
  name <- MCname
  version <- MCversion
  Worlds <- MCWorlds
  NoPkg = NoPkg
  User = User
INVARIANTS
  TypeOK
  OneVersionPerName
  
  ListsDisjoint
  
  ListsComplete
PROPERTIES
  NoSilentOverwriteAlone
  OnlyOwnFilesDeleted
  UnwindKeepsOwners
