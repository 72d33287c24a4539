CONSTANTS
  tool = tool
  other = other
  virtual = virtual
  bin = bin
  doc = doc
  conf = conf
  Names <- MCNames
  File <- MCFile
  NameHash <- MCNameHash
  FileHash <- MCFileHash
  Info <- MCInfo
  Worlds <- MCWorlds
  Buckets = 2
  NoKey = NoKey
  NoData = NoData
  NoInfo = NoInfo
  NoString = NoString
  LongSize = 16
  IntSize = 16
SPECIFICATION Spec
INVARIANTS
  
  
  VersionOrder

  
