SPECIFICATION Spec
CONSTANTS
  Proc = {p1, p2}
  Inode = {i1, i2, i3}
  NoFile = NoFile
  NoProc = NoProc
  Interrupts = TRUE
  Kills = TRUE
CHECK_DEADLOCK FALSE
INVARIANTS
  LockInv
PROPERTIES
  NoSpuriousRefusal
  ImplementsExclusiveLock
