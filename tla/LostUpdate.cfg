SPECIFICATION Spec
CONSTANTS
  Proc = {p1, p2}
  Inode = {i1, i2, i3}
  NoFile = NoFile
  NoProc = NoProc
  Interrupts = FALSE
  Kills = FALSE
CHECK_DEADLOCK FALSE
INVARIANTS
  NothingLost
