SPECIFICATION Spec
CONSTANTS
  Proc = {p1, p2, p3}
  Inode = {i1, i2, i3, i4}
  NoFile = NoFile
  NoProc = NoProc
  Interrupts = FALSE
  Kills = FALSE
CHECK_DEADLOCK FALSE
SYMMETRY Symmetry
INVARIANTS
  MutualExclusion
