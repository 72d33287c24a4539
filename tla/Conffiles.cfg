SPECIFICATION Spec
CONSTANTS
  f = f
  g = g
  old = old
  new = new
  E1 = E1
  E2 = E2
  NoFile = NoFile
  Torn = Torn
  Version <- MCVersion
  File <- MCFile
  Content <- MCContent
  Worlds <- MCWorlds
INVARIANTS
  EditsSurvive
  ConffilesSettled
  NewVersionAtHand
