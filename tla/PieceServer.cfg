SPECIFICATION Spec
CONSTANTS
  c1 = c1
  c2 = c2
  Asks <- MCAsks
  Conn = {c1, c2}
  Names = {"Goku", "Foca", "GoyoCat", "Personal"}
  MountOrder <- MCOrder
  Before <- MCBefore
  Size <- MCSize
  Fragments = 2
  MaxFd = 4
  MaxProc = 2
  Backlog = 2
  MaxStarts = 2
CHECK_DEADLOCK FALSE
INVARIANTS TypeOK AnswersFit
PROPERTY RequestsEnd
