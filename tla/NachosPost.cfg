SPECIFICATION Spec
CONSTANTS
  m1 = m1
  m2 = m2
  Machine = {m1, m2}
  Box = {0, 1}
  Char = {"a", "b", "c", "q"}
  NetworkTime = 3
  ConsoleTime = 3
  TimerDelay <- MCTimerDelay
  Setups <- MCSetups
CHECK_DEADLOCK FALSE
INVARIANTS MailInOrder DevicesServe
PROPERTY ProgramsEnd
