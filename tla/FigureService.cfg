SPECIFICATION Spec
CONSTANTS
  h1 = h1
  h2 = h2
  v1 = v1
  v2 = v2
  Browser = {h1, h2}
  Visitor = {v1, v2}
  Casts <- MCCasts
  Held <- MCHeld
  Pages <- MCPages
  Questions <- MCQuestions
  Figure = {"Goku", "Foca"}
  Size <- MCSize
  EndWithin = {"Foca"}
  Missing = "Personal"
  Fragments = 2
  MaxFd = 4
  MaxWaiting = 1
CHECK_DEADLOCK FALSE
INVARIANTS AnswersAreWhole ProcessesEndForCause
PROPERTY EverybodyEnds
