CONSTANTS
  Cpu = {0, 1}
  SIZE = 2
  TXSIZE = 2
  WRAP = 4
  Scenario <- MCScenario
  Nil = Nil
SPECIFICATION Spec
INVARIANTS LockDiscipline InputIsEdited OutputInOrder SleepsForReason
PROPERTIES SleepsLongEnough EverythingSent
CHECK_DEADLOCK FALSE
