SPECIFICATION PromptSpec
CONSTANTS
  Process = {p1, p2}
  Nobody = Nobody
  StartTries = 2
  ClickTries = 1
  AgainTries = 1
  TakeTries = 2
  Limit = 2
PROPERTY HealthyKept
CHECK_DEADLOCK FALSE
