CONSTANTS
  c1 = c1
  c2 = c2
  Controllers <- MCOneController
  MaxCalls = 3
SPECIFICATION FairSpec
PROPERTY ModeAssertions
CHECK_DEADLOCK FALSE
