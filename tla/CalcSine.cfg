SPECIFICATION CalcSpec
CONSTANTS
  BITS = 5
  Lines <- MCWords
  Angles <- MCAngles
  Slopes <- MCSlopes
INVARIANT SineAtMostOne
CHECK_DEADLOCK FALSE
