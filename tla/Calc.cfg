SPECIFICATION CalcSpec
CONSTANTS
  BITS = 5
  Lines <- MCLines
  Angles <- MCAngles
  Slopes <- MCSlopes
INVARIANTS ExpressionMeans IntegersExact TrigAgrees
CHECK_DEADLOCK FALSE
