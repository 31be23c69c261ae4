SPECIFICATION Spec
CONSTANTS
  HALF = 32
  WORD = 1024
  Args <- MCArgs
  Results <- MCResults
  ErrorCodes <- MCErrorCodes
INVARIANT CallServed
CHECK_DEADLOCK FALSE
