SPECIFICATION Spec
CONSTANTS
  HALF = 32
  WORD = 1024
  Args <- MCArgs
  Results <- MCResults
  ErrorCodes <- MCErrorCodes
INVARIANTS TypeOK CallerContextKept ExceptionReported
CHECK_DEADLOCK FALSE
