SPECIFICATION FairSpec
CONSTANTS
  BUFFER_SIZE = 3
  MAX_PENDING = 1
  Keys <- MCKeys
INVARIANTS TypeOK TakenIsOldest ShiftNeverStuck PrefixTracked
PROPERTIES ImplementsTypeAhead WaitingIsTaken EventsAreHeard
