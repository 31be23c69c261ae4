SPECIFICATION FairSpec
CONSTANTS
  MAX_TASKS = 3
  MaxStacks = 4
INVARIANTS TypeOK NeverLost EveryTaskKept StaysInTable FairTurns
PROPERTIES BootLeftForGood EveryTaskRuns
CHECK_DEADLOCK FALSE
