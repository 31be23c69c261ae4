SPECIFICATION FairSpec
CONSTANTS
  VGA_WIDTH = 2
  VGA_HEIGHT = 2
  Printable <- MCPrintable
  BYTE = 2
  WORD = 8
  BLINK_PERIOD = 3
INVARIANTS TypeOK NothingAfterCursor DisturbedOnlyByBlink
PROPERTY BlinksForever
