SPECIFICATION Spec
CONSTANTS
  BITS = 4
  VGA_WIDTH = 3
  VGA_HEIGHT = 2
  LINE_MAX = 3
  Printable <- MCPrintable
  Keys <- MCKeys
  Names <- MCNames
INVARIANTS TypeOK LineShown
PROPERTY ImplementsLineEditor
CHECK_DEADLOCK FALSE
