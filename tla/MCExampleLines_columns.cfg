\* The columns handed out against the layout of a block.
CONSTANTS
  MaxSections = 3
  LineStreams <- MCLineStreams
  Programs <- MCPrograms
SPECIFICATION Spec
INVARIANT ColumnsBehindLines
\* The example returns.
CHECK_DEADLOCK FALSE
