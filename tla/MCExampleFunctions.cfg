\* Every nesting of up to five records, and of up to two in the second module.
CONSTANTS
  MaxRecords = 5
  MaxRecordsOfSecond = 2
  Thunk = {"ThisAdjustor"}
  UInt32Range = 65536
  CountToShow = 2
  SymbolStreams <- MCSymbolStreams
  Programs <- MCPrograms
SPECIFICATION Spec
INVARIANTS
  LargestShown SymbolsComplete FunctionsInOwnContributions
  FunctionsComplete FrameProcOfOwnFunction LastSizeContributed LevelIsDepth AssertsHold
\* The program ends.
CHECK_DEADLOCK FALSE
