\* The feature codes promise an IPI stream, which is empty or too short.
CONSTANTS
  UInt32Range = 1024
  NilStreamIndex = 65535
  Files <- ShortIPIFiles
SPECIFICATION Spec
INVARIANT ReadsStayInStream
\* main returns.
CHECK_DEADLOCK FALSE
