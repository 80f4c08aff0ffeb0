\* A sound file and every file that differs from it in up to two things.
CONSTANTS
  UInt32Range = 1024
  NilStreamIndex = 65535
  Files <- MCFiles
SPECIFICATION Spec
INVARIANTS ReadsStayInStream SubstreamsDisjoint MappingReleased InfoStreamIsRead
\* main returns.
CHECK_DEADLOCK FALSE
