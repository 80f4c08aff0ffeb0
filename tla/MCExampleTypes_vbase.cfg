\* Lists of fields with virtual bases on both sides of the first 32 KiB.
CONSTANTS
  FirstTypeIndex = 4096
  BaseLeaves = {"below LF_NUMERIC", "LF_USHORT", "LF_ULONG"}
  MaxIPIRecords = 0
  TPIStreams <- WalkedTPIStreams
  IPIStreams <- NoIPIStreams
  Files <- WalkedFiles
SPECIFICATION MainSpec
INVARIANT OnlyKnownKinds
CHECK_DEADLOCK FALSE
