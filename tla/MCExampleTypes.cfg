\* All three families of TPI streams, with virtual bases in the first 32 KiB; and
\* every IPI stream of up to three records, with lists in front of the strings they
\* name and behind them, empty lists among them, and types of every shape.
CONSTANTS
  FirstTypeIndex = 4096
  BaseLeaves = {"below LF_NUMERIC"}
  MaxIPIRecords = 3
  TPIStreams <- MCTPIStreams
  IPIStreams <- MCIPIStreams
  Files <- MCFiles
SPECIFICATION MainSpec
INVARIANTS
  NamesResolve OneMarker TypeIndexNamesRecord NamesOfReferences FollowedTwiceAtMost
  RecordsAreIndexed StringsAndTypesResolve IdentifierNamesRecord
PROPERTY FieldsInTurn
\* The program ends.
CHECK_DEADLOCK FALSE
