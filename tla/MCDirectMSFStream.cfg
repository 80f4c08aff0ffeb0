\* Two threads, their copies interleaved, read every range of streams of up to five
\* bytes in blocks of two, stored in order, backwards and with a block used twice.
CONSTANTS
  Width = 8
  BlockSize = 2
  DirectoryWords = 3
  MaxSize = 5
  Readers = {r1, r2}
  Streams <- MCStreams
SPECIFICATION FairSpec
INVARIANTS PrefixWritten OwnIndicesOnly
PROPERTIES ImplementsMSFStream EveryReadReturns
