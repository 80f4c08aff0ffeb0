\* Streams of up to 6 bytes in blocks of 2: every size and offset falls before,
\* on and behind a block boundary, every layout is contiguous or broken anywhere.
CONSTANTS
  BlockSize = 2
  DirectoryWords = 3
  MaxSize = 6
  UInt32 = 16
  Streams <- MCStreams
SPECIFICATION FairSpec
INVARIANTS ContiguousViewIsSlice OwnIndicesOnly
PROPERTY ConstructionEnds
