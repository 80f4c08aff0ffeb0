\* Files of up to three streams of zero to two blocks, nil streams among them,
\* with the directory and its index blocks in and out of order.
CONSTANTS
  BlockSize = 8
  NilPageSize = 99
  MaxCount = 3
  Sizes = {0, 1, 8, 9, 99}
  Files <- MCFiles
SPECIFICATION Spec
INVARIANTS DirectoryRoundTrip StreamStaysInItsBlocks
CHECK_DEADLOCK FALSE
