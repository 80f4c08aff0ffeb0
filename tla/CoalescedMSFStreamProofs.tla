--------------------- MODULE CoalescedMSFStreamProofs ---------------------
(***************************************************************************)
(* A coalesced stream is the slice of the scattered stream it was made     *)
(* from, for every block size, layout, size and offset, whichever path its *)
(* constructor takes.                                                      *)
(***************************************************************************)
EXTENDS CoalescedMSFStream, TLAPS

-----------------------------------------------------------------------------
(* Blocks and offsets, for every block size.                               *)

\* An offset is a block and an offset within it, and this pair is unique: what
\* the shift and the mask of ReadAtOffset rely on.
LEMMA OffsetSplits ==
  ASSUME NEW B \in Nat \ {0}, NEW o \in Nat
  PROVE  /\ BlockOf(o, B) \in Nat
         /\ OffsetWithinBlock(o, B) \in 0 .. (B - 1)
         /\ o = BlockOf(o, B) * B + OffsetWithinBlock(o, B)
  BY DEF BlockOf, OffsetWithinBlock

\* The pair is unique.
LEMMA SplitIsUnique ==
  ASSUME NEW B \in Nat \ {0}, NEW q \in Nat, NEW r \in 0 .. (B - 1)
  PROVE  BlockOf(q * B + r, B) = q /\ OffsetWithinBlock(q * B + r, B) = r
  BY DEF BlockOf, OffsetWithinBlock

\* The ceiling of ConvertSizeToBlockCount holds the size and wastes less than
\* one block.
LEMMA BlockCountIsCeiling ==
  ASSUME NEW B \in Nat \ {0}, NEW n \in Nat
  PROVE  /\ ConvertSizeToBlockCount(n, B) \in Nat
         /\ n <= ConvertSizeToBlockCount(n, B) * B
         /\ ConvertSizeToBlockCount(n, B) * B < n + B
  BY DEF ConvertSizeToBlockCount

\* Every byte of a stream lies in one of its blocks.
LEMMA BlockWithinCount ==
  ASSUME NEW B \in Nat \ {0}, NEW n \in Nat, NEW o \in Nat, o < n
  PROVE  BlockOf(o, B) < ConvertSizeToBlockCount(n, B)
<1> DEFINE q == BlockOf(o, B)
           c == ConvertSizeToBlockCount(n, B)
<1>1. q \in Nat /\ q * B <= o  BY OffsetSplits
<1>2. c \in Nat /\ n <= c * B  BY BlockCountIsCeiling
<1>3. q * B < c * B  BY <1>1, <1>2
<1>4. ~ (c <= q)
  <2>1. SUFFICES ASSUME c <= q PROVE FALSE  OBVIOUS
  <2>2. c * B <= q * B  BY <2>1, <1>1, <1>2
  <2> QED  BY <2>2, <1>1, <1>2, <1>3
<1> QED  BY <1>1, <1>2, <1>4

\* Moving on by whole blocks moves the block and keeps the offset within it.
LEMMA ShiftByBlocks ==
  ASSUME NEW B \in Nat \ {0}, NEW q \in Nat, NEW o \in Nat
  PROVE  /\ BlockOf(q * B + o, B) = q + BlockOf(o, B)
         /\ OffsetWithinBlock(q * B + o, B) = OffsetWithinBlock(o, B)
<1> DEFINE p == BlockOf(o, B)
           r == OffsetWithinBlock(o, B)
<1>1. p \in Nat /\ r \in 0 .. (B - 1) /\ o = p * B + r  BY OffsetSplits
<1>2. (q + p) * B = q * B + p * B  BY <1>1
<1>3. q + p \in Nat /\ q * B \in Nat /\ p * B \in Nat  BY <1>1
<1>4. q * B + o = (q + p) * B + r  BY <1>1, <1>2, <1>3
<1>5. /\ BlockOf((q + p) * B + r, B) = q + p
      /\ OffsetWithinBlock((q + p) * B + r, B) = r
  BY <1>1, <1>3, SplitIsUnique
<1> QED  BY <1>4, <1>5

\* The number of blocks of n + 1 bytes is one more than the block of the last.
LEMMA CountIsLastBlock ==
  ASSUME NEW B \in Nat \ {0}, NEW n \in Nat
  PROVE  ConvertSizeToBlockCount(n + 1, B) = BlockOf(n, B) + 1
  BY DEF ConvertSizeToBlockCount, BlockOf

\* A factor larger than zero can be cancelled from a strict inequality.
LEMMA LessByFactor ==
  ASSUME NEW B \in Nat \ {0}, NEW a \in Nat, NEW b \in Nat, a * B < b * B
  PROVE  a < b
<1>1. SUFFICES ASSUME b <= a PROVE FALSE  OBVIOUS
<1>2. b * B <= a * B  BY <1>1
<1> QED  BY <1>2

\* An offset at the very end of a stream may already be in the block behind it.
LEMMA BlockAtMostCount ==
  ASSUME NEW B \in Nat \ {0}, NEW n \in Nat, NEW o \in Nat, o <= n
  PROVE  BlockOf(o, B) <= ConvertSizeToBlockCount(n, B)
<1>1. CASE o < n
  BY <1>1, BlockWithinCount, OffsetSplits, BlockCountIsCeiling
<1>2. CASE o = n
  BY <1>2 DEF BlockOf, ConvertSizeToBlockCount
<1> QED  BY <1>1, <1>2

-----------------------------------------------------------------------------

\* The first n indices compared so far follow one another.
Ascending(n) == \A j \in 0 .. (n - 1) : blockIndices[FirstBlock + j] = blockIndices[FirstBlock] + j

\* Where the loop of AreBlockIndicesContiguous stands.
CheckPosition ==
  Checking => /\ i >= 1
              /\ expectedIndex = blockIndices[FirstBlock] + (i - 1)
              /\ Ascending(i)

\* The first n bytes of the stream, in an array for m_size bytes.
FilledUpTo(n) ==
  [k \in 0 .. (m_size - 1) |->
     IF k < n THEN DataOffset(blockIndices, k) ELSE Unwritten]

\* Where the loop that copies full blocks stands.
CopyPosition ==
  /\ pc \in {"checkBlocks", "copy"} => offset = 0
  /\ pc \in {"copy", "read"} => m_data = [from |-> "owned", at |-> 0]
  /\ pc = "copy" => /\ copied <= FullBlockCount
                    /\ m_ownedData = FilledUpTo(copied * BlockSize)

\* The stream ends at least a block below 4 GiB.
NoWrap == streamSize + BlockSize < UInt32

\* What the constructors maintain.
IInv == TypeOK /\ NoWrap /\ CheckPosition /\ CopyPosition /\ ContiguousViewIsSlice /\ OwnIndicesOnly

StreamBlocks == ConvertSizeToBlockCount(streamSize, BlockSize)

\* A byte below the size of the stream lies in one of its own blocks.
LEMMA OwnBlock ==
  ASSUME TypeOK, NEW o \in Nat, o < streamSize
  PROVE  /\ BlockOf(o, BlockSize) \in 0 .. (StreamBlocks - 1)
         /\ BlockOf(o, BlockSize) \in 0 .. DirectoryWords
         /\ StreamBlocks \in Nat
<1>1. streamSize \in Nat /\ StreamBlocks <= DirectoryWords  BY DEF TypeOK, StreamBlocks
<1>2. BlockOf(o, BlockSize) < StreamBlocks /\ StreamBlocks \in Nat
  BY <1>1, BlockWithinCount, BlockCountIsCeiling, BlockSizeAssumption DEF StreamBlocks
<1>3. BlockOf(o, BlockSize) \in Nat  BY OffsetSplits, BlockSizeAssumption
<1> QED  BY <1>1, <1>2, <1>3, DirectoryAssumption

\* The 32-bit sum of the contiguity check does not wrap, and the blocks it covers
\* are exactly those of the bytes asked for.
LEMMA ChecksOwnBlocks ==
  ASSUME TypeOK, NoWrap, m_size > 0
  PROVE  /\ CheckedBlocks = ConvertSizeToBlockCount(Within + m_size, BlockSize)
         /\ CheckedBlocks \in Nat
         /\ FirstBlock \in Nat /\ Within \in 0 .. (BlockSize - 1)
         /\ offset = FirstBlock * BlockSize + Within
         /\ FirstBlock + CheckedBlocks <= StreamBlocks
<1>1. offset \in Nat /\ m_size \in Nat /\ streamSize \in Nat /\ offset + m_size <= streamSize
  BY DEF TypeOK
<1>2. /\ FirstBlock \in Nat /\ Within \in 0 .. (BlockSize - 1)
      /\ offset = FirstBlock * BlockSize + Within
  BY <1>1, OffsetSplits, BlockSizeAssumption DEF FirstBlock, Within
<1>3. CheckedBlocks = ConvertSizeToBlockCount(Within + m_size, BlockSize)
  <2>1. Within + m_size \in 0 .. (UInt32 - 1)
    BY <1>1, <1>2, SizesFit, BlockSizeAssumption DEF NoWrap
  <2>2. (Within + m_size) % UInt32 = Within + m_size
    BY <2>1, SizesFit
  <2> QED  BY <2>2 DEF CheckedBlocks
<1>4. CheckedBlocks \in Nat
  <2>1. Within + m_size \in Nat  BY <1>1, <1>2
  <2> QED  BY <2>1, <1>3, BlockCountIsCeiling, BlockSizeAssumption
<1>5. FirstBlock + CheckedBlocks <= StreamBlocks
  <2> DEFINE last == offset + m_size - 1
             lastHere == Within + m_size - 1
  <2>1. last \in Nat /\ lastHere \in Nat /\ last < streamSize
    BY <1>1, <1>2
  <2>2. BlockOf(last, BlockSize) + 1 <= StreamBlocks
    BY <2>1, OwnBlock
  <2>3. last = FirstBlock * BlockSize + lastHere
    <3>1. FirstBlock * BlockSize \in Nat  BY <1>2, BlockSizeAssumption
    <3> QED  BY <3>1, <1>1, <1>2
  <2>4. BlockOf(last, BlockSize) = FirstBlock + BlockOf(lastHere, BlockSize)
    BY <2>1, <2>3, <1>2, ShiftByBlocks, BlockSizeAssumption
  <2>5. CheckedBlocks = BlockOf(lastHere, BlockSize) + 1
    <3>1. Within + m_size = lastHere + 1  BY <1>1, <1>2
    <3> HIDE DEF lastHere
    <3> QED  BY <3>1, <1>3, <2>1, CountIsLastBlock, BlockSizeAssumption
  <2>6. BlockOf(lastHere, BlockSize) \in Nat /\ StreamBlocks \in Nat
    BY <2>1, OffsetSplits, BlockSizeAssumption, OwnBlock
  <2> HIDE DEF last, lastHere
  <2> QED  BY <1>2, <2>2, <2>4, <2>5, <2>6
<1> QED  BY <1>2, <1>3, <1>4, <1>5

\* Indices that follow one another put the bytes of their blocks one after the
\* other: pointing into the file is right when the check succeeds.
LEMMA ContiguousBytes ==
  ASSUME TypeOK, NEW n \in Nat, Ascending(n),
         NEW k \in Nat, Within + k < n * BlockSize, k < m_size
  PROVE  DataOffset(blockIndices, offset + k) = DataOffset(blockIndices, offset) + k
<1> DEFINE first == blockIndices[FirstBlock]
           j == BlockOf(Within + k, BlockSize)
           r == OffsetWithinBlock(Within + k, BlockSize)
<1>1. offset \in Nat /\ streamSize \in Nat /\ m_size \in Nat /\ offset + m_size <= streamSize
  BY DEF TypeOK
<1>2. /\ FirstBlock \in Nat /\ Within \in 0 .. (BlockSize - 1)
      /\ offset = FirstBlock * BlockSize + Within
  BY <1>1, OffsetSplits, BlockSizeAssumption DEF FirstBlock, Within
<1>3. Within + k \in Nat /\ j \in Nat /\ r \in 0 .. (BlockSize - 1)
      /\ Within + k = j * BlockSize + r
  <2>1. Within + k \in Nat  BY <1>2
  <2> QED  BY <2>1, OffsetSplits, BlockSizeAssumption
<1>4. offset + k = FirstBlock * BlockSize + (Within + k)
  <2>1. FirstBlock * BlockSize \in Nat  BY <1>2, BlockSizeAssumption
  <2> QED  BY <2>1, <1>1, <1>2
<1>5. BlockOf(offset + k, BlockSize) = FirstBlock + j
      /\ OffsetWithinBlock(offset + k, BlockSize) = r
  <2>1. FirstBlock \in Nat /\ Within + k \in Nat  BY <1>2, <1>3
  <2>2. /\ BlockOf(FirstBlock * BlockSize + (Within + k), BlockSize)
             = FirstBlock + BlockOf(Within + k, BlockSize)
        /\ OffsetWithinBlock(FirstBlock * BlockSize + (Within + k), BlockSize)
             = OffsetWithinBlock(Within + k, BlockSize)
    BY <2>1, ShiftByBlocks, BlockSizeAssumption
  <2> QED  BY <2>2, <1>4
<1>6. j < n
  <2>1. j * BlockSize < n * BlockSize  BY <1>3, BlockSizeAssumption
  <2> HIDE DEF j
  <2> QED  BY <2>1, <1>3, LessByFactor, BlockSizeAssumption
<1>7. blockIndices[FirstBlock + j] = first + j
  BY <1>3, <1>6 DEF Ascending
<1>8. first \in Nat
  <2>1. offset < streamSize  BY <1>1
  <2> QED  BY <2>1, <1>1, OwnBlock DEF TypeOK, FirstBlock
<1>9. DataOffset(blockIndices, offset) = first * BlockSize + Within
  BY DEF DataOffset, FirstBlock, Within, ConvertBlockIndexToFileOffset
<1>10. DataOffset(blockIndices, offset + k) = (first + j) * BlockSize + r
  BY <1>5, <1>7 DEF DataOffset, ConvertBlockIndexToFileOffset
<1>11. (first + j) * BlockSize = first * BlockSize + j * BlockSize
  BY <1>3, <1>8, BlockSizeAssumption
<1>12. first * BlockSize \in Nat /\ j * BlockSize \in Nat
  BY <1>3, <1>8, BlockSizeAssumption
<1> HIDE DEF first, j, r
<1> QED  BY <1>2, <1>3, <1>9, <1>10, <1>11, <1>12

\* The first block index exists even when no bytes are asked for.
LEMMA FirstIndexTyped ==
  ASSUME TypeOK
  PROVE  /\ FirstBlock \in 0 .. DirectoryWords
         /\ blockIndices[FirstBlock] \in Nat
<1>1. offset \in Nat /\ streamSize \in Nat /\ m_size \in Nat /\ offset <= streamSize
  BY DEF TypeOK
<1>2. FirstBlock \in 0 .. DirectoryWords
  <2>1. FirstBlock \in Nat  BY <1>1, OffsetSplits, BlockSizeAssumption DEF FirstBlock
  <2>2. FirstBlock <= StreamBlocks /\ StreamBlocks \in Nat
    BY <1>1, BlockAtMostCount, BlockCountIsCeiling, BlockSizeAssumption
       DEF FirstBlock, StreamBlocks
  <2>3. StreamBlocks <= DirectoryWords  BY DEF TypeOK, StreamBlocks
  <2> QED  BY <2>1, <2>2, <2>3, DirectoryAssumption
<1> QED  BY <1>2 DEF TypeOK

LEMMA InitIInv == Init => IInv
<1> SUFFICES ASSUME Init PROVE IInv  OBVIOUS
<1>1. PICK s \in Streams : blockIndices = s.m_blockIndices /\ streamSize = s.m_size
  BY DEF Init
<1>2. TypeOK
  BY <1>1, StreamsAssumption, SizesFit DEF Init, TypeOK, Nowhere
<1>3. NoWrap  BY <1>1, SizesFit DEF NoWrap
<1>4. CheckPosition /\ CopyPosition /\ ContiguousViewIsSlice /\ OwnIndicesOnly
  BY DEF Init, CheckPosition, CopyPosition, ContiguousViewIsSlice, OwnIndicesOnly, Checking
<1> QED  BY <1>2, <1>3, <1>4 DEF IInv

\* Entry of either constructor.
LEMMA BeginStep ==
  ASSUME IInv, NEW size \in 0 .. streamSize, NEW o \in 0 .. streamSize,
         NEW where \in {"checkBlocks", "checkDirect"},
         o + size <= streamSize, where = "checkBlocks" => o = 0,
         Begin(where, o, size)
  PROVE  IInv'
<1> USE DEF Begin
<1>1. o \in Nat /\ size \in Nat /\ streamSize \in Nat /\ BlockOf(o, BlockSize) \in Nat
  <2>1. o \in Nat /\ size \in Nat /\ streamSize \in Nat  BY DEF IInv, TypeOK
  <2> QED  BY <2>1, OffsetSplits, BlockSizeAssumption
<1>2. blockIndices[BlockOf(o, BlockSize)] \in Nat
  <2>1. BlockOf(o, BlockSize) \in 0 .. DirectoryWords
    BY <1>1, BlockAtMostCount, BlockSizeAssumption, DirectoryAssumption,
       BlockCountIsCeiling DEF IInv, TypeOK
  <2> QED  BY <2>1 DEF IInv, TypeOK
<1>3. TypeOK'  BY <1>1, <1>2 DEF IInv, TypeOK
<1>4. CheckPosition'
  BY <1>1, <1>2 DEF CheckPosition, Checking, Ascending, FirstBlock
<1>5. CopyPosition'  BY DEF CopyPosition
<1>6. ContiguousViewIsSlice'  BY DEF ContiguousViewIsSlice
<1>7. OwnIndicesOnly'
  <2> SUFFICES ASSUME size > 0
               PROVE  BlockOf(o, BlockSize) \in 0 .. (StreamBlocks - 1)
    BY DEF OwnIndicesOnly, StreamBlocks
  <2>1. o < streamSize  BY <1>1
  <2> QED  BY <2>1, <1>1, OwnBlock DEF IInv
<1> QED  BY <1>3, <1>4, <1>5, <1>6, <1>7 DEF IInv, NoWrap

\* The loop of the contiguity check.
LEMMA CompareNextIndexStep ==
  ASSUME IInv, CompareNextIndex
  PROVE  IInv'
<1> USE DEF CompareNextIndex
<1>1. i \in Nat /\ i >= 1 /\ expectedIndex \in Nat /\ offset \in Nat /\ m_size \in Nat
  BY DEF IInv, TypeOK, CheckPosition
<1>2. FirstBlock \in Nat  BY <1>1, OffsetSplits, BlockSizeAssumption DEF FirstBlock
<1>3. TypeOK'  BY <1>1, <1>2 DEF IInv, TypeOK
<1>4. CheckPosition'
  <2>1. /\ expectedIndex = blockIndices[FirstBlock] + (i - 1) /\ Ascending(i)
        /\ blockIndices[FirstBlock + i] = expectedIndex + 1
    BY DEF IInv, CheckPosition
  <2>2. blockIndices[FirstBlock] \in Int
    BY <2>1, <1>1, FirstIndexTyped DEF IInv
  <2>3. Ascending(i + 1)
    <3> SUFFICES ASSUME NEW j \in 0 .. i
                 PROVE  blockIndices[FirstBlock + j] = blockIndices[FirstBlock] + j
      BY <1>1 DEF Ascending
    <3>1. CASE j = i  BY <3>1, <2>1, <2>2, <1>1
    <3>2. CASE j # i  BY <3>2, <2>1, <1>1 DEF Ascending
    <3> QED  BY <3>1, <3>2
  <2> QED  BY <2>1, <2>2, <2>3, <1>1 DEF CheckPosition, Checking, Ascending, FirstBlock
<1>5. CopyPosition'  BY DEF IInv, CopyPosition, Checking
<1>6. ContiguousViewIsSlice'  BY DEF ContiguousViewIsSlice, Checking
<1>7. OwnIndicesOnly'
  <2> SUFFICES ASSUME m_size > 0
               PROVE  FirstBlock + i \in 0 .. (StreamBlocks - 1)
    BY DEF IInv, OwnIndicesOnly, StreamBlocks
  <2>1. FirstBlock + CheckedBlocks <= StreamBlocks /\ CheckedBlocks \in Nat
    BY ChecksOwnBlocks DEF IInv
  <2>2. StreamBlocks \in Nat
    BY BlockCountIsCeiling, BlockSizeAssumption DEF StreamBlocks, IInv, TypeOK
  <2> QED  BY <2>1, <2>2, <1>1, <1>2
<1> QED  BY <1>3, <1>4, <1>5, <1>6, <1>7 DEF IInv, NoWrap

\* The check succeeded: the object points into the file.
LEMMA PointIntoFileStep ==
  ASSUME IInv, PointIntoFile
  PROVE  IInv'
<1> USE DEF PointIntoFile
<1>1. TypeOK /\ NoWrap /\ offset \in Nat /\ m_size \in Nat /\ i \in Nat /\ i >= 1
      /\ Ascending(i)
  BY DEF IInv, TypeOK, CheckPosition
<1>2. DataOffset(blockIndices, offset) \in Nat
  <2>1. Within \in Nat  BY <1>1, OffsetSplits, BlockSizeAssumption DEF Within
  <2>2. blockIndices[FirstBlock] \in Nat  BY <1>1, FirstIndexTyped
  <2>3. blockIndices[FirstBlock] * BlockSize \in Nat  BY <2>2, BlockSizeAssumption
  <2> QED  BY <2>1, <2>3 DEF DataOffset, FirstBlock, Within, ConvertBlockIndexToFileOffset
<1>3. TypeOK'  BY <1>2 DEF IInv, TypeOK
<1>4. CheckPosition' /\ CopyPosition'  BY DEF CheckPosition, CopyPosition, Checking
<1>5. ContiguousViewIsSlice'
  <2> SUFFICES ASSUME NEW k \in 0 .. (m_size - 1)
               PROVE  DataOffset(blockIndices, offset) + k
                        = DataOffset(blockIndices, offset + k)
    BY DEF ContiguousViewIsSlice, GetDataAtOffset, DataOffset
  <2>1. Within + k < i * BlockSize
    <3>1. m_size > 0  BY <1>1
    <3>2. /\ CheckedBlocks = ConvertSizeToBlockCount(Within + m_size, BlockSize)
          /\ Within \in 0 .. (BlockSize - 1) /\ CheckedBlocks \in Nat
      BY <1>1, <3>1, ChecksOwnBlocks
    <3>3. Within + m_size \in Nat /\ BlockSize \in Nat
      BY <1>1, <3>2, BlockSizeAssumption
    <3>4. Within + m_size <= CheckedBlocks * BlockSize
      BY <3>2, <3>3, BlockCountIsCeiling, BlockSizeAssumption
    <3>5. CheckedBlocks * BlockSize <= i * BlockSize
      BY <1>1, <3>2, <3>3
    <3>6. CheckedBlocks * BlockSize \in Nat /\ i * BlockSize \in Nat
      BY <1>1, <3>2, <3>3
    <3> QED  BY <1>1, <3>2, <3>4, <3>5, <3>6
  <2>2. k \in Nat /\ k < m_size  BY <1>1
  <2> QED  BY <1>1, <2>1, <2>2, ContiguousBytes
<1>6. OwnIndicesOnly'  BY DEF IInv, OwnIndicesOnly
<1> QED  BY <1>3, <1>4, <1>5, <1>6 DEF IInv, NoWrap

\* The check failed: nothing is copied yet.
LEMMA FoundScatteredStep ==
  ASSUME IInv, FoundScattered
  PROVE  IInv'
<1> USE DEF FoundScattered
<1>1. /\ i \in Nat /\ i >= 1 /\ offset \in Nat /\ m_size \in Nat
      /\ TypeOK /\ NoWrap /\ pc \in {"checkBlocks", "checkDirect"}
  BY DEF IInv, TypeOK, CheckPosition, Checking
<1>2. FirstBlock \in Nat  BY <1>1, OffsetSplits, BlockSizeAssumption DEF FirstBlock
<1>3. TypeOK'  BY <1>1, <1>2 DEF IInv, TypeOK
<1>4. CheckPosition'  BY <1>1 DEF CheckPosition, Checking
<1>5. CopyPosition'
  <2>1. FullBlockCount \in Nat  BY <1>1, BlockSizeAssumption DEF FullBlockCount
  <2>2. FreshBuffer(m_size) = FilledUpTo(0 * BlockSize)
    <3>1. 0 * BlockSize = 0  BY BlockSizeAssumption
    <3> QED  BY <3>1, <1>1 DEF FreshBuffer, FilledUpTo
  <2>3. pc = "checkBlocks" => offset = 0  BY DEF IInv, CopyPosition
  <2>4. /\ FullBlockCount' = FullBlockCount
        /\ FilledUpTo(copied * BlockSize)' = FilledUpTo(0 * BlockSize)
    BY DEF FullBlockCount, FilledUpTo, DataOffset
  <2> QED  BY <1>1, <2>1, <2>2, <2>3, <2>4 DEF CopyPosition
<1>6. ContiguousViewIsSlice'  BY <1>1 DEF ContiguousViewIsSlice
<1>7. OwnIndicesOnly'
  <2> SUFFICES ASSUME m_size > 0
               PROVE  FirstBlock + i \in 0 .. (StreamBlocks - 1)
    BY DEF IInv, OwnIndicesOnly, StreamBlocks
  <2>1. FirstBlock + CheckedBlocks <= StreamBlocks /\ CheckedBlocks \in Nat
    BY <1>1, ChecksOwnBlocks
  <2>2. StreamBlocks \in Nat
    BY <1>1, BlockCountIsCeiling, BlockSizeAssumption DEF StreamBlocks, TypeOK
  <2> QED  BY <2>1, <2>2, <1>1, <1>2
<1> QED  BY <1>3, <1>4, <1>5, <1>6, <1>7 DEF IInv, NoWrap

\* A memcpy of n bytes of block c behind the blocks copied before fills in n more.
LEMMA BlockFillsIn ==
  ASSUME m_size \in Nat, NEW c \in Nat, NEW n \in Nat, n <= BlockSize,
         c * BlockSize + n <= m_size, blockIndices[c] \in Nat
  PROVE  Memcpy(FilledUpTo(c * BlockSize), c * BlockSize,
                ConvertBlockIndexToFileOffset(blockIndices[c], BlockSize), n)
           = FilledUpTo(c * BlockSize + n)
<1> DEFINE at == c * BlockSize
           source == ConvertBlockIndexToFileOffset(blockIndices[c], BlockSize)
<1>1. at \in Nat /\ source \in Nat
  BY BlockSizeAssumption DEF ConvertBlockIndexToFileOffset
<1>2. ASSUME NEW j \in 0 .. (n - 1)
      PROVE  DataOffset(blockIndices, at + j) = source + j
  <2>1. j \in 0 .. (BlockSize - 1)  BY BlockSizeAssumption
  <2>2. BlockOf(at + j, BlockSize) = c /\ OffsetWithinBlock(at + j, BlockSize) = j
    BY <2>1, SplitIsUnique, BlockSizeAssumption
  <2> HIDE DEF at
  <2> QED  BY <2>2 DEF DataOffset
<1> HIDE DEF at, source
<1>3. at + n <= m_size  BY DEF at
<1>4. DOMAIN FilledUpTo(at) \cup (at .. (at + n - 1)) = 0 .. (m_size - 1)
  BY <1>1, <1>3 DEF FilledUpTo
<1>5. Memcpy(FilledUpTo(at), at, source, n) =
        [k \in 0 .. (m_size - 1) |->
           IF k \in at .. (at + n - 1) THEN source + (k - at) ELSE FilledUpTo(at)[k]]
  BY <1>4 DEF Memcpy
<1>6. ASSUME NEW k \in 0 .. (m_size - 1), k \in at .. (at + n - 1)
      PROVE  source + (k - at) = FilledUpTo(at + n)[k]
  <2>1. k - at \in 0 .. (n - 1) /\ at + (k - at) = k  BY <1>1, <1>6
  <2>2. DataOffset(blockIndices, k) = source + (k - at)  BY <2>1, <1>2
  <2>3. k < at + n  BY <1>1, <1>6
  <2>4. FilledUpTo(at + n)[k] = DataOffset(blockIndices, k)  BY <2>3 DEF FilledUpTo
  <2> QED  BY <2>2, <2>4
<1>7. ASSUME NEW k \in 0 .. (m_size - 1), k \notin at .. (at + n - 1)
      PROVE  FilledUpTo(at)[k] = FilledUpTo(at + n)[k]
  BY <1>1, <1>7 DEF FilledUpTo
<1>8. FilledUpTo(at + n) = [k \in 0 .. (m_size - 1) |-> FilledUpTo(at + n)[k]]
  BY DEF FilledUpTo
<1>9. Memcpy(FilledUpTo(at), at, source, n) = FilledUpTo(at + n)
  BY <1>5, <1>6, <1>7, <1>8
<1> QED  BY <1>9 DEF at, source

\* The full blocks and the remainder make up the size.
LEMMA FullBlocks ==
  ASSUME m_size \in Nat
  PROVE  /\ FullBlockCount \in Nat
         /\ RemainingBytes \in 0 .. (BlockSize - 1)
         /\ m_size = FullBlockCount * BlockSize + RemainingBytes
  BY BlockSizeAssumption DEF FullBlockCount, RemainingBytes

\* A block that starts below m_size is the stream's own.
LEMMA CopiedBlockIsOwn ==
  ASSUME TypeOK, offset = 0, NEW c \in Nat, c * BlockSize < m_size
  PROVE  /\ c \in 0 .. (StreamBlocks - 1)
         /\ blockIndices[c] \in Nat
<1>1. m_size \in Nat /\ streamSize \in Nat /\ m_size <= streamSize  BY DEF TypeOK
<1>2. c * BlockSize \in Nat /\ c * BlockSize + 0 = c * BlockSize  BY BlockSizeAssumption
<1>3. BlockOf(c * BlockSize, BlockSize) = c
  <2>1. 0 \in 0 .. (BlockSize - 1)  BY BlockSizeAssumption
  <2> QED  BY <2>1, <1>2, SplitIsUnique, BlockSizeAssumption
<1>4. c * BlockSize < streamSize  BY <1>1, <1>2
<1>5. c \in 0 .. (StreamBlocks - 1) /\ c \in 0 .. DirectoryWords
  BY <1>2, <1>3, <1>4, OwnBlock
<1> QED  BY <1>5 DEF TypeOK

LEMMA CopyFullBlockStep ==
  ASSUME IInv, CopyFullBlock
  PROVE  IInv'
<1> USE DEF CopyFullBlock
<1>1. /\ m_size \in Nat /\ copied \in Nat /\ offset = 0 /\ TypeOK /\ pc = "copy"
      /\ m_ownedData = FilledUpTo(copied * BlockSize)
  BY DEF IInv, TypeOK, CopyPosition
<1>2. /\ FullBlockCount \in Nat /\ copied < FullBlockCount
      /\ FullBlockCount * BlockSize <= m_size
  BY <1>1, FullBlocks, BlockSizeAssumption
<1>3. (copied + 1) * BlockSize = copied * BlockSize + BlockSize
  BY <1>1, BlockSizeAssumption
<1>4. copied * BlockSize + BlockSize <= m_size /\ copied * BlockSize \in Nat
  <2>1. (copied + 1) * BlockSize <= FullBlockCount * BlockSize
    BY <1>1, <1>2, BlockSizeAssumption
  <2>2. /\ (copied + 1) * BlockSize \in Nat /\ FullBlockCount * BlockSize \in Nat
        /\ copied * BlockSize \in Nat
    BY <1>1, <1>2, BlockSizeAssumption
  <2> QED  BY <1>1, <1>2, <1>3, <2>1, <2>2
<1>5. copied \in 0 .. (StreamBlocks - 1) /\ blockIndices[copied] \in Nat
  <2>1. copied * BlockSize < m_size  BY <1>1, <1>4, BlockSizeAssumption
  <2> QED  BY <2>1, <1>1, CopiedBlockIsOwn
<1>6. TypeOK'  BY <1>1 DEF TypeOK, CopyFromBlock
<1>7. CheckPosition' /\ ContiguousViewIsSlice'
  BY DEF CheckPosition, ContiguousViewIsSlice, Checking
<1>8. CopyPosition'
  <2>1. m_ownedData' = FilledUpTo((copied + 1) * BlockSize)
    <3>1. BlockSize <= BlockSize /\ BlockSize \in Nat  BY BlockSizeAssumption
    <3>2. Memcpy(FilledUpTo(copied * BlockSize), copied * BlockSize,
                 ConvertBlockIndexToFileOffset(blockIndices[copied], BlockSize), BlockSize)
            = FilledUpTo(copied * BlockSize + BlockSize)
      <4> HIDE DEF CopyFullBlock
      <4> QED  BY <3>1, <1>1, <1>4, <1>5, BlockFillsIn
    <3> QED  BY <3>2, <1>1, <1>3 DEF CopyFromBlock
  <2>2. /\ FullBlockCount' = FullBlockCount
        /\ FilledUpTo(copied * BlockSize)' = FilledUpTo((copied + 1) * BlockSize)
    BY DEF FullBlockCount, FilledUpTo, DataOffset
  <2> QED  BY <1>1, <1>2, <2>1, <2>2 DEF IInv, CopyPosition
<1>9. OwnIndicesOnly'
  BY <1>5 DEF IInv, OwnIndicesOnly, CopyFromBlock, StreamBlocks
<1> QED  BY <1>6, <1>7, <1>8, <1>9 DEF IInv, NoWrap

LEMMA CopyRemainderStep ==
  ASSUME IInv, CopyRemainder
  PROVE  IInv'
<1> USE DEF CopyRemainder
<1>1. /\ m_size \in Nat /\ copied \in Nat /\ offset = 0 /\ TypeOK /\ pc = "copy"
      /\ m_ownedData = FilledUpTo(copied * BlockSize)
      /\ m_data = [from |-> "owned", at |-> 0]
  BY DEF IInv, TypeOK, CopyPosition
<1>2. /\ RemainingBytes \in 0 .. (BlockSize - 1)
      /\ m_size = copied * BlockSize + RemainingBytes
  BY <1>1, FullBlocks
<1>3. copied * BlockSize \in Nat  BY <1>1, BlockSizeAssumption
<1>4. RemainingBytes # 0 => copied \in 0 .. (StreamBlocks - 1) /\ blockIndices[copied] \in Nat
  <2>1. RemainingBytes # 0 => copied * BlockSize < m_size  BY <1>2, <1>3
  <2> QED  BY <2>1, <1>1, CopiedBlockIsOwn
<1>5. m_ownedData' = FilledUpTo(m_size)
  <2>1. CASE RemainingBytes = 0
    <3>1. m_size = copied * BlockSize  BY <2>1, <1>2, <1>3
    <3> QED  BY <2>1, <3>1, <1>1
  <2>2. CASE RemainingBytes # 0
    <3>1. /\ RemainingBytes \in Nat /\ RemainingBytes <= BlockSize
          /\ copied * BlockSize + RemainingBytes <= m_size
      BY <1>1, <1>2, <1>3, BlockSizeAssumption
    <3>2. Memcpy(FilledUpTo(copied * BlockSize), copied * BlockSize,
                 ConvertBlockIndexToFileOffset(blockIndices[copied], BlockSize),
                 RemainingBytes)
            = FilledUpTo(copied * BlockSize + RemainingBytes)
      BY <2>2, <3>1, <1>1, <1>4, BlockFillsIn
    <3> QED  BY <2>2, <3>2, <1>1, <1>2 DEF CopyFromBlock
  <2> QED  BY <2>1, <2>2
<1>6. TypeOK'  BY <1>1 DEF TypeOK, CopyFromBlock
<1>7. CheckPosition' /\ CopyPosition'  BY DEF CheckPosition, CopyPosition, Checking
<1>8. ContiguousViewIsSlice'
  <2>1. ASSUME NEW k \in 0 .. (m_size - 1)
        PROVE  FilledUpTo(m_size)[0 + k] = DataOffset(blockIndices, offset + k)
    BY <1>1 DEF FilledUpTo
  <2>2. DOMAIN FilledUpTo(m_size) = 0 .. (m_size - 1)  BY DEF FilledUpTo
  <2> QED  BY <1>1, <1>5, <2>1, <2>2 DEF ContiguousViewIsSlice, GetDataAtOffset, DataOffset
<1>9. OwnIndicesOnly'
  BY <1>4 DEF IInv, OwnIndicesOnly, CopyFromBlock, StreamBlocks
<1> QED  BY <1>6, <1>7, <1>8, <1>9 DEF IInv, NoWrap

LEMMA ReadThroughDirectStreamStep ==
  ASSUME IInv, ReadThroughDirectStream
  PROVE  IInv'
<1> USE DEF ReadThroughDirectStream
<1>1. /\ m_size \in Nat /\ offset \in Nat /\ m_data = [from |-> "owned", at |-> 0]
  BY DEF IInv, TypeOK, CopyPosition
<1>2. TypeOK'  BY DEF IInv, TypeOK
<1>3. CheckPosition' /\ CopyPosition'  BY DEF CheckPosition, CopyPosition, Checking
<1>4. ContiguousViewIsSlice'
  BY <1>1 DEF ContiguousViewIsSlice, GetDataAtOffset, Slice, DataOffset
<1>5. OwnIndicesOnly'  BY DEF IInv, OwnIndicesOnly
<1> QED  BY <1>2, <1>3, <1>4, <1>5 DEF IInv, NoWrap

LEMMA NextIInv == IInv /\ [Next]_vars => IInv'
<1> SUFFICES ASSUME IInv, [Next]_vars PROVE IInv'  OBVIOUS
<1>1. ASSUME NEW size \in 0 .. streamSize, ConstructFromBlocks(size) PROVE IInv'
  <2>1. streamSize \in Nat /\ 0 \in 0 .. streamSize /\ 0 + size <= streamSize
    BY DEF IInv, TypeOK
  <2> QED  BY <1>1, <2>1, BeginStep DEF ConstructFromBlocks
<1>2. ASSUME NEW size \in 0 .. streamSize, NEW o \in 0 .. streamSize,
             ConstructFromDirect(size, o)
      PROVE  IInv'
  BY <1>2, BeginStep DEF ConstructFromDirect
<1>3. ASSUME Step PROVE IInv'
  BY <1>3, CompareNextIndexStep, PointIntoFileStep, FoundScatteredStep, CopyFullBlockStep,
     CopyRemainderStep, ReadThroughDirectStreamStep DEF Step
<1>4. ASSUME Destroy PROVE IInv'
  BY <1>4 DEF Destroy, IInv, NoWrap, TypeOK, CheckPosition, CopyPosition,
              ContiguousViewIsSlice, OwnIndicesOnly, Checking, Nowhere
<1>5. CASE UNCHANGED vars
  BY <1>5 DEF vars, IInv, NoWrap, TypeOK, CheckPosition, CopyPosition, Ascending, FirstBlock,
              FullBlockCount, FilledUpTo, ContiguousViewIsSlice, GetDataAtOffset,
              DataOffset, OwnIndicesOnly, Checking
<1> QED  BY <1>1, <1>2, <1>3, <1>4, <1>5 DEF Next

-----------------------------------------------------------------------------

\* The invariant the constructors maintain, in every reachable state.
THEOREM InvariantHolds == Spec => []IInv
  BY InitIInv, NextIInv, PTL DEF Spec

\* The fields and locals of the constructors stay within their types.
THEOREM TypeCorrect == Spec => []TypeOK
  BY InvariantHolds, PTL DEF IInv

\* A constructed object presents exactly the bytes it was asked for, whichever
\* constructor made it and whether or not it had to copy them.
THEOREM ViewAlwaysIsSlice == Spec => []ContiguousViewIsSlice
  BY InvariantHolds, PTL DEF IInv

\* No constructor looks up the block index of another stream.
THEOREM OnlyOwnIndices == Spec => []OwnIndicesOnly
  BY InvariantHolds, PTL DEF IInv
=============================================================================
