------------------------ MODULE CoalescedMSFStream ------------------------
(***************************************************************************)
(* PDB_CoalescedMSFStream: a stream that is contiguous in memory, because  *)
(* its blocks happen to be contiguous in the file and m_data points into   *)
(* the mapping, or because its blocks were copied into an array it owns.   *)
(* Both constructors are modelled, one loop iteration per step.  The       *)
(* constructor from a DirectMSFStream calls ReadAtOffset, which answers as *)
(* MSFStream promises (DirectMSFStream implements it).                     *)
(***************************************************************************)
EXTENDS MSFLayout

CONSTANT UInt32               \* the number of values of a uint32_t

\* offsetWithinBlock + size is a uint32_t sum.  It cannot wrap for streams that
\* end at least one block below 4 GiB.
ASSUME SizesFit ==
  UInt32 \in Nat /\ \A s \in Streams : s.m_size + BlockSize < UInt32

VARIABLES blockIndices, streamSize, \* the stream the object is made from
          pc,                       \* where the constructor stands
          offset,                   \* its argument; 0 for the block constructor
          i, expectedIndex,         \* locals of AreBlockIndicesContiguous
          copied,                   \* blocks copied by the block constructor
          dereferenced,             \* positions of blockIndices looked up
          m_ownedData, m_data, m_size

vars == <<blockIndices, streamSize, pc, offset, i, expectedIndex, copied,
          dereferenced, m_ownedData, m_data, m_size>>

nullptr == FreshBuffer(0)
Nowhere == [from |-> "null", at |-> 0]

Init ==
  /\ \E s \in Streams : blockIndices = s.m_blockIndices /\ streamSize = s.m_size
  /\ pc = "none"
  /\ offset = 0
  /\ i = 0 /\ expectedIndex = 0 /\ copied = 0
  /\ dereferenced = {}
  /\ m_ownedData = nullptr /\ m_data = Nowhere /\ m_size = 0

FirstBlock == BlockOf(offset, BlockSize)
Within == OffsetWithinBlock(offset, BlockSize)

\* Variants: the part of the first block in front of the offset forgotten, and a
\* ceiling that is one too many for whole blocks.
CheckedBlocksOfSize == ConvertSizeToBlockCount(m_size, BlockSize)
CheckedBlocksAndOne == (Within + m_size + BlockSize) \div BlockSize

\* blockCount of AreBlockIndicesContiguous: the block constructor passes the
\* size, the other one offsetWithinBlock + size.
CheckedBlocks == ConvertSizeToBlockCount((Within + m_size) % UInt32, BlockSize)

\* Entry of a constructor, up to the first comparison of its contiguity check.
Begin(where, o, size) ==
  /\ pc = "none"
  /\ pc' = where
  /\ offset' = o
  /\ m_size' = size
  /\ i' = 1
  /\ expectedIndex' = blockIndices[BlockOf(o, BlockSize)]
  /\ dereferenced' = {BlockOf(o, BlockSize)}
  /\ UNCHANGED <<blockIndices, streamSize, copied, m_ownedData, m_data>>

\* CoalescedMSFStream(data, blockSize, blockIndices, streamSize)
ConstructFromBlocks(size) == size <= streamSize /\ Begin("checkBlocks", 0, size)

\* CoalescedMSFStream(directStream, size, offset)
ConstructFromDirect(size, o) == o + size <= streamSize /\ Begin("checkDirect", o, size)

Checking == pc \in {"checkBlocks", "checkDirect"}

CompareNextIndex ==
  /\ Checking
  /\ i < CheckedBlocks
  /\ blockIndices[FirstBlock + i] = expectedIndex + 1
  /\ i' = i + 1
  /\ expectedIndex' = expectedIndex + 1
  /\ dereferenced' = dereferenced \cup {FirstBlock + i}
  /\ UNCHANGED <<blockIndices, streamSize, pc, offset, copied,
                 m_ownedData, m_data, m_size>>

\* Every index was the expected one: point into the memory-mapped file.
PointIntoFile ==
  /\ Checking
  /\ i >= CheckedBlocks
  /\ m_data' = [from |-> "file", at |-> DataOffset(blockIndices, offset)]
  /\ pc' = "done"
  /\ UNCHANGED <<blockIndices, streamSize, offset, i, expectedIndex, copied,
                 dereferenced, m_ownedData, m_size>>

FoundScattered ==
  /\ Checking
  /\ i < CheckedBlocks
  /\ blockIndices[FirstBlock + i] # expectedIndex + 1
  /\ dereferenced' = dereferenced \cup {FirstBlock + i}
  /\ m_ownedData' = FreshBuffer(m_size)
  /\ m_data' = [from |-> "owned", at |-> 0]
  /\ pc' = IF pc = "checkBlocks" THEN "copy" ELSE "read"
  /\ copied' = 0
  /\ UNCHANGED <<blockIndices, streamSize, offset, i, expectedIndex, m_size>>

FullBlockCount == m_size \div BlockSize
RemainingBytes == m_size - FullBlockCount * BlockSize

\* n bytes of the next block, to where the previous copies ended.
CopyFromBlock(n) ==
  /\ dereferenced' = dereferenced \cup {copied}
  /\ m_ownedData' = Memcpy(m_ownedData, copied * BlockSize,
                           ConvertBlockIndexToFileOffset(blockIndices[copied], BlockSize),
                           n)

\* Variant: the loop variable is not incremented.
CopyFirstBlockForever ==
  /\ pc = "copy"
  /\ copied < FullBlockCount
  /\ CopyFromBlock(BlockSize)
  /\ UNCHANGED <<blockIndices, streamSize, pc, offset, i, expectedIndex, copied,
                 m_data, m_size>>

CopyFullBlock ==
  /\ pc = "copy"
  /\ copied < FullBlockCount
  /\ CopyFromBlock(BlockSize)
  /\ copied' = copied + 1
  /\ UNCHANGED <<blockIndices, streamSize, pc, offset, i, expectedIndex,
                 m_data, m_size>>

CopyRemainder ==
  /\ pc = "copy"
  /\ copied = FullBlockCount
  /\ IF RemainingBytes # 0 THEN CopyFromBlock(RemainingBytes)
                           ELSE UNCHANGED <<dereferenced, m_ownedData>>
  /\ pc' = "done"
  /\ UNCHANGED <<blockIndices, streamSize, offset, i, expectedIndex, copied,
                 m_data, m_size>>

\* directStream.ReadAtOffset(m_ownedData, size, offset)
ReadThroughDirectStream ==
  /\ pc = "read"
  /\ m_ownedData' = Slice(blockIndices, offset, m_size)
  /\ pc' = "done"
  /\ UNCHANGED <<blockIndices, streamSize, offset, i, expectedIndex, copied,
                 dereferenced, m_data, m_size>>

\* The destructor; the next object is made from the same stream.
Destroy ==
  /\ pc = "done"
  /\ pc' = "none"
  /\ offset' = 0 /\ i' = 0 /\ expectedIndex' = 0 /\ copied' = 0
  /\ dereferenced' = {}
  /\ m_ownedData' = nullptr /\ m_data' = Nowhere /\ m_size' = 0
  /\ UNCHANGED <<blockIndices, streamSize>>

\* The steps of a constructor that is under way.
Step == \/ CompareNextIndex \/ PointIntoFile \/ FoundScattered
        \/ CopyFullBlock \/ CopyRemainder \/ ReadThroughDirectStream

Next ==
  \/ \E size \in 0 .. streamSize : ConstructFromBlocks(size)
  \/ \E size, o \in 0 .. streamSize : ConstructFromDirect(size, o)
  \/ Step
  \/ Destroy

Spec == Init /\ [][Next]_vars

FairSpec == Spec /\ WF_vars(Step)

-----------------------------------------------------------------------------

\* *GetDataAtOffset<Byte>(k): the file byte a reader of the stream finds.
GetDataAtOffset(k) ==
  IF m_data.from = "file" THEN m_data.at + k ELSE m_ownedData[m_data.at + k]

TypeOK ==
  /\ blockIndices \in [0 .. DirectoryWords -> Nat]
  /\ streamSize \in Nat
  /\ ConvertSizeToBlockCount(streamSize, BlockSize) <= DirectoryWords
  /\ pc \in {"none", "checkBlocks", "checkDirect", "copy", "read", "done"}
  /\ offset \in Nat /\ m_size \in Nat /\ offset + m_size <= streamSize
  /\ i \in Nat /\ expectedIndex \in Nat /\ copied \in Nat
  /\ dereferenced \subseteq Nat
  /\ m_data \in [from : {"null", "file", "owned"}, at : Nat]

\* The whole point of the class: once constructed, by either constructor and on
\* either path, byte k of the contiguous data is byte offset + k of the stream,
\* and an owned array is neither overrun nor left partly unwritten.
ContiguousViewIsSlice ==
  pc = "done" =>
    /\ \A k \in 0 .. (m_size - 1) :
          GetDataAtOffset(k) = DataOffset(blockIndices, offset + k)
    /\ m_data.from = "owned" => DOMAIN m_ownedData = 0 .. (m_size - 1)

\* Neither the contiguity check nor the copies look at block indices behind those
\* of the stream, except that the first index is looked up even for no bytes.
OwnIndicesOnly ==
  m_size > 0 =>
    dereferenced \subseteq 0 .. (ConvertSizeToBlockCount(streamSize, BlockSize) - 1)

\* Every construction ends.
ConstructionEnds == Checking ~> pc = "done"
=============================================================================
