-------------------------- MODULE DirectMSFStream --------------------------
(***************************************************************************)
(* PDB_DirectMSFStream: reads that walk the scattered blocks of a stream.  *)
(* The object never changes after its construction; every call of          *)
(* ReadAtOffset keeps its locals on the stack of its thread and performs   *)
(* one memcpy per step, so calls of several threads interleave at the      *)
(* granularity of the copies.                                              *)
(***************************************************************************)
EXTENDS MSFLayout

CONSTANT Readers                 \* threads that read the stream

VARIABLES m_blockIndices, m_size,  \* the stream object, shared by all threads
          pc,                      \* per thread: where its ReadAtOffset stands
          size, offset,            \* its arguments
          blockIndex,              \* its locals
          bytesLeftToRead,
          destination,             \* the caller's buffer
          dereferenced             \* positions of m_blockIndices it has read

vars == <<m_blockIndices, m_size, pc, size, offset, blockIndex,
          bytesLeftToRead, destination, dereferenced>>

MSF == INSTANCE MSFStream WITH pending <- [r \in Readers |-> pc[r] # "idle"],
                               answer <- [r \in Readers |->
                                            IF pc[r] = "idle" THEN destination[r]
                                                              ELSE FreshBuffer(0)]

BlockCount == ConvertSizeToBlockCount(m_size, BlockSize)

Init ==
  /\ \E s \in Streams : m_blockIndices = s.m_blockIndices /\ m_size = s.m_size
  /\ pc = [r \in Readers |-> "idle"]
  /\ size = [r \in Readers |-> 0]
  /\ offset = [r \in Readers |-> 0]
  /\ blockIndex = [r \in Readers |-> 0]
  /\ bytesLeftToRead = [r \in Readers |-> 0]
  /\ destination = [r \in Readers |-> FreshBuffer(0)]
  /\ dereferenced = [r \in Readers |-> {}]

\* Variant: the position of a block in the stream taken for its position in the file.
StartOfIndex(r) == ConvertBlockIndexToFileOffset(blockIndex[r], BlockSize)

\* Where the current block of r starts in the file.
BlockStart(r) == ConvertBlockIndexToFileOffset(m_blockIndices[blockIndex[r]], BlockSize)

BytesLeftInBlock(r) == BlockSize - OffsetWithinBlock(offset[r], BlockSize)

\* Entry of ReadAtOffset: the assertion, and the lookup of the first block.
ReadAtOffset(r, s, o) ==
  /\ pc[r] = "idle"
  /\ o + s <= m_size
  /\ pc' = [pc EXCEPT ![r] = "first"]
  /\ size' = [size EXCEPT ![r] = s]
  /\ offset' = [offset EXCEPT ![r] = o]
  /\ blockIndex' = [blockIndex EXCEPT ![r] = BlockOf(o, BlockSize)]
  /\ bytesLeftToRead' = [bytesLeftToRead EXCEPT ![r] = s]
  /\ destination' = [destination EXCEPT ![r] = FreshBuffer(s)]
  /\ dereferenced' = [dereferenced EXCEPT ![r] = {BlockOf(o, BlockSize)}]
  /\ UNCHANGED <<m_blockIndices, m_size>>

\* Fast path: everything lies in the first block.
CopyInOneGo(r) ==
  /\ pc[r] = "first"
  /\ BytesLeftInBlock(r) >= size[r]
  /\ destination' = [destination EXCEPT ![r] =
       Memcpy(@, 0, BlockStart(r) + OffsetWithinBlock(offset[r], BlockSize), size[r])]
  /\ pc' = [pc EXCEPT ![r] = "done"]
  /\ bytesLeftToRead' = [bytesLeftToRead EXCEPT ![r] = 0]
  /\ UNCHANGED <<m_blockIndices, m_size, size, offset, blockIndex, dereferenced>>

\* Slow path: the rest of the first block.
CopyRestOfBlock(r) ==
  /\ pc[r] = "first"
  /\ BytesLeftInBlock(r) < size[r]
  /\ destination' = [destination EXCEPT ![r] =
       Memcpy(@, 0, BlockStart(r) + OffsetWithinBlock(offset[r], BlockSize),
              BytesLeftInBlock(r))]
  /\ bytesLeftToRead' = [bytesLeftToRead EXCEPT ![r] = size[r] - BytesLeftInBlock(r)]
  /\ pc' = [pc EXCEPT ![r] = "loop"]
  /\ UNCHANGED <<m_blockIndices, m_size, size, offset, blockIndex, dereferenced>>

\* Variant: blockIndex is a member of the stream instead of a local.
CopyWithSharedIndex(r, n) ==
  /\ blockIndex' = [q \in Readers |-> blockIndex[r] + 1]
  /\ dereferenced' = [dereferenced EXCEPT ![r] = @ \cup {blockIndex[r] + 1}]
  /\ destination' = [destination EXCEPT ![r] =
       Memcpy(@, size[r] - bytesLeftToRead[r],
              ConvertBlockIndexToFileOffset(m_blockIndices[blockIndex[r] + 1], BlockSize),
              n)]
  /\ bytesLeftToRead' = [bytesLeftToRead EXCEPT ![r] = @ - n]
  /\ UNCHANGED <<m_blockIndices, m_size, pc, size, offset>>

\* One iteration of the loop over the following blocks copies n bytes from the
\* start of the next block.
CopyFromNextBlock(r, n) ==
  /\ blockIndex' = [blockIndex EXCEPT ![r] = @ + 1]
  /\ dereferenced' = [dereferenced EXCEPT ![r] = @ \cup {blockIndex[r] + 1}]
  /\ destination' = [destination EXCEPT ![r] =
       Memcpy(@, size[r] - bytesLeftToRead[r],
              ConvertBlockIndexToFileOffset(m_blockIndices[blockIndex[r] + 1], BlockSize),
              n)]
  /\ bytesLeftToRead' = [bytesLeftToRead EXCEPT ![r] = @ - n]
  /\ UNCHANGED <<m_blockIndices, m_size, pc, size, offset>>

\* Variant: an iteration that forgets to move on.
CopyWholeBlockAgain(r) ==
  /\ pc[r] = "loop"
  /\ bytesLeftToRead[r] > BlockSize
  /\ destination' = [destination EXCEPT ![r] =
       Memcpy(@, size[r] - bytesLeftToRead[r],
              ConvertBlockIndexToFileOffset(m_blockIndices[blockIndex[r] + 1], BlockSize),
              BlockSize)]
  /\ UNCHANGED <<m_blockIndices, m_size, pc, size, offset, blockIndex,
                 bytesLeftToRead, dereferenced>>

CopyWholeBlock(r) ==
  /\ pc[r] = "loop"
  /\ bytesLeftToRead[r] # 0
  /\ bytesLeftToRead[r] > BlockSize
  /\ CopyFromNextBlock(r, BlockSize)

\* Variant: a loop that tests its condition only after the copy.
CopyBeforeTesting(r) ==
  /\ pc[r] = "loop"
  /\ bytesLeftToRead[r] <= BlockSize
  /\ CopyFromNextBlock(r, bytesLeftToRead[r])

CopyRemainingBytes(r) ==
  /\ pc[r] = "loop"
  /\ bytesLeftToRead[r] # 0
  /\ bytesLeftToRead[r] <= BlockSize
  /\ CopyFromNextBlock(r, bytesLeftToRead[r])

Return(r) ==
  /\ pc[r] = "done" \/ (pc[r] = "loop" /\ bytesLeftToRead[r] = 0)
  /\ pc' = [pc EXCEPT ![r] = "idle"]
  /\ UNCHANGED <<m_blockIndices, m_size, size, offset, blockIndex,
                 bytesLeftToRead, destination, dereferenced>>

\* The steps of a call that is under way.
Step(r) == \/ CopyInOneGo(r)
           \/ CopyRestOfBlock(r)
           \/ CopyWholeBlock(r)
           \/ CopyRemainingBytes(r)
           \/ Return(r)

Next == \E r \in Readers :
          \/ \E s, o \in 0 .. m_size : ReadAtOffset(r, s, o)
          \/ Step(r)

Spec == Init /\ [][Next]_vars

\* A thread inside ReadAtOffset keeps running: the function takes no lock and
\* waits for nothing.
FairSpec == Spec /\ \A r \in Readers : WF_vars(Step(r))

-----------------------------------------------------------------------------

TypeOK ==
  /\ m_size \in Nat
  /\ m_blockIndices \in [0 .. DirectoryWords -> Nat]
  /\ BlockCount <= DirectoryWords
  /\ pc \in [Readers -> {"idle", "first", "loop", "done"}]
  /\ size \in [Readers -> Nat]
  /\ offset \in [Readers -> Nat]
  /\ blockIndex \in [Readers -> Nat]
  /\ bytesLeftToRead \in [Readers -> Nat]
  /\ dereferenced \in [Readers -> SUBSET Nat]
  /\ \A r \in Readers : /\ offset[r] + size[r] <= m_size
                        /\ bytesLeftToRead[r] <= size[r]

\* The bytes written so far are a prefix of the answer: at every moment of a
\* call, with other calls under way, the first size - bytesLeftToRead bytes of
\* the buffer are the right ones, nothing behind them has been touched, and
\* the buffer is never overrun (the memcpy arithmetic of ReadAtOffset).
PrefixWritten ==
  destination =
    [r \in Readers |->
       [k \in 0 .. (size[r] - 1) |->
          IF k < size[r] - bytesLeftToRead[r]
            THEN DataOffset(m_blockIndices, offset[r] + k)
            ELSE Unwritten]]

\* The call only looks up block indices of its own stream, never the words of
\* the directory that belong to the next stream, however the range it reads
\* falls on the block boundaries.  A read of no bytes at the very end of a
\* stream that fills its last block is the exception the code makes: it looks
\* up one index too many and uses it for a copy of zero bytes.
OwnIndicesOnly ==
  \A r \in Readers : size[r] > 0 => dereferenced[r] \subseteq 0 .. (BlockCount - 1)

\* Reading is the atomic read an MSF stream promises: the loop over blocks, with
\* the loops of other threads interleaved, implements MSFStream.
ImplementsMSFStream == MSF!Spec

\* Every call returns: bytesLeftToRead reaches zero for every size and offset.
EveryReadReturns == \A r \in Readers : pc[r] # "idle" ~> pc[r] = "idle"
=============================================================================
