----------------------- MODULE DirectMSFStreamProofs -----------------------
(***************************************************************************)
(* ReadAtOffset copies the right bytes, from the stream's own blocks, for  *)
(* every block size, stream, size, offset and number of threads.           *)
(***************************************************************************)
EXTENDS DirectMSFStream, TLAPS

-----------------------------------------------------------------------------
(* Blocks and offsets, for every block size.                               *)

\* An offset is a block and an offset within it, and this pair is unique: what
\* the shift and the mask of ReadAtOffset rely on.
LEMMA OffsetSplits ==
  ASSUME NEW B \in Nat \ {0}, NEW o \in Nat
  PROVE  /\ BlockOf(o, B) \in Nat
         /\ OffsetWithinBlock(o, B) \in 0 .. (B - 1)
         /\ o = BlockOf(o, B) * B + OffsetWithinBlock(o, B)
  BY DEF BlockOf, OffsetWithinBlock

\* The pair is unique.
LEMMA SplitIsUnique ==
  ASSUME NEW B \in Nat \ {0}, NEW q \in Nat, NEW r \in 0 .. (B - 1)
  PROVE  BlockOf(q * B + r, B) = q /\ OffsetWithinBlock(q * B + r, B) = r
  BY DEF BlockOf, OffsetWithinBlock

\* Walking k bytes on from an offset stays in its block while they fit.
LEMMA SameBlock ==
  ASSUME NEW B \in Nat \ {0}, NEW o \in Nat, NEW k \in Nat,
         OffsetWithinBlock(o, B) + k < B
  PROVE  /\ BlockOf(o + k, B) = BlockOf(o, B)
         /\ OffsetWithinBlock(o + k, B) = OffsetWithinBlock(o, B) + k
<1> DEFINE q == BlockOf(o, B)
           r == OffsetWithinBlock(o, B)
<1>1. q \in Nat /\ r \in 0 .. (B - 1) /\ o = q * B + r  BY OffsetSplits
<1>2. r + k \in 0 .. (B - 1) /\ o + k = q * B + (r + k)  BY <1>1
<1>3. BlockOf(q * B + (r + k), B) = q /\ OffsetWithinBlock(q * B + (r + k), B) = r + k
  BY <1>1, <1>2, SplitIsUnique
<1> QED  BY <1>2, <1>3

\* What is left of a block ends where the next block starts.
LEMMA NextBoundary ==
  ASSUME NEW B \in Nat \ {0}, NEW o \in Nat
  PROVE  o + (B - OffsetWithinBlock(o, B)) = (BlockOf(o, B) + 1) * B
<1> DEFINE q == BlockOf(o, B)
           r == OffsetWithinBlock(o, B)
<1>1. q \in Nat /\ r \in 0 .. (B - 1) /\ o = q * B + r  BY OffsetSplits
<1>2. (q + 1) * B = q * B + B  BY <1>1
<1>3. q * B \in Nat  BY <1>1
<1> HIDE DEF q, r
<1>4. o + (B - r) = (q + 1) * B  BY <1>1, <1>2, <1>3
<1> QED  BY <1>4 DEF q, r

\* The ceiling of ConvertSizeToBlockCount holds the size and wastes less than
\* one block.
LEMMA BlockCountIsCeiling ==
  ASSUME NEW B \in Nat \ {0}, NEW n \in Nat
  PROVE  /\ ConvertSizeToBlockCount(n, B) \in Nat
         /\ n <= ConvertSizeToBlockCount(n, B) * B
         /\ ConvertSizeToBlockCount(n, B) * B < n + B
  BY DEF ConvertSizeToBlockCount

\* Every byte of a stream lies in one of its blocks.
LEMMA BlockWithinCount ==
  ASSUME NEW B \in Nat \ {0}, NEW n \in Nat, NEW o \in Nat, o < n
  PROVE  BlockOf(o, B) < ConvertSizeToBlockCount(n, B)
<1> DEFINE q == BlockOf(o, B)
           c == ConvertSizeToBlockCount(n, B)
<1>1. q \in Nat /\ q * B <= o  BY OffsetSplits
<1>2. c \in Nat /\ n <= c * B  BY BlockCountIsCeiling
<1>3. q * B < c * B  BY <1>1, <1>2
<1>4. ~ (c <= q)
  <2>1. SUFFICES ASSUME c <= q PROVE FALSE  OBVIOUS
  <2>2. c * B <= q * B  BY <2>1, <1>1, <1>2
  <2> QED  BY <2>2, <1>1, <1>2, <1>3
<1> QED  BY <1>1, <1>2, <1>4

-----------------------------------------------------------------------------

\* Where the loop stands: while bytes are left to read, the next byte to read
\* is the first one of the block after blockIndex.
LoopPosition ==
  \A r \in Readers :
    /\ pc[r] = "first" => /\ blockIndex[r] = BlockOf(offset[r], BlockSize)
                          /\ bytesLeftToRead[r] = size[r]
    /\ pc[r] = "loop" /\ bytesLeftToRead[r] # 0 =>
         offset[r] + (size[r] - bytesLeftToRead[r]) = (blockIndex[r] + 1) * BlockSize
    /\ pc[r] \in {"idle", "done"} => bytesLeftToRead[r] = 0

\* What ReadAtOffset maintains, one thread at a time.
IInv == TypeOK /\ LoopPosition /\ PrefixWritten /\ OwnIndicesOnly

\* The buffer of r with its first n bytes filled in.
Filled(r, n) ==
  [k \in 0 .. (size[r] - 1) |->
     IF k < n THEN DataOffset(m_blockIndices, offset[r] + k) ELSE Unwritten]

\* A memcpy behind the bytes that are filled in, from where those bytes are,
\* fills in n more.
LEMMA MemcpyFillsIn ==
  ASSUME NEW r, size[r] \in Nat,
         NEW at \in Nat, NEW n \in Nat, at + n <= size[r], NEW source \in Nat,
         \A j \in 0 .. (n - 1) :
            DataOffset(m_blockIndices, offset[r] + (at + j)) = source + j
  PROVE  Memcpy(Filled(r, at), at, source, n) = Filled(r, at + n)
<1>1. DOMAIN Filled(r, at) \cup (at .. (at + n - 1)) = 0 .. (size[r] - 1)
  BY DEF Filled
<1>2. ASSUME NEW k \in 0 .. (size[r] - 1), k \in at .. (at + n - 1)
      PROVE  source + (k - at) = Filled(r, at + n)[k]
  <2>1. k - at \in 0 .. (n - 1) /\ at + (k - at) = k  BY <1>2
  <2>2. DataOffset(m_blockIndices, offset[r] + k) = source + (k - at)  BY <2>1
  <2> QED  BY <2>2, <1>2 DEF Filled
<1>3. ASSUME NEW k \in 0 .. (size[r] - 1), k \notin at .. (at + n - 1)
      PROVE  Filled(r, at)[k] = Filled(r, at + n)[k]
  BY <1>3 DEF Filled
<1>4. Memcpy(Filled(r, at), at, source, n) =
        [k \in 0 .. (size[r] - 1) |->
           IF k \in at .. (at + n - 1) THEN source + (k - at) ELSE Filled(r, at)[k]]
  BY <1>1 DEF Memcpy
<1>5. Filled(r, at + n) = [k \in 0 .. (size[r] - 1) |-> Filled(r, at + n)[k]]
  BY DEF Filled
<1> HIDE DEF Filled
<1> QED  BY <1>2, <1>3, <1>4, <1>5

\* The bytes that follow an offset in its block are consecutive in the file.
LEMMA ConsecutiveInBlock ==
  ASSUME NEW blockIndices, NEW o \in Nat, NEW k \in Nat,
         OffsetWithinBlock(o, BlockSize) + k < BlockSize
  PROVE  DataOffset(blockIndices, o + k) =
           ConvertBlockIndexToFileOffset(blockIndices[BlockOf(o, BlockSize)], BlockSize)
             + (OffsetWithinBlock(o, BlockSize) + k)
<1>1. /\ BlockOf(o + k, BlockSize) = BlockOf(o, BlockSize)
      /\ OffsetWithinBlock(o + k, BlockSize) = OffsetWithinBlock(o, BlockSize) + k
  BY SameBlock, BlockSizeAssumption
<1> QED  BY <1>1 DEF DataOffset

\* PrefixWritten holds after a step of r that fills in the right number of bytes
\* of its own buffer and leaves the other threads alone.
LEMMA PrefixStep ==
  ASSUME TypeOK, PrefixWritten, NEW r \in Readers,
         m_blockIndices' = m_blockIndices,
         NEW buffer, destination' = [destination EXCEPT ![r] = buffer],
         \A x \in Readers \ {r} : /\ size'[x] = size[x]
                                   /\ offset'[x] = offset[x]
                                   /\ bytesLeftToRead'[x] = bytesLeftToRead[x],
         NEW n \in Nat, size'[r] - bytesLeftToRead'[r] = n,
         buffer = [k \in 0 .. (size'[r] - 1) |->
                     IF k < n THEN DataOffset(m_blockIndices, offset'[r] + k)
                              ELSE Unwritten]
  PROVE  PrefixWritten'
<1> DEFINE Buffer(x) == [k \in 0 .. (size'[x] - 1) |->
                           IF k < size'[x] - bytesLeftToRead'[x]
                             THEN DataOffset(m_blockIndices, offset'[x] + k)
                             ELSE Unwritten]
<1>1. destination' = [x \in Readers |-> destination'[x]]  BY DEF PrefixWritten
<1>2. ASSUME NEW x \in Readers PROVE destination'[x] = Buffer(x)
  <2>1. CASE x = r  BY <2>1 DEF TypeOK, PrefixWritten
  <2>2. CASE x # r  BY <2>2 DEF TypeOK, PrefixWritten
  <2> QED  BY <2>1, <2>2
<1>3. destination' = [x \in Readers |-> Buffer(x)]
  <2> HIDE DEF Buffer
  <2> QED  BY <1>1, <1>2
<1>4. PrefixWritten' <=> destination' = [x \in Readers |-> Buffer(x)]
  BY DEF PrefixWritten, DataOffset
<1> QED  BY <1>3, <1>4

LEMMA InitIInv == Init => IInv
<1> SUFFICES ASSUME Init PROVE IInv  OBVIOUS
<1>1. PICK s \in Streams : m_blockIndices = s.m_blockIndices /\ m_size = s.m_size
  BY DEF Init
<1>2. TypeOK  BY <1>1, StreamsAssumption DEF Init, TypeOK, BlockCount
<1>3. LoopPosition  BY DEF Init, LoopPosition
<1>4. PrefixWritten  BY DEF Init, PrefixWritten, FreshBuffer
<1>5. OwnIndicesOnly  BY DEF Init, OwnIndicesOnly
<1> QED  BY <1>2, <1>3, <1>4, <1>5 DEF IInv

\* Entry of a call: nothing is filled in, and the first block is the stream's
\* own unless nothing is asked for.
LEMMA ReadAtOffsetStep ==
  ASSUME IInv, NEW r \in Readers, NEW s \in 0 .. m_size, NEW o \in 0 .. m_size,
         ReadAtOffset(r, s, o)
  PROVE  IInv'
<1> USE DEF ReadAtOffset
<1>1. BlockOf(o, BlockSize) \in Nat
  BY OffsetSplits, BlockSizeAssumption DEF IInv, TypeOK
<1>2. TypeOK'  BY <1>1 DEF IInv, TypeOK, BlockCount
<1>3. LoopPosition'  BY DEF IInv, TypeOK, LoopPosition
<1>4. PrefixWritten'
  <2>1. TypeOK /\ PrefixWritten /\ s \in Nat
    BY DEF IInv, TypeOK
  <2> DEFINE n == size'[r] - bytesLeftToRead'[r]
  <2>2. /\ n = 0
        /\ \A x \in Readers \ {r} : /\ size'[x] = size[x]
                                    /\ offset'[x] = offset[x]
                                    /\ bytesLeftToRead'[x] = bytesLeftToRead[x]
    BY <2>1 DEF TypeOK
  <2>3. FreshBuffer(s) = [k \in 0 .. (size'[r] - 1) |->
                            IF k < n THEN DataOffset(m_blockIndices, offset'[r] + k)
                                     ELSE Unwritten]
    BY <2>1, <2>2 DEF FreshBuffer, TypeOK
  <2>4. size'[r] - bytesLeftToRead'[r] = n  OBVIOUS
  <2>5. /\ destination' = [destination EXCEPT ![r] = FreshBuffer(s)]
        /\ m_blockIndices' = m_blockIndices /\ n \in Nat
    BY <2>2
  <2> HIDE DEF n, ReadAtOffset
  <2> QED  BY <2>1, <2>2, <2>3, <2>4, <2>5, PrefixStep
<1>5. OwnIndicesOnly'
  <2>1. s > 0 => BlockOf(o, BlockSize) < BlockCount
    BY BlockWithinCount, BlockSizeAssumption DEF IInv, TypeOK, BlockCount
  <2>2. BlockCount \in Nat
    BY BlockCountIsCeiling, BlockSizeAssumption DEF IInv, TypeOK, BlockCount
  <2> SUFFICES ASSUME NEW x \in Readers, size'[x] > 0
               PROVE  dereferenced'[x] \subseteq 0 .. (BlockCount - 1)
    BY DEF OwnIndicesOnly, BlockCount
  <2>3. CASE x = r
    <3>1. dereferenced'[r] = {BlockOf(o, BlockSize)} /\ size'[r] = s
      BY DEF IInv, TypeOK, OwnIndicesOnly
    <3> QED  BY <1>1, <2>1, <2>2, <2>3, <3>1
  <2>4. CASE x # r  BY <2>4 DEF IInv, TypeOK, OwnIndicesOnly
  <2> QED  BY <2>3, <2>4
<1> QED  BY <1>2, <1>3, <1>4, <1>5 DEF IInv

\* The byte at an offset below the size of the stream is in one of its own
\* blocks, whose index the directory holds.
LEMMA OwnBlock ==
  ASSUME TypeOK, NEW o \in Nat, o < m_size
  PROVE  /\ BlockOf(o, BlockSize) \in 0 .. (BlockCount - 1)
         /\ BlockCount \in Nat
         /\ BlockOf(o, BlockSize) \in 0 .. DirectoryWords
         /\ m_blockIndices[BlockOf(o, BlockSize)] \in Nat
<1>1. m_size \in Nat /\ BlockCount <= DirectoryWords  BY DEF TypeOK
<1>2. BlockOf(o, BlockSize) < BlockCount /\ BlockCount \in Nat
  BY <1>1, BlockWithinCount, BlockCountIsCeiling, BlockSizeAssumption DEF BlockCount
<1>3. BlockOf(o, BlockSize) \in Nat  BY OffsetSplits, BlockSizeAssumption
<1>4. BlockOf(o, BlockSize) \in 0 .. DirectoryWords
  BY <1>1, <1>2, <1>3, DirectoryAssumption
<1> QED  BY <1>2, <1>3, <1>4 DEF TypeOK

\* What the buffer holds, by PrefixWritten.
LEMMA BufferIsFilled ==
  ASSUME TypeOK, PrefixWritten, NEW r \in Readers
  PROVE  destination[r] = Filled(r, size[r] - bytesLeftToRead[r])
  BY DEF PrefixWritten, Filled

\* The first memcpy takes n bytes from the first block, n no more than are left
\* in it: the offset computed at entry is that of the first byte asked for.
LEMMA FirstBlockFillsIn ==
  ASSUME IInv, NEW r \in Readers, pc[r] = "first",
         NEW n \in Nat, n <= size[r], n <= BytesLeftInBlock(r)
  PROVE  Memcpy(destination[r], 0,
                BlockStart(r) + OffsetWithinBlock(offset[r], BlockSize), n)
           = Filled(r, n)
<1> DEFINE within == OffsetWithinBlock(offset[r], BlockSize)
           source == BlockStart(r) + within
<1>1. /\ offset[r] \in Nat /\ size[r] \in Nat /\ m_size \in Nat
      /\ offset[r] + size[r] <= m_size
      /\ blockIndex[r] = BlockOf(offset[r], BlockSize)
      /\ bytesLeftToRead[r] = size[r]
  BY DEF IInv, TypeOK, LoopPosition
<1>2. destination[r] = Filled(r, 0)
  <2>1. size[r] - bytesLeftToRead[r] = 0  BY <1>1
  <2> QED  BY <2>1, BufferIsFilled DEF IInv
<1>3. within \in 0 .. (BlockSize - 1) /\ n <= BlockSize - within
  BY <1>1, OffsetSplits, BlockSizeAssumption DEF BytesLeftInBlock
<1>4. CASE n = 0
  BY <1>4, <1>2 DEF Memcpy, Filled
<1>5. CASE n > 0
  <2>1. BlockStart(r) \in Nat
    <3>1. m_blockIndices[blockIndex[r]] \in Nat
      BY <1>1, <1>5, OwnBlock DEF IInv
    <3> QED  BY <3>1, BlockSizeAssumption DEF BlockStart, ConvertBlockIndexToFileOffset
  <2>2. source \in Nat  BY <2>1, <1>3
  <2>3. ASSUME NEW j \in 0 .. (n - 1)
        PROVE  DataOffset(m_blockIndices, offset[r] + (0 + j)) = source + j
    <3>1. within + j < BlockSize /\ j \in Nat /\ 0 + j = j
      BY <1>3, BlockSizeAssumption
    <3>2. DataOffset(m_blockIndices, offset[r] + j) = BlockStart(r) + (within + j)
      BY <3>1, <1>1, ConsecutiveInBlock DEF BlockStart
    <3>3. BlockStart(r) + (within + j) = source + j  BY <3>1, <2>1, <1>3
    <3>4. offset[r] + (0 + j) = offset[r] + j  BY <3>1, <1>1
    <3> HIDE DEF source, within
    <3> QED  BY <3>2, <3>3, <3>4
  <2> HIDE DEF source
  <2>4. Memcpy(Filled(r, 0), 0, source, n) = Filled(r, 0 + n)
    <3>1. 0 + n <= size[r] /\ 0 \in Nat  OBVIOUS
    <3> QED  BY <3>1, <2>2, <2>3, <1>1, MemcpyFillsIn
  <2> QED  BY <2>4, <1>2 DEF source
<1> QED  BY <1>4, <1>5

\* Fast path: the whole request lies in the first block.
LEMMA CopyInOneGoStep ==
  ASSUME IInv, NEW r \in Readers, CopyInOneGo(r)
  PROVE  IInv'
<1> USE DEF CopyInOneGo
<1>1. TypeOK'  BY DEF IInv, TypeOK, BlockCount
<1>2. LoopPosition'  BY DEF IInv, TypeOK, LoopPosition
<1>3. PrefixWritten'
  <2>1. size[r] \in Nat /\ offset[r] \in Nat /\ TypeOK /\ PrefixWritten
    BY DEF IInv, TypeOK
  <2>2. size[r] <= BytesLeftInBlock(r)
    BY <2>1, OffsetSplits, BlockSizeAssumption DEF BytesLeftInBlock
  <2>3. destination' = [destination EXCEPT ![r] = Filled(r, size[r])]
    <3>1. Memcpy(destination[r], 0,
                 BlockStart(r) + OffsetWithinBlock(offset[r], BlockSize), size[r])
            = Filled(r, size[r])
      <4>1. pc[r] = "first" /\ size[r] <= size[r]  BY <2>1
      <4> QED  BY <4>1, <2>1, <2>2, FirstBlockFillsIn
    <3> QED  BY <3>1
  <2>4. /\ size' = size /\ offset' = offset /\ m_blockIndices' = m_blockIndices
        /\ size'[r] - bytesLeftToRead'[r] = size[r]
        /\ \A x \in Readers \ {r} : bytesLeftToRead'[x] = bytesLeftToRead[x]
    BY <2>1 DEF TypeOK
  <2> QED  BY <2>1, <2>3, <2>4, PrefixStep DEF Filled
<1>4. OwnIndicesOnly'  BY DEF IInv, OwnIndicesOnly, BlockCount
<1> QED  BY <1>1, <1>2, <1>3, <1>4 DEF IInv

\* Slow path: what the first block holds.  The loop starts at the block boundary.
LEMMA CopyRestOfBlockStep ==
  ASSUME IInv, NEW r \in Readers, CopyRestOfBlock(r)
  PROVE  IInv'
<1> DEFINE rest == BytesLeftInBlock(r)
<1>1. /\ size[r] \in Nat /\ offset[r] \in Nat /\ TypeOK /\ PrefixWritten
      /\ blockIndex[r] = BlockOf(offset[r], BlockSize)
      /\ pc[r] = "first"
  BY DEF IInv, TypeOK, LoopPosition, CopyRestOfBlock
<1>2. rest \in Nat /\ rest < size[r] /\ size[r] - rest \in Nat
  <2>1. OffsetWithinBlock(offset[r], BlockSize) \in 0 .. (BlockSize - 1)
    BY <1>1, OffsetSplits, BlockSizeAssumption
  <2>2. rest < size[r]  BY DEF CopyRestOfBlock
  <2> QED  BY <1>1, <2>1, <2>2, BlockSizeAssumption DEF BytesLeftInBlock
<1>3. offset[r] + rest = (blockIndex[r] + 1) * BlockSize
  BY <1>1, NextBoundary, BlockSizeAssumption DEF BytesLeftInBlock
<1>4. TypeOK'
  BY <1>2 DEF IInv, TypeOK, BlockCount, CopyRestOfBlock
<1>5. LoopPosition'
  <2>1. size[r] - (size[r] - rest) = rest  BY <1>1, <1>2
  <2>2. /\ bytesLeftToRead' = [bytesLeftToRead EXCEPT ![r] = size[r] - rest]
        /\ pc' = [pc EXCEPT ![r] = "loop"]
        /\ UNCHANGED <<size, offset, blockIndex>>
    BY DEF CopyRestOfBlock
  <2> HIDE DEF rest
  <2> QED  BY <2>1, <2>2, <1>1, <1>3 DEF IInv, TypeOK, LoopPosition
<1>6. PrefixWritten'
  <2>1. destination' = [destination EXCEPT ![r] = Filled(r, rest)]
    <3>1. Memcpy(destination[r], 0,
                 BlockStart(r) + OffsetWithinBlock(offset[r], BlockSize), rest)
            = Filled(r, rest)
      <4>1. rest <= size[r] /\ rest <= BytesLeftInBlock(r)  BY <1>1, <1>2
      <4> QED  BY <4>1, <1>1, <1>2, FirstBlockFillsIn
    <3> QED  BY <3>1 DEF CopyRestOfBlock
  <2>2. /\ size' = size /\ offset' = offset /\ m_blockIndices' = m_blockIndices
        /\ size'[r] - bytesLeftToRead'[r] = rest
        /\ \A x \in Readers \ {r} : bytesLeftToRead'[x] = bytesLeftToRead[x]
    BY <1>1, <1>2 DEF TypeOK, CopyRestOfBlock
  <2> HIDE DEF rest
  <2> QED  BY <1>1, <1>2, <2>1, <2>2, PrefixStep DEF Filled
<1>7. OwnIndicesOnly'  BY DEF IInv, OwnIndicesOnly, BlockCount, CopyRestOfBlock
<1> QED  BY <1>4, <1>5, <1>6, <1>7 DEF IInv

\* One iteration of the loop copies n bytes from the start of the next block, n
\* no more than a block and than what is left: both branches of its body.
LEMMA LoopIteration ==
  ASSUME IInv, NEW r \in Readers, pc[r] = "loop", bytesLeftToRead[r] # 0,
         NEW n \in Nat, n <= BlockSize, n <= bytesLeftToRead[r],
         n = BlockSize \/ n = bytesLeftToRead[r],
         CopyFromNextBlock(r, n)
  PROVE  IInv'
<1> DEFINE done == size[r] - bytesLeftToRead[r]
           next == blockIndex[r] + 1
           source == ConvertBlockIndexToFileOffset(m_blockIndices[next], BlockSize)
<1>1. /\ size[r] \in Nat /\ offset[r] \in Nat /\ bytesLeftToRead[r] \in Nat
      /\ blockIndex[r] \in Nat /\ m_size \in Nat
      /\ offset[r] + size[r] <= m_size /\ bytesLeftToRead[r] <= size[r]
      /\ TypeOK /\ PrefixWritten
      /\ offset[r] + done = next * BlockSize
  BY DEF IInv, TypeOK, LoopPosition
<1>2. done \in Nat /\ next \in Nat /\ done + n <= size[r] /\ offset[r] + done < m_size
  <2>1. done \in Nat /\ next \in Nat /\ done + n <= size[r] /\ done < size[r]
    BY <1>1
  <2> HIDE DEF done, next
  <2> QED  BY <2>1, <1>1
<1>3. /\ next \in 0 .. (BlockCount - 1) /\ BlockCount \in Nat
      /\ m_blockIndices[next] \in Nat
  <2>1. BlockOf(offset[r] + done, BlockSize) = next
    <3>1. 0 \in 0 .. (BlockSize - 1) /\ next * BlockSize + 0 = next * BlockSize
      BY <1>2, BlockSizeAssumption
    <3> QED  BY <3>1, <1>1, <1>2, SplitIsUnique, BlockSizeAssumption
  <2>2. offset[r] + done \in Nat  BY <1>1, <1>2
  <2> HIDE DEF done, next
  <2> QED  BY <1>1, <1>2, <2>1, <2>2, OwnBlock
<1>4. source \in Nat  BY <1>3, BlockSizeAssumption DEF ConvertBlockIndexToFileOffset
<1>5. ASSUME NEW j \in 0 .. (n - 1)
      PROVE  DataOffset(m_blockIndices, offset[r] + (done + j)) = source + j
  <2>1. j \in 0 .. (BlockSize - 1)  BY BlockSizeAssumption
  <2>2. offset[r] + (done + j) = next * BlockSize + j  BY <1>1, <1>2
  <2> HIDE DEF done, next
  <2>3. /\ BlockOf(next * BlockSize + j, BlockSize) = next
        /\ OffsetWithinBlock(next * BlockSize + j, BlockSize) = j
    BY <2>1, <1>2, SplitIsUnique, BlockSizeAssumption
  <2> QED  BY <2>2, <2>3 DEF DataOffset
<1>6. /\ bytesLeftToRead'[r] = bytesLeftToRead[r] - n
      /\ \A x \in Readers \ {r} : bytesLeftToRead'[x] = bytesLeftToRead[x]
      /\ size' = size /\ offset' = offset /\ pc' = pc
      /\ m_blockIndices' = m_blockIndices /\ m_size' = m_size
      /\ blockIndex' = [blockIndex EXCEPT ![r] = next]
      /\ dereferenced' = [dereferenced EXCEPT ![r] = @ \cup {next}]
      /\ bytesLeftToRead' = [bytesLeftToRead EXCEPT ![r] = @ - n]
      /\ destination' = [destination EXCEPT ![r] = Memcpy(@, done, source, n)]
  BY <1>1 DEF TypeOK, CopyFromNextBlock
<1>7. TypeOK'
  <2> HIDE DEF done, next, source
  <2> QED  BY <1>1, <1>2, <1>6 DEF TypeOK, BlockCount
<1>8. LoopPosition'
  <2> SUFFICES ASSUME NEW x \in Readers
               PROVE  /\ pc[x] = "first" => /\ blockIndex'[x] = BlockOf(offset[x], BlockSize)
                                             /\ bytesLeftToRead'[x] = size[x]
                      /\ pc[x] = "loop" /\ bytesLeftToRead'[x] # 0 =>
                           offset[x] + (size[x] - bytesLeftToRead'[x])
                             = (blockIndex'[x] + 1) * BlockSize
                      /\ pc[x] \in {"idle", "done"} => bytesLeftToRead'[x] = 0
    BY <1>6 DEF LoopPosition
  <2>1. CASE x = r
    <3>1. CASE n = bytesLeftToRead[r]
      <4>1. bytesLeftToRead'[r] = 0  BY <3>1, <1>1, <1>6
      <4> QED  BY <2>1, <4>1
    <3>2. CASE n = BlockSize
      <4>1. size[r] - bytesLeftToRead'[r] = done + BlockSize  BY <3>2, <1>1, <1>6
      <4>2. blockIndex'[r] = next  BY <1>1, <1>6 DEF TypeOK
      <4>3. offset[r] + (done + BlockSize) = (next + 1) * BlockSize
        <5>1. (next + 1) * BlockSize = next * BlockSize + BlockSize
          BY <1>2, BlockSizeAssumption
        <5>2. offset[r] + (done + BlockSize) = (offset[r] + done) + BlockSize
          BY <1>1, <1>2, BlockSizeAssumption
        <5> HIDE DEF done, next
        <5> QED  BY <5>1, <5>2, <1>1
      <4> HIDE DEF done, next
      <4> QED  BY <2>1, <4>1, <4>2, <4>3
    <3> QED  BY <3>1, <3>2
  <2>2. CASE x # r
    <3>1. bytesLeftToRead'[x] = bytesLeftToRead[x] /\ blockIndex'[x] = blockIndex[x]
      BY <2>2, <1>1, <1>6 DEF TypeOK
    <3> QED  BY <3>1 DEF IInv, LoopPosition
  <2> QED  BY <2>1, <2>2
<1>9. PrefixWritten'
  <2> HIDE DEF source, next
  <2>1. destination[r] = Filled(r, done)  BY <1>1, BufferIsFilled
  <2>2. Memcpy(Filled(r, done), done, source, n) = Filled(r, done + n)
    <3> HIDE DEF done
    <3>1. \A j \in 0 .. (n - 1) :
            DataOffset(m_blockIndices, offset[r] + (done + j)) = source + j
      BY <1>5
    <3>2. size[r] \in Nat /\ done \in Nat /\ done + n <= size[r]  BY <1>1, <1>2
    <3> QED  BY <1>4, <3>1, <3>2, MemcpyFillsIn
  <2> DEFINE filled == done + n
  <2>3. destination' = [destination EXCEPT ![r] = Filled(r, filled)]
    BY <1>6, <2>1, <2>2
  <2>4. size'[r] - bytesLeftToRead'[r] = filled /\ filled \in Nat
    BY <1>1, <1>2, <1>6
  <2>5. TypeOK /\ PrefixWritten  BY <1>1
  <2>6. /\ size' = size /\ offset' = offset /\ m_blockIndices' = m_blockIndices
        /\ \A x \in Readers \ {r} : bytesLeftToRead'[x] = bytesLeftToRead[x]
    BY <1>6
  <2> HIDE DEF filled
  <2> QED  BY <2>3, <2>4, <2>5, <2>6, PrefixStep DEF Filled
<1>10. OwnIndicesOnly'
  <2> HIDE DEF next
  <2> SUFFICES ASSUME NEW x \in Readers, size[x] > 0
               PROVE  dereferenced'[x] \subseteq 0 .. (BlockCount - 1)
    BY <1>6 DEF OwnIndicesOnly, BlockCount
  <2>1. dereferenced[x] \subseteq 0 .. (BlockCount - 1)  BY DEF IInv, OwnIndicesOnly
  <2> QED  BY <1>1, <1>3, <1>6, <2>1 DEF TypeOK
<1> QED  BY <1>7, <1>8, <1>9, <1>10 DEF IInv

LEMMA ReturnStep ==
  ASSUME IInv, NEW r \in Readers, Return(r)
  PROVE  IInv'
<1> USE DEF Return
<1>1. TypeOK'  BY DEF IInv, TypeOK, BlockCount
<1>2. LoopPosition'  BY DEF IInv, TypeOK, LoopPosition
<1>3. PrefixWritten'  BY DEF IInv, PrefixWritten, DataOffset
<1>4. OwnIndicesOnly'  BY DEF IInv, OwnIndicesOnly, BlockCount
<1> QED  BY <1>1, <1>2, <1>3, <1>4 DEF IInv

LEMMA NextIInv == IInv /\ [Next]_vars => IInv'
<1> SUFFICES ASSUME IInv, [Next]_vars PROVE IInv'  OBVIOUS
<1>1. ASSUME NEW r \in Readers, NEW s \in 0 .. m_size, NEW o \in 0 .. m_size,
             ReadAtOffset(r, s, o)
      PROVE  IInv'
  BY <1>1, ReadAtOffsetStep
<1>2. ASSUME NEW r \in Readers, CopyInOneGo(r) PROVE IInv'  BY <1>2, CopyInOneGoStep
<1>3. ASSUME NEW r \in Readers, CopyRestOfBlock(r) PROVE IInv'
  BY <1>3, CopyRestOfBlockStep
<1>4. ASSUME NEW r \in Readers, CopyWholeBlock(r) PROVE IInv'
  <2>1. BlockSize <= bytesLeftToRead[r] /\ BlockSize <= BlockSize
    BY <1>4, BlockSizeAssumption DEF CopyWholeBlock, IInv, TypeOK
  <2> QED  BY <1>4, <2>1, LoopIteration, BlockSizeAssumption DEF CopyWholeBlock
<1>5. ASSUME NEW r \in Readers, CopyRemainingBytes(r) PROVE IInv'
  <2>1. bytesLeftToRead[r] \in Nat /\ bytesLeftToRead[r] <= bytesLeftToRead[r]
    BY DEF IInv, TypeOK
  <2> QED  BY <1>5, <2>1, LoopIteration DEF CopyRemainingBytes
<1>6. ASSUME NEW r \in Readers, Return(r) PROVE IInv'  BY <1>6, ReturnStep
<1>7. CASE UNCHANGED vars
  BY <1>7 DEF vars, IInv, TypeOK, LoopPosition, PrefixWritten, OwnIndicesOnly,
              BlockCount, DataOffset
<1> QED  BY <1>1, <1>2, <1>3, <1>4, <1>5, <1>6, <1>7 DEF Next, Step

-----------------------------------------------------------------------------

\* The invariant ReadAtOffset maintains, in every reachable state.
THEOREM InvariantHolds == Spec => []IInv
  BY InitIInv, NextIInv, PTL DEF Spec

\* The locals of every call stay within their bounds.
THEOREM TypeCorrect == Spec => []TypeOK
  BY InvariantHolds, PTL DEF IInv

\* Whatever the block size, the layout of the stream and the number of threads,
\* the bytes ReadAtOffset has written are a correct prefix of the answer and it
\* never writes outside the caller's buffer.
THEOREM PrefixAlwaysWritten == Spec => []PrefixWritten
  BY InvariantHolds, PTL DEF IInv

\* ReadAtOffset never looks up the block index of another stream.
THEOREM OnlyOwnIndices == Spec => []OwnIndicesOnly
  BY InvariantHolds, PTL DEF IInv

-----------------------------------------------------------------------------

\* The values that stand for MSFStream's variables.
Pending == [r \in Readers |-> pc[r] # "idle"]
Answered == [r \in Readers |-> IF pc[r] = "idle" THEN destination[r] ELSE FreshBuffer(0)]

\* A step that neither enters nor leaves ReadAtOffset is invisible to the caller.
LEMMA CopyIsInvisible ==
  ASSUME IInv, NEW r \in Readers,
         pc[r] # "idle", pc' \in [Readers -> {"idle", "first", "loop", "done"}], pc'[r] # "idle",
         \A x \in Readers \ {r} : pc'[x] = pc[x] /\ destination'[x] = destination[x],
         UNCHANGED <<m_blockIndices, m_size, size, offset>>
  PROVE  UNCHANGED MSF!vars
<1>1. Pending' = Pending  BY DEF Pending
<1>2. Answered' = Answered  BY DEF Answered
<1> QED  BY <1>1, <1>2 DEF MSF!vars, Pending, Answered

\* A call that returns leaves the answer the abstract stream gives in one step.
LEMMA ReturnAnswers ==
  ASSUME IInv, NEW r \in Readers, Return(r)
  PROVE  MSF!Answer(r)
<1>1. pc[r] # "idle" /\ bytesLeftToRead[r] = 0 /\ size[r] \in Nat
      /\ pc \in [Readers -> {"idle", "first", "loop", "done"}]
  BY DEF IInv, TypeOK, LoopPosition, Return
<1>2. destination[r] = Slice(m_blockIndices, offset[r], size[r])
  <2>1. size[r] - bytesLeftToRead[r] = size[r]  BY <1>1
  <2>2. destination[r] = Filled(r, size[r])  BY <2>1, BufferIsFilled DEF IInv
  <2> QED  BY <1>1, <2>2 DEF Filled, Slice
<1>3. Pending' = [Pending EXCEPT ![r] = FALSE]
  BY <1>1 DEF Pending, Return
<1>4. Answered' = [Answered EXCEPT ![r] = Slice(m_blockIndices, offset[r], size[r])]
  BY <1>1, <1>2 DEF Answered, Return
<1>5. MSF!Slice(m_blockIndices, offset[r], size[r])
        = Slice(m_blockIndices, offset[r], size[r])
  BY DEF MSF!Slice, Slice, MSF!DataOffset, DataOffset, MSF!BlockOf, BlockOf,
         MSF!OffsetWithinBlock, OffsetWithinBlock,
         MSF!ConvertBlockIndexToFileOffset, ConvertBlockIndexToFileOffset
<1>6. pc[r] # "idle" /\ UNCHANGED <<m_blockIndices, m_size, size, offset>>
  BY <1>1 DEF Return
<1> QED  BY <1>3, <1>4, <1>5, <1>6 DEF MSF!Answer, Pending, Answered

\* Entering ReadAtOffset is asking.
LEMMA CallAsks ==
  ASSUME IInv, NEW r \in Readers, NEW s \in 0 .. m_size, NEW o \in 0 .. m_size,
         ReadAtOffset(r, s, o)
  PROVE  MSF!Ask(r, s, o)
<1>1. pc \in [Readers -> {"idle", "first", "loop", "done"}] /\ pc' = [pc EXCEPT ![r] = "first"] /\ pc[r] = "idle"
  BY DEF IInv, TypeOK, ReadAtOffset
<1>2. Pending' = [Pending EXCEPT ![r] = TRUE]  BY <1>1 DEF Pending
<1>3. Answered' = [Answered EXCEPT ![r] = FreshBuffer(0)]
  BY <1>1 DEF Answered, ReadAtOffset, IInv, PrefixWritten
<1> QED  BY <1>1, <1>2, <1>3 DEF MSF!Ask, Pending, Answered, ReadAtOffset,
            MSF!FreshBuffer, FreshBuffer, MSF!Unwritten, Unwritten

LEMMA InitMapsToInit == Init => MSF!Init
<1> SUFFICES ASSUME Init PROVE MSF!Init  OBVIOUS
<1>1. Pending = [r \in Readers |-> FALSE]  BY DEF Init, Pending
<1>2. Answered = [r \in Readers |-> FreshBuffer(0)]  BY DEF Init, Answered
<1> QED  BY <1>1, <1>2 DEF Init, MSF!Init, Pending, Answered, MSF!FreshBuffer, FreshBuffer, MSF!Unwritten, Unwritten

LEMMA StepMapsToStep == IInv /\ [Next]_vars => [MSF!Next]_(MSF!vars)
<1> SUFFICES ASSUME IInv, [Next]_vars PROVE MSF!Next \/ UNCHANGED MSF!vars  OBVIOUS
<1>1. ASSUME NEW r \in Readers, NEW s \in 0 .. m_size, NEW o \in 0 .. m_size,
             ReadAtOffset(r, s, o)
      PROVE  MSF!Next
  BY <1>1, CallAsks DEF MSF!Next
<1>2. ASSUME NEW r \in Readers,
             CopyInOneGo(r) \/ CopyRestOfBlock(r) \/ CopyWholeBlock(r) \/ CopyRemainingBytes(r)
      PROVE  UNCHANGED MSF!vars
  <2>1. /\ pc[r] # "idle" /\ pc' \in [Readers -> {"idle", "first", "loop", "done"}] /\ pc'[r] # "idle"
        /\ \A x \in Readers \ {r} : pc'[x] = pc[x]
    BY <1>2 DEF IInv, TypeOK, CopyInOneGo, CopyRestOfBlock, CopyWholeBlock,
                CopyRemainingBytes, CopyFromNextBlock
  <2>2. \A x \in Readers \ {r} : destination'[x] = destination[x]
    BY <1>2 DEF IInv, PrefixWritten, CopyInOneGo, CopyRestOfBlock, CopyWholeBlock,
                CopyRemainingBytes, CopyFromNextBlock
  <2>3. UNCHANGED <<m_blockIndices, m_size, size, offset>>
    BY <1>2 DEF CopyInOneGo, CopyRestOfBlock, CopyWholeBlock, CopyRemainingBytes,
                CopyFromNextBlock
  <2> QED  BY <2>1, <2>2, <2>3, CopyIsInvisible
<1>3. ASSUME NEW r \in Readers, Return(r) PROVE MSF!Next
  BY <1>3, ReturnAnswers DEF MSF!Next
<1>4. CASE UNCHANGED vars
  <2>1. Pending' = Pending /\ Answered' = Answered  BY <1>4 DEF vars, Pending, Answered
  <2> QED  BY <1>4, <2>1 DEF vars, MSF!vars, Pending, Answered
<1> QED  BY <1>1, <1>2, <1>3, <1>4 DEF Next, Step

\* The block-by-block reads of any number of threads implement the abstract
\* stream, whose reads are answered in a single step.
THEOREM ReadsAreAtomic == Spec => ImplementsMSFStream
<1>1. Init => MSF!Init  BY InitMapsToInit
<1>2. IInv /\ [Next]_vars => [MSF!Next]_(MSF!vars)  BY StepMapsToStep
<1>3. Spec => []IInv  BY InvariantHolds
<1> QED  BY <1>1, <1>2, <1>3, PTL DEF Spec, MSF!Spec, ImplementsMSFStream
=============================================================================
