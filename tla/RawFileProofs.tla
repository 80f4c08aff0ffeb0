--------------------------- MODULE RawFileProofs ---------------------------
(***************************************************************************)
(* A RawFile.  The walk over the stream directory finds every stream's     *)
(* block indices, for every well-formed file: any number of streams, sizes *)
(* and placement.  The memory behind the object has one owner and borrowed *)
(* streams follow it, for any number of variables, addresses and streams.  *)
(***************************************************************************)
EXTENDS RawFile, Lifetimes, TLAPS

-----------------------------------------------------------------------------
(* Blocks and offsets, for every block size.                               *)

\* The ceiling of ConvertSizeToBlockCount holds the size and wastes less than
\* one block.
LEMMA BlockCountIsCeiling ==
  ASSUME NEW B \in Nat \ {0}, NEW n \in Nat
  PROVE  /\ ConvertSizeToBlockCount(n, B) \in Nat
         /\ n <= ConvertSizeToBlockCount(n, B) * B
         /\ ConvertSizeToBlockCount(n, B) * B < n + B
  BY DEF ConvertSizeToBlockCount

\* A smaller size never needs more blocks.
LEMMA BlockCountIsMonotonic ==
  ASSUME NEW B \in Nat \ {0}, NEW m \in Nat, NEW n \in Nat, m <= n
  PROVE  ConvertSizeToBlockCount(m, B) <= ConvertSizeToBlockCount(n, B)
<1>1. CASE m = n  BY <1>1, BlockCountIsCeiling
<1>2. CASE m < n
  <2> DEFINE c == ConvertSizeToBlockCount(m, B)
             d == ConvertSizeToBlockCount(n, B)
  <2>1. c \in Nat /\ d \in Nat /\ c * B < m + B /\ n <= d * B  BY BlockCountIsCeiling
  <2>2. SUFFICES ASSUME d < c PROVE FALSE  BY <2>1
  <2>3. (d + 1) * B <= c * B  BY <2>1, <2>2
  <2>4. (d + 1) * B = d * B + B  BY <2>1
  <2>5. d * B \in Nat /\ c * B \in Nat  BY <2>1
  <2> HIDE DEF c, d
  <2> QED  BY <1>2, <2>1, <2>3, <2>4, <2>5
<1> QED  BY <1>1, <1>2

\* Every byte of a stream lies in one of its blocks.
LEMMA BlockWithinCount ==
  ASSUME NEW B \in Nat \ {0}, NEW n \in Nat, NEW o \in Nat, o < n
  PROVE  BlockOf(o, B) \in 0 .. (ConvertSizeToBlockCount(n, B) - 1)
<1> DEFINE q == BlockOf(o, B)
           c == ConvertSizeToBlockCount(n, B)
<1>1. q \in Nat /\ q * B <= o  BY DEF BlockOf
<1>2. c \in Nat /\ n <= c * B  BY BlockCountIsCeiling
<1>3. SUFFICES ASSUME c <= q PROVE FALSE  BY <1>1, <1>2
<1>4. c * B <= q * B  BY <1>1, <1>2, <1>3
<1>5. q * B \in Nat /\ c * B \in Nat  BY <1>1, <1>2
<1> HIDE DEF q, c
<1> QED  BY <1>1, <1>2, <1>4, <1>5

-----------------------------------------------------------------------------

\* What each stage of the constructor has found.
Stages ==
  /\ file \in Files
  /\ pc = "directory" =>
       directoryIndices = CoalescedWords(file.words, file.directoryBlockIndices,
                            ConvertSizeToBlockCount(file.directorySize, BlockSize))
  /\ pc \in {"header", "streams", "ready"} => m_directoryStream = file.directory
  /\ pc \in {"indices", "directory", "header"} => i = 0 /\ m_streamCount = 0
  /\ pc = "ready" => i = m_streamCount

\* The pointers found so far lie behind the sizes.
Pointers ==
  /\ pc \in {"streams", "ready"} => indicesForCurrentBlock >= 1 + m_streamCount
  /\ \A k \in 0 .. (i - 1) : m_streamBlocks[k] \in Nat /\ m_streamBlocks[k] >= 1 + m_streamCount

\* The stream handed out last is one of those found, and no longer.
HandedOut ==
  stream # NoStream =>
    /\ stream.blocks = m_streamBlocks[stream.index]
    /\ stream.size <= GetStreamSize(stream.index)

\* No two streams share a word of the directory, streams of size zero and nil
\* streams included: the running pointer only moves forward, by the number of
\* blocks of the stream just recorded.
StreamsAreDisjoint ==
  \A b \in 0 .. (i - 1) : \A a \in 0 .. (b - 1) :
    m_streamBlocks[a] + BlockCountOf(a) <= m_streamBlocks[b]

IInv == /\ TypeOK /\ Stages /\ Pointers /\ HandedOut
        /\ DirectoryRoundTrip /\ StreamsAreDisjoint

\* The sizes recorded in the directory are there, and need a number of blocks.
LEMMA SizesTyped ==
  ASSUME file \in Files, m_directoryStream = file.directory,
         NEW k \in 0 .. (file.count - 1)
  PROVE  GetStreamSize(k) \in Nat /\ BlockCountOf(k) \in Nat
<1>1. /\ file.count \in Nat /\ file.start[file.count] \in Nat
      /\ file.start[file.count] > file.count
      /\ file.directory \in [0 .. (file.start[file.count] - 1) -> Nat]
  BY FilesAssumption
<1>2. 1 + k \in 0 .. (file.start[file.count] - 1)  BY <1>1
<1>3. GetStreamSize(k) \in Nat  BY <1>1, <1>2 DEF GetStreamSize, SizeOf
<1> QED  BY <1>3, BlockCountIsCeiling, BlockSizeAssumption DEF BlockCountOf

LEMMA InitIInv == Init => IInv
  BY DEF Init, IInv, TypeOK, Stages, Pointers, HandedOut, DirectoryRoundTrip,
         StreamsAreDisjoint, NoStream, NoWords

LEMMA CoalesceDirectoryIndicesStep ==
  ASSUME IInv, CoalesceDirectoryIndices
  PROVE  IInv'
  BY DEF CoalesceDirectoryIndices, IInv, TypeOK, Stages, Pointers, HandedOut,
         DirectoryRoundTrip, StreamsAreDisjoint, BlockCountOf, GetStreamSize

\* directorySize is that of the directory: every word of it is coalesced.
LEMMA CoalesceDirectoryStep ==
  ASSUME IInv, CoalesceDirectory
  PROVE  IInv'
<1>1. m_directoryStream' = file.directory
  <2>1. file \in Files /\ file.start[file.count] \in Nat
        /\ file.directorySize = file.start[file.count] * SizeOfUInt32
    BY FilesAssumption DEF IInv, Stages
  <2>2. file.directorySize \div SizeOfUInt32 = file.start[file.count]
    BY <2>1 DEF SizeOfUInt32
  <2> QED  BY <2>1, <2>2, FilesAssumption DEF IInv, Stages, CoalesceDirectory
<1> QED  BY <1>1 DEF CoalesceDirectory, IInv, TypeOK, Stages, Pointers, HandedOut,
            DirectoryRoundTrip, StreamsAreDisjoint

LEMMA ReadStreamCountStep ==
  ASSUME IInv, ReadStreamCount
  PROVE  IInv'
<1> USE DEF ReadStreamCount
<1>1. /\ file \in Files /\ m_directoryStream = file.directory
      /\ m_directoryStream[0] = file.count /\ file.count \in Nat
      /\ file.start[0] = 1 + file.count
  BY FilesAssumption DEF IInv, Stages
<1>2. stream = NoStream  BY DEF IInv, TypeOK
<1>3. TypeOK'  BY <1>1, <1>2 DEF TypeOK, FreshBuffer, NoStream
<1>4. Stages'  BY <1>1 DEF Stages
<1>5. Pointers' /\ HandedOut' /\ DirectoryRoundTrip' /\ StreamsAreDisjoint'
  BY <1>1, <1>2 DEF Pointers, HandedOut, DirectoryRoundTrip, StreamsAreDisjoint
<1> QED  BY <1>3, <1>4, <1>5 DEF IInv

\* The loop body: the running pointer is recorded, then moved past the stream.
LEMMA AddStreamStep ==
  ASSUME IInv, AddStream
  PROVE  IInv'
<1> USE DEF AddStream
<1>1. /\ file \in Files /\ m_directoryStream = file.directory /\ m_streamCount = file.count
      /\ i \in Nat /\ i \in 0 .. (file.count - 1) /\ file.count \in Nat
      /\ indicesForCurrentBlock = file.start[i]
      /\ indicesForCurrentBlock \in Nat /\ indicesForCurrentBlock >= 1 + m_streamCount
      /\ DOMAIN m_streamBlocks = 0 .. (m_streamCount - 1)
      /\ stream = NoStream
  BY FilesAssumption DEF IInv, TypeOK, Stages, Pointers, DirectoryRoundTrip
<1>2. BlockCountOf(i) \in Nat  BY <1>1, SizesTyped
<1>3. file.start[i + 1] = file.start[i] + BlockCountOf(i)
  BY <1>1, FilesAssumption DEF BlockCountOf, GetStreamSize
<1>4. /\ m_streamBlocks'[i] = indicesForCurrentBlock
      /\ \A k \in 0 .. (i - 1) : m_streamBlocks'[k] = m_streamBlocks[k]
      /\ DOMAIN m_streamBlocks' = 0 .. (m_streamCount - 1)
  BY <1>1
<1>5. \A k \in 0 .. (m_streamCount - 1) : BlockCountOf(k)' = BlockCountOf(k)
  BY DEF BlockCountOf, GetStreamSize
<1>6. TypeOK'
  <2>1. i' \in Nat /\ i' <= m_streamCount'  BY <1>1
  <2>2. indicesForCurrentBlock' \in Nat  BY <1>1, <1>2
  <2>3. DOMAIN m_streamBlocks' = 0 .. (m_streamCount' - 1)  BY <1>4
  <2> HIDE DEF AddStream
  <2>4. pc' = pc /\ m_streamCount' = m_streamCount /\ stream' = stream  BY DEF AddStream
  <2> QED  BY <2>1, <2>2, <2>3, <2>4 DEF IInv, TypeOK
<1>7. Stages'  BY DEF IInv, Stages
<1>8. Pointers'
  <2> SUFFICES ASSUME NEW k \in 0 .. i
               PROVE  m_streamBlocks'[k] \in Nat /\ m_streamBlocks'[k] >= 1 + m_streamCount
    BY <1>1, <1>2 DEF Pointers
  <2>1. CASE k = i  BY <2>1, <1>1, <1>4
  <2>2. CASE k # i
    <3>1. k \in 0 .. (i - 1)  BY <2>2, <1>1
    <3> QED  BY <3>1, <1>4 DEF IInv, Pointers
  <2> QED  BY <2>1, <2>2
<1>9. DirectoryRoundTrip'
  <2>1. indicesForCurrentBlock' = file.start[i + 1]  BY <1>1, <1>3
  <2>2. ASSUME NEW k \in 0 .. i
        PROVE  /\ m_streamBlocks'[k] = file.start[k]
               /\ m_streamBlocks'[k] + BlockCountOf(k) <= indicesForCurrentBlock'
    <3>1. CASE k = i  BY <3>1, <1>1, <1>2, <1>4
    <3>2. CASE k # i
      <4>1. k \in 0 .. (i - 1)  BY <3>2, <1>1
      <4>2. /\ m_streamBlocks[k] = file.start[k]
            /\ m_streamBlocks[k] + BlockCountOf(k) <= indicesForCurrentBlock
        BY <4>1 DEF IInv, DirectoryRoundTrip
      <4>3. m_streamBlocks[k] \in Nat /\ BlockCountOf(k) \in Nat
        BY <4>1, <1>1, SizesTyped DEF IInv, Pointers
      <4> QED  BY <4>1, <4>2, <4>3, <1>1, <1>2, <1>4
    <3> QED  BY <3>1, <3>2
  <2> QED  BY <1>1, <1>5, <2>1, <2>2 DEF DirectoryRoundTrip
<1>10. StreamsAreDisjoint'
  <2> SUFFICES ASSUME NEW b \in 0 .. i, NEW a \in 0 .. (b - 1)
               PROVE  m_streamBlocks'[a] + BlockCountOf(a) <= m_streamBlocks'[b]
    BY <1>1, <1>5 DEF StreamsAreDisjoint
  <2>1. a \in 0 .. (i - 1) /\ m_streamBlocks'[a] = m_streamBlocks[a]  BY <1>1, <1>4
  <2>2. CASE b = i
    BY <2>1, <2>2, <1>1, <1>4 DEF IInv, DirectoryRoundTrip
  <2>3. CASE b # i
    <3>1. b \in 0 .. (i - 1)  BY <2>3, <1>1
    <3> QED  BY <2>1, <3>1, <1>4 DEF IInv, StreamsAreDisjoint
  <2> QED  BY <2>2, <2>3
<1>11. HandedOut'  BY <1>1 DEF HandedOut
<1> QED  BY <1>6, <1>7, <1>8, <1>9, <1>10, <1>11 DEF IInv

LEMMA FinishConstructionStep ==
  ASSUME IInv, FinishConstruction
  PROVE  IInv'
  BY DEF FinishConstruction, IInv, TypeOK, Stages, Pointers, HandedOut,
         DirectoryRoundTrip, StreamsAreDisjoint, BlockCountOf, GetStreamSize

LEMMA CreateMSFStreamStep ==
  ASSUME IInv, NEW index \in 0 .. (m_streamCount - 1), NEW size \in 0 .. GetStreamSize(index),
         CreateMSFStream(index, size)
  PROVE  IInv'
<1> USE DEF CreateMSFStream
<1>1. m_streamCount \in Nat /\ i = m_streamCount /\ file \in Files /\ m_streamCount = file.count
      /\ m_directoryStream = file.directory
  BY DEF IInv, TypeOK, Stages, DirectoryRoundTrip
<1>2. m_streamBlocks[index] \in Nat  BY <1>1 DEF IInv, Pointers
<1>3. GetStreamSize(index) \in Nat  BY <1>1, SizesTyped
<1>4. /\ stream'.index = index /\ stream'.blocks = m_streamBlocks[index]
      /\ stream'.size = size
  OBVIOUS
<1>5. TypeOK'  BY <1>1, <1>2, <1>3, <1>4 DEF IInv, TypeOK
<1>6. HandedOut'  BY <1>3, <1>4 DEF HandedOut, GetStreamSize
<1>7. Stages' /\ Pointers' /\ DirectoryRoundTrip' /\ StreamsAreDisjoint'
  BY DEF IInv, Stages, Pointers, DirectoryRoundTrip, StreamsAreDisjoint, BlockCountOf,
         GetStreamSize
<1> QED  BY <1>5, <1>6, <1>7 DEF IInv

LEMMA NextIInv == IInv /\ [Next]_vars => IInv'
<1> SUFFICES ASSUME IInv, [Next]_vars PROVE IInv'  OBVIOUS
<1>1. ASSUME UNCHANGED vars PROVE IInv'
  BY <1>1 DEF vars, IInv, TypeOK, Stages, Pointers, HandedOut, DirectoryRoundTrip,
              StreamsAreDisjoint, BlockCountOf, GetStreamSize
<1> QED  BY <1>1, CoalesceDirectoryIndicesStep, CoalesceDirectoryStep, ReadStreamCountStep,
            AddStreamStep, FinishConstructionStep, CreateMSFStreamStep DEF Next

\* A stream handed out keeps to the block indices in front of later streams.
LEMMA HandedOutStays == IInv => StreamStaysInItsBlocks
<1> SUFFICES ASSUME IInv, stream # NoStream PROVE StreamStaysInItsBlocks
  BY DEF StreamStaysInItsBlocks
<1> DEFINE index == stream.index
<1>1. /\ pc = "ready" /\ i = m_streamCount /\ index \in 0 .. (m_streamCount - 1)
      /\ m_streamCount \in Nat /\ file \in Files /\ m_streamCount = file.count
      /\ m_directoryStream = file.directory
      /\ stream.size \in Nat /\ stream.size <= GetStreamSize(index)
      /\ stream.blocks = m_streamBlocks[index]
  BY DEF IInv, TypeOK, Stages, HandedOut, DirectoryRoundTrip
<1>2. GetStreamSize(index) \in Nat /\ BlockCountOf(index) \in Nat  BY <1>1, SizesTyped
<1>3. ConvertSizeToBlockCount(stream.size, BlockSize) <= BlockCountOf(index)
  BY <1>1, <1>2, BlockCountIsMonotonic, BlockSizeAssumption DEF BlockCountOf
<1>4. ConvertSizeToBlockCount(stream.size, BlockSize) \in Nat
  BY <1>1, BlockCountIsCeiling, BlockSizeAssumption
<1>5. \A k \in 0 .. (m_streamCount - 1) :
         m_streamBlocks[k] \in Nat /\ m_streamBlocks[k] >= 1 + m_streamCount
  BY <1>1 DEF IInv, Pointers
<1>6. ASSUME NEW k \in (index + 1) .. (m_streamCount - 1)
      PROVE  stream.blocks + ConvertSizeToBlockCount(stream.size, BlockSize) <= m_streamBlocks[k]
  <2>1. k \in 0 .. (i - 1) /\ index \in 0 .. (k - 1) /\ k \in 0 .. (m_streamCount - 1)
    BY <1>1
  <2>2. m_streamBlocks[index] + BlockCountOf(index) <= m_streamBlocks[k]
    BY <2>1 DEF IInv, StreamsAreDisjoint
  <2> HIDE DEF index
  <2> QED  BY <2>1, <2>2, <1>1, <1>2, <1>3, <1>4, <1>5
<1> QED  BY <1>1, <1>5, <1>6 DEF StreamStaysInItsBlocks

\* What the constructor of DirectMSFStream is given for the stream handed out:
\* m_blockIndices leads to these words of the directory.
CreatedBlockIndices ==
  [b \in 0 .. (ConvertSizeToBlockCount(stream.size, BlockSize) - 1) |->
     m_directoryStream[stream.blocks + b]]

\* The block indices the linker recorded for a stream of the file.
RecordedBlockIndices(index) ==
  [b \in 0 .. (ConvertSizeToBlockCount(SizeOf(file.directory[1 + index]), BlockSize) - 1) |->
     file.directory[file.start[index] + b]]

\* Whatever is read of a stream handed out, of its own or of a smaller size, are
\* the bytes the linker placed there, and no word behind the directory is asked
\* for them, not even for the last stream of the file.
CreatedStreamReadsItsFile ==
  stream # NoStream =>
    /\ stream.blocks + ConvertSizeToBlockCount(stream.size, BlockSize)
         <= file.start[file.count]
    /\ \A offset, size \in Nat : offset + size <= stream.size =>
         Slice(CreatedBlockIndices, offset, size)
           = Slice(RecordedBlockIndices(stream.index), offset, size)

LEMMA HandedOutReads == IInv => CreatedStreamReadsItsFile
<1> SUFFICES ASSUME IInv, stream # NoStream PROVE CreatedStreamReadsItsFile
  BY DEF CreatedStreamReadsItsFile
<1> DEFINE index == stream.index
           needed == ConvertSizeToBlockCount(stream.size, BlockSize)
           recorded == ConvertSizeToBlockCount(SizeOf(file.directory[1 + index]), BlockSize)
<1>1. /\ pc = "ready" /\ i = m_streamCount /\ index \in 0 .. (m_streamCount - 1)
      /\ m_streamCount \in Nat /\ file \in Files /\ m_streamCount = file.count
      /\ m_directoryStream = file.directory
      /\ stream.size \in Nat /\ stream.size <= GetStreamSize(index)
      /\ stream.blocks = m_streamBlocks[index]
  BY DEF IInv, TypeOK, Stages, HandedOut, DirectoryRoundTrip
<1>2. /\ GetStreamSize(index) \in Nat /\ BlockCountOf(index) \in Nat
      /\ recorded = BlockCountOf(index)
  BY <1>1, SizesTyped DEF BlockCountOf, GetStreamSize
<1>3. needed \in Nat /\ needed <= recorded
  BY <1>1, <1>2, BlockCountIsCeiling, BlockCountIsMonotonic, BlockSizeAssumption DEF BlockCountOf
<1>4. /\ stream.blocks = file.start[index] /\ stream.blocks \in Nat
      /\ stream.blocks + BlockCountOf(index) <= file.start[file.count]
      /\ file.start[file.count] \in Nat
  BY <1>1, FilesAssumption DEF IInv, DirectoryRoundTrip, Pointers
<1>5. stream.blocks + needed <= file.start[file.count]
  <2> HIDE DEF needed, recorded, index
  <2> QED  BY <1>2, <1>3, <1>4
<1>6. ASSUME NEW offset \in Nat, NEW size \in Nat, offset + size <= stream.size,
             NEW k \in 0 .. (size - 1)
      PROVE  DataOffset(CreatedBlockIndices, offset + k)
               = DataOffset(RecordedBlockIndices(index), offset + k)
  <2> DEFINE b == BlockOf(offset + k, BlockSize)
  <2>1. offset + k \in Nat /\ offset + k < stream.size  BY <1>1, <1>6
  <2>2. b \in 0 .. (needed - 1)  BY <1>1, <2>1, BlockWithinCount, BlockSizeAssumption
  <2>3. b \in 0 .. (recorded - 1)
    <3> HIDE DEF b, needed, recorded
    <3> QED  BY <1>2, <1>3, <2>2
  <2>4. CreatedBlockIndices[b] = RecordedBlockIndices(index)[b]
    <3> HIDE DEF b
    <3> QED  BY <1>1, <1>4, <2>2, <2>3 DEF CreatedBlockIndices, RecordedBlockIndices
  <2> QED  BY <2>4 DEF DataOffset
<1> HIDE DEF index, needed, recorded
<1>7. \A offset, size \in Nat : offset + size <= stream.size =>
        Slice(CreatedBlockIndices, offset, size)
          = Slice(RecordedBlockIndices(index), offset, size)
  BY <1>6 DEF Slice
<1> QED  BY <1>5, <1>7 DEF CreatedStreamReadsItsFile, index, needed

-----------------------------------------------------------------------------

\* What the constructor maintains.
THEOREM InvariantHolds == Spec => []IInv
  BY InitIInv, NextIInv, PTL DEF Spec

\* The object is well-formed at every stage.
THEOREM TypeCorrect == Spec => []TypeOK
  BY InvariantHolds, PTL DEF IInv

\* For every well-formed file, the constructor finds what the linker wrote.
THEOREM DirectoryIsFound == Spec => []DirectoryRoundTrip
  BY InvariantHolds, PTL DEF IInv

\* For every well-formed file, no two streams share block indices.
THEOREM AlwaysDisjoint == Spec => []StreamsAreDisjoint
  BY InvariantHolds, PTL DEF IInv

\* No stream handed out reaches the block indices of a later one.
THEOREM AlwaysInItsBlocks == Spec => []StreamStaysInItsBlocks
  BY InvariantHolds, HandedOutStays, PTL

\* Reading a stream that CreateMSFStream handed out yields what the linker wrote
\* as that stream: the walk over the directory and the reads of DirectMSFStream,
\* which answer with Slice, together.
THEOREM AlwaysReadsItsFile == Spec => []CreatedStreamReadsItsFile
  BY InvariantHolds, HandedOutReads, PTL

-----------------------------------------------------------------------------
(* Ownership: who owns the memory behind the objects, wherever they move.   *)

\* A variable without an object owns nothing.
DeadIsEmpty == \A s \in Slots : ~ Alive(s) => object[s] = NoObject

OwnershipInv ==
  /\ ObjectsTypeOK /\ DeadIsEmpty /\ OwnedExactlyOnce
  /\ PointersStayInStream /\ StreamsOutliveMoves

LEMMA OwnsNothing == Owned(Default) = {} /\ Owned(NoObject) = {}
  BY DEF Owned, Default, NoObject, EmptyStream

LEMMA InitObjects == ObjectsInit => OwnershipInv
<1> SUFFICES ASSUME ObjectsInit PROVE OwnershipInv  OBVIOUS
<1>1. ObjectsTypeOK  BY DEF ObjectsInit, ObjectsTypeOK, NoObject, Default, EmptyStream
<1>2. DeadIsEmpty  BY DEF ObjectsInit, DeadIsEmpty
<1>3. OwnedExactlyOnce
  BY OwnsNothing DEF ObjectsInit, OwnedExactlyOnce, NoObject, Default, EmptyStream
<1>4. PointersStayInStream
  BY DEF ObjectsInit, PointersStayInStream, NoObject, Default
<1>5. StreamsOutliveMoves  BY DEF ObjectsInit, StreamsOutliveMoves
<1> QED  BY <1>1, <1>2, <1>3, <1>4, <1>5 DEF OwnershipInv

LEMMA DefaultConstructStep ==
  ASSUME OwnershipInv, NEW s \in Slots, DefaultConstruct(s)
  PROVE  OwnershipInv'
<1> USE DEF DefaultConstruct
<1>1. object[s] = NoObject /\ \A t \in Slots : object'[t] = IF t = s THEN Default ELSE object[t]
  BY DEF OwnershipInv, ObjectsTypeOK, DeadIsEmpty
<1>2. ObjectsTypeOK'  BY DEF OwnershipInv, ObjectsTypeOK, Default, EmptyStream
<1>3. DeadIsEmpty'  BY <1>1 DEF OwnershipInv, DeadIsEmpty, Alive, Default
<1>4. OwnedExactlyOnce'
  <2>1. \A t \in Slots : Owned(object'[t]) = Owned(object[t])  BY <1>1, OwnsNothing
  <2>2. object'[s].m_array = nullptr  BY <1>1 DEF Default
  <2> QED  BY <1>1, <2>1, <2>2 DEF OwnershipInv, OwnedExactlyOnce
<1>5. PointersStayInStream'
  BY <1>1 DEF OwnershipInv, PointersStayInStream, Default
<1>6. StreamsOutliveMoves'
  <2>1. object[s].m_stream = Default.m_stream  BY <1>1 DEF NoObject, Default
  <2> QED  BY <1>1, <2>1 DEF OwnershipInv, StreamsOutliveMoves
<1> QED  BY <1>2, <1>3, <1>4, <1>5, <1>6 DEF OwnershipInv

\* An object constructed at fresh addresses, a for its array and, if it copies,
\* d for its data.
LEMMA ConstructStep ==
  ASSUME OwnershipInv, NEW s \in Slots, NEW count \in {0, 1}, NEW coalesced, NEW a \in Heap \ live,
         ConstructOn(s, coalesced, a, count),
         \/ coalesced = [m_ownedData |-> nullptr, m_data |-> File] /\ live' = live \cup {a}
         \/ \E d \in Heap \ (live \cup {a}) :
              /\ coalesced = [m_ownedData |-> d, m_data |-> d]
              /\ live' = live \cup {a, d}
  PROVE  OwnershipInv'
<1> USE DEF ConstructOn
<1> DEFINE o == [alive |-> TRUE, m_stream |-> coalesced, m_array |-> a, m_count |-> count]
<1>1. /\ object[s] = NoObject
      /\ \A t \in Slots : object'[t] = IF t = s THEN o ELSE object[t]
      /\ \A b \in Heap : target'[b] = IF b = a THEN coalesced.m_data ELSE target[b]
  BY DEF OwnershipInv, ObjectsTypeOK, DeadIsEmpty
<1>2. /\ coalesced.m_ownedData \in Heap \cup {nullptr} /\ coalesced.m_data \in Heap \cup {File}
      /\ coalesced.m_data \in {File, coalesced.m_ownedData}
      /\ coalesced.m_ownedData # a /\ coalesced.m_ownedData \notin live
      /\ live' = live \cup Owned(o) /\ Owned(o) \subseteq Heap
      /\ Owned(o) \cap live = {}
  BY AddressesDiffer, <1>1 DEF Owned, OwnershipInv, ObjectsTypeOK
<1>3. o.m_array = a /\ o.m_count = count /\ o.m_stream = coalesced /\ o.alive = TRUE  OBVIOUS
<1>4. ObjectsTypeOK'
  <2>1. coalesced \in [m_ownedData : Heap \cup {nullptr}, m_data : Heap \cup {nullptr, File}]
    BY <1>2 DEF OwnershipInv, ObjectsTypeOK
  <2>2. object' \in [Slots ->
           [alive : BOOLEAN, m_count : {0, 1},
            m_stream : [m_ownedData : Heap \cup {nullptr},
                        m_data : Heap \cup {nullptr, File}],
            m_array : Heap \cup {nullptr}]]
    BY <2>1 DEF OwnershipInv, ObjectsTypeOK
  <2> QED  BY <1>2, <2>2 DEF OwnershipInv, ObjectsTypeOK
<1> HIDE DEF o
<1>5. DeadIsEmpty'  BY <1>1, <1>3 DEF OwnershipInv, DeadIsEmpty, Alive
<1>6. OwnedExactlyOnce'
  <2>1. \A t \in Slots : t # s => Owned(object'[t]) = Owned(object[t])  BY <1>1
  <2>2. Owned(object'[s]) = Owned(o) /\ Owned(object[s]) = {}  BY <1>1, OwnsNothing
  <2>3. \A t \in Slots : Owned(object[t]) \cap Heap \subseteq live
    BY DEF OwnershipInv, OwnedExactlyOnce
  <2>4. \A b \in Heap : b \in live' <=> \E t \in Slots : b \in Owned(object'[t])
    BY <1>2, <2>1, <2>2 DEF OwnershipInv, OwnedExactlyOnce
  <2>5. \A t \in Slots : object'[t].m_array # nullptr =>
                           object'[t].m_array # object'[t].m_stream.m_ownedData
    BY <1>1, <1>2, <1>3 DEF OwnershipInv, OwnedExactlyOnce
  <2>6. \A t \in Slots : t # s => Owned(object'[s]) \cap Owned(object'[t]) = {}
    BY <1>2, <2>1, <2>2, <2>3
  <2>7. ASSUME NEW t \in Slots, NEW u \in Slots, t # u
        PROVE  Owned(object'[t]) \cap Owned(object'[u]) = {}
    <3>1. CASE t = s  BY <3>1, <2>6, <2>7
    <3>2. CASE u = s  BY <3>2, <2>6, <2>7
    <3>3. CASE t # s /\ u # s  BY <3>3, <2>1, <2>7 DEF OwnershipInv, OwnedExactlyOnce
    <3> QED  BY <3>1, <3>2, <3>3
  <2> QED  BY <2>4, <2>5, <2>7 DEF OwnedExactlyOnce
<1>7. PointersStayInStream'
  <2> SUFFICES ASSUME NEW t \in Slots
               PROVE  IF object'[t].m_array = nullptr
                        THEN object'[t].m_count = 0 /\ object'[t].m_stream = EmptyStream
                        ELSE /\ target'[object'[t].m_array] = object'[t].m_stream.m_data
                             /\ object'[t].m_stream.m_data
                                  \in {File, object'[t].m_stream.m_ownedData} \ {nullptr}
    BY DEF PointersStayInStream
  <2>1. CASE t = s
    <3>1. File # nullptr  BY DEF File, nullptr
    <3> QED  BY <2>1, <3>1, <1>1, <1>2, <1>3, AddressesDiffer
  <2>2. CASE t # s
    <3>1. object'[t] = object[t]  BY <2>2, <1>1
    <3>2. CASE object[t].m_array = nullptr
      BY <3>1, <3>2 DEF OwnershipInv, PointersStayInStream
    <3>3. CASE object[t].m_array # nullptr
      <4>1. object[t].m_array \in Heap  BY <3>3 DEF OwnershipInv, ObjectsTypeOK
      <4>2. object[t].m_array \in live
        BY <3>3, <4>1 DEF OwnershipInv, OwnedExactlyOnce, Owned
      <4>3. target'[object[t].m_array] = target[object[t].m_array]  BY <4>1, <4>2, <1>1
      <4> QED  BY <3>1, <3>3, <4>3 DEF OwnershipInv, PointersStayInStream
    <3> QED  BY <3>2, <3>3
  <2> QED  BY <2>1, <2>2
<1>8. StreamsOutliveMoves'
  <2> SUFFICES ASSUME NEW b \in Borrowers, origin[b] # Gone
               PROVE  /\ m_blockIndices[b] \in live' \cup {File}
                      /\ m_blockIndices[b] = object'[origin[b]].m_stream.m_data
    BY DEF StreamsOutliveMoves
  <2>1. /\ m_blockIndices[b] \in live \cup {File} /\ origin[b] \in Slots
        /\ m_blockIndices[b] = object[origin[b]].m_stream.m_data
    BY DEF OwnershipInv, ObjectsTypeOK, StreamsOutliveMoves
  <2>2. CASE origin[b] = s
    <3>1. m_blockIndices[b] = nullptr
      BY <2>1, <2>2, <1>1 DEF NoObject, Default, EmptyStream
    <3>2. nullptr \notin live /\ nullptr # File
      BY AddressesDiffer DEF OwnershipInv, ObjectsTypeOK, nullptr, File
    <3> QED  BY <2>1, <3>1, <3>2
  <2>3. CASE origin[b] # s  BY <2>1, <2>3, <1>1, <1>2
  <2> QED  BY <2>2, <2>3
<1> QED  BY <1>4, <1>5, <1>6, <1>7, <1>8 DEF OwnershipInv

\* A move, by construction or assignment: what the target owned is deleted, what
\* the other object owned changes hands.
LEMMA MoveStep ==
  ASSUME OwnershipInv, NEW to \in Slots, NEW from \in Slots, to # from, Alive(from),
         object' = [object EXCEPT ![to] = object[from], ![from] = Default],
         live' = live \ Owned(object[to]),
         target' \in [Heap -> Heap \cup {nullptr, File}],
         \A a \in Heap \ Owned(object[to]) : target'[a] = target[a],
         origin' = Follow(from, to), m_blockIndices' = m_blockIndices
  PROVE  OwnershipInv'
<1>1. /\ object'[to] = object[from] /\ object'[from] = Default
      /\ \A t \in Slots : t # to /\ t # from => object'[t] = object[t]
  BY DEF OwnershipInv, ObjectsTypeOK
<1>2. /\ Owned(object'[to]) = Owned(object[from]) /\ Owned(object'[from]) = {}
      /\ \A t \in Slots : t # to /\ t # from => Owned(object'[t]) = Owned(object[t])
  BY <1>1, OwnsNothing
<1>3. \A t \in Slots : \A u \in Slots : t # u => Owned(object[t]) \cap Owned(object[u]) = {}
  BY DEF OwnershipInv, OwnedExactlyOnce
<1>4. ObjectsTypeOK'
  <2>1. Default \in [alive : BOOLEAN, m_count : {0, 1},
                     m_stream : [m_ownedData : Heap \cup {nullptr},
                                 m_data : Heap \cup {nullptr, File}],
                     m_array : Heap \cup {nullptr}]
    BY DEF Default, EmptyStream
  <2>2. origin' \in [Borrowers -> Slots \cup {Gone}]  BY DEF OwnershipInv, ObjectsTypeOK, Follow
  <2> QED  BY <2>1, <2>2 DEF OwnershipInv, ObjectsTypeOK
<1>5. DeadIsEmpty'
  <2>1. object'[to].alive /\ object'[from].alive  BY <1>1 DEF Alive, Default
  <2>2. ASSUME NEW t \in Slots, ~ object'[t].alive  PROVE object'[t] = NoObject
    <3>1. object'[t] = object[t]  BY <2>1, <2>2, <1>1
    <3> QED  BY <3>1, <2>2 DEF OwnershipInv, DeadIsEmpty, Alive
  <2> QED  BY <2>2 DEF DeadIsEmpty, Alive
<1>6. OwnedExactlyOnce'
  <2>1. ASSUME NEW a \in Heap
        PROVE  a \in live' <=> \E t \in Slots : a \in Owned(object'[t])
    <3>1. a \in live <=> \E t \in Slots : a \in Owned(object[t])
      BY DEF OwnershipInv, OwnedExactlyOnce
    <3>2. ASSUME a \in live'
          PROVE  \E t \in Slots : a \in Owned(object'[t])
      <4>1. PICK t \in Slots : a \in Owned(object[t])  BY <3>1, <3>2
      <4>2. t # to  BY <4>1, <3>2
      <4> QED  BY <4>1, <4>2, <1>2
    <3>3. ASSUME NEW t \in Slots, a \in Owned(object'[t])
          PROVE  a \in live'
      <4>1. PICK u \in Slots : u # to /\ a \in Owned(object[u])  BY <3>3, <1>2
      <4> QED  BY <4>1, <3>1, <1>3
    <3> QED  BY <3>2, <3>3
  <2>2. ASSUME NEW t \in Slots, object'[t].m_array # nullptr
        PROVE  object'[t].m_array # object'[t].m_stream.m_ownedData
    <3>1. CASE t = from  BY <3>1, <2>2, <1>1 DEF Default
    <3>2. \A u \in Slots : object[u].m_array # nullptr =>
                              object[u].m_array # object[u].m_stream.m_ownedData
      BY DEF OwnershipInv, OwnedExactlyOnce
    <3>3. CASE t = to  BY <3>2, <3>3, <2>2, <1>1
    <3>4. CASE t # from /\ t # to
      <4>1. object'[t] = object[t]  BY <3>4, <1>1
      <4> QED  BY <4>1, <3>2, <2>2
    <3> QED  BY <3>1, <3>3, <3>4
  <2>3. ASSUME NEW t \in Slots, NEW u \in Slots, t # u
        PROVE  Owned(object'[t]) \cap Owned(object'[u]) = {}
    <3>1. CASE t = from \/ u = from  BY <3>1, <1>2
    <3>2. CASE t = to /\ u # from  BY <3>2, <2>3, <1>2, <1>3
    <3>3. CASE u = to /\ t # from  BY <3>3, <2>3, <1>2, <1>3
    <3>4. CASE t \notin {to, from} /\ u \notin {to, from}  BY <3>4, <2>3, <1>2, <1>3
    <3> QED  BY <3>1, <3>2, <3>3, <3>4
  <2> QED  BY <2>1, <2>2, <2>3 DEF OwnedExactlyOnce
<1>7. PointersStayInStream'
  <2> SUFFICES ASSUME NEW t \in Slots
               PROVE  IF object'[t].m_array = nullptr
                        THEN object'[t].m_count = 0 /\ object'[t].m_stream = EmptyStream
                        ELSE /\ target'[object'[t].m_array] = object'[t].m_stream.m_data
                             /\ object'[t].m_stream.m_data
                                  \in {File, object'[t].m_stream.m_ownedData} \ {nullptr}
    BY DEF PointersStayInStream
  <2>1. ASSUME NEW u \in Slots, u # to, object[u].m_array # nullptr
        PROVE  target'[object[u].m_array] = target[object[u].m_array]
    <3>1. object[u].m_array \in Heap /\ object[u].m_array \in Owned(object[u])
      BY <2>1 DEF OwnershipInv, ObjectsTypeOK, Owned
    <3>2. object[u].m_array \notin Owned(object[to])  BY <3>1, <2>1, <1>3
    <3> QED  BY <3>1, <3>2
  <2>2. CASE t = to
    <3>1. object'[t] = object[from]  BY <2>2, <1>1
    <3> QED  BY <3>1, <2>1 DEF OwnershipInv, PointersStayInStream
  <2>3. CASE t = from
    <3>1. object'[t] = Default  BY <2>3, <1>1
    <3> QED  BY <3>1 DEF Default
  <2>4. CASE t # to /\ t # from
    <3>1. object'[t] = object[t]  BY <2>4, <1>1
    <3> QED  BY <3>1, <2>1, <2>4 DEF OwnershipInv, PointersStayInStream
  <2> QED  BY <2>2, <2>3, <2>4
<1>8. StreamsOutliveMoves'
  <2> SUFFICES ASSUME NEW b \in Borrowers, origin'[b] # Gone
               PROVE  /\ m_blockIndices[b] \in live' \cup {File}
                      /\ m_blockIndices[b] = object'[origin'[b]].m_stream.m_data
    BY DEF StreamsOutliveMoves
  <2>1. /\ origin[b] \in Slots /\ origin[b] # to
        /\ origin'[b] = IF origin[b] = from THEN to ELSE origin[b]
    BY DEF OwnershipInv, ObjectsTypeOK, Follow
  <2>2. Gone \notin Slots  BY AddressesDiffer
  <2>3. /\ m_blockIndices[b] \in live \cup {File}
        /\ m_blockIndices[b] = object[origin[b]].m_stream.m_data
    BY <2>1, <2>2 DEF OwnershipInv, StreamsOutliveMoves
  <2>4. object'[origin'[b]].m_stream = object[origin[b]].m_stream  BY <1>1, <2>1
  <2>5. CASE m_blockIndices[b] = File  BY <2>3, <2>4, <2>5
  <2>6. CASE m_blockIndices[b] # File
    <3>1. m_blockIndices[b] \in Heap  BY <2>3, <2>6 DEF OwnershipInv, ObjectsTypeOK
    <3>2. m_blockIndices[b] = object[origin[b]].m_stream.m_ownedData
      <4>1. CASE object[origin[b]].m_array = nullptr
        BY <4>1, <2>1, <2>3, <3>1, AddressesDiffer
           DEF OwnershipInv, PointersStayInStream, EmptyStream
      <4>2. CASE object[origin[b]].m_array # nullptr
        BY <4>2, <2>1, <2>3, <2>6 DEF OwnershipInv, PointersStayInStream
      <4> QED  BY <4>1, <4>2
    <3>3. m_blockIndices[b] \in Owned(object[origin[b]])
      BY <3>1, <3>2, AddressesDiffer DEF Owned
    <3>4. m_blockIndices[b] \notin Owned(object[to])  BY <3>3, <2>1, <1>3
    <3> QED  BY <2>3, <2>4, <3>4
  <2> QED  BY <2>5, <2>6
<1> QED  BY <1>4, <1>5, <1>6, <1>7, <1>8 DEF OwnershipInv

LEMMA MoveConstructStep ==
  ASSUME OwnershipInv, NEW to \in Slots, NEW from \in Slots, MoveConstruct(to, from)
  PROVE  OwnershipInv'
<1>1. to # from /\ object[to] = NoObject
  BY DEF MoveConstruct, OwnershipInv, DeadIsEmpty
<1>2. Owned(object[to]) = {}  BY <1>1, OwnsNothing
<1>3. live' = live \ Owned(object[to]) /\ target' = target
  BY <1>2 DEF MoveConstruct
<1>4. target' \in [Heap -> Heap \cup {nullptr, File}]  BY <1>3 DEF OwnershipInv, ObjectsTypeOK
<1> QED  BY <1>1, <1>3, <1>4, MoveStep DEF MoveConstruct

LEMMA MoveAssignStep ==
  ASSUME OwnershipInv, NEW to \in Slots, NEW from \in Slots, MoveAssign(to, from)
  PROVE  OwnershipInv'
<1>1. /\ live' = live \ Owned(object[to])
      /\ target' \in [Heap -> Heap \cup {nullptr, File}]
      /\ \A a \in Heap \ Owned(object[to]) : target'[a] = target[a]
  BY DEF MoveAssign, Delete, OwnershipInv, ObjectsTypeOK
<1> QED  BY <1>1, MoveStep DEF MoveAssign

\* Destroying one object leaves the others, and what points into them, alone.
LEMMA DestroyStep ==
  ASSUME OwnershipInv, NEW s \in Slots, Destroy(s)
  PROVE  OwnershipInv'
<1> USE DEF Destroy, Delete
<1>1. object'[s] = NoObject /\ \A t \in Slots : t # s => object'[t] = object[t]
  BY DEF OwnershipInv, ObjectsTypeOK
<1>2. Owned(object'[s]) = {} /\ \A t \in Slots : t # s => Owned(object'[t]) = Owned(object[t])
  BY <1>1, OwnsNothing
<1>3. \A t \in Slots : \A u \in Slots : t # u => Owned(object[t]) \cap Owned(object[u]) = {}
  BY DEF OwnershipInv, OwnedExactlyOnce
<1>4. ObjectsTypeOK'
  <2>1. NoObject \in [alive : BOOLEAN, m_count : {0, 1},
                      m_stream : [m_ownedData : Heap \cup {nullptr},
                                  m_data : Heap \cup {nullptr, File}],
                      m_array : Heap \cup {nullptr}]
    BY DEF NoObject, Default, EmptyStream
  <2> QED  BY <2>1 DEF OwnershipInv, ObjectsTypeOK
<1>5. DeadIsEmpty'  BY <1>1 DEF OwnershipInv, DeadIsEmpty, Alive
<1>6. OwnedExactlyOnce'
  <2>1. ASSUME NEW a \in Heap
        PROVE  a \in live' <=> \E t \in Slots : a \in Owned(object'[t])
    <3>1. a \in live <=> \E t \in Slots : a \in Owned(object[t])
      BY DEF OwnershipInv, OwnedExactlyOnce
    <3> QED  BY <3>1, <1>2, <1>3
  <2>2. ASSUME NEW t \in Slots, object'[t].m_array # nullptr
        PROVE  object'[t].m_array # object'[t].m_stream.m_ownedData
    <3>1. CASE t = s  BY <3>1, <2>2, <1>1 DEF NoObject, Default
    <3>2. CASE t # s  BY <3>2, <2>2, <1>1 DEF OwnershipInv, OwnedExactlyOnce
    <3> QED  BY <3>1, <3>2
  <2>3. ASSUME NEW t \in Slots, NEW u \in Slots, t # u
        PROVE  Owned(object'[t]) \cap Owned(object'[u]) = {}
    BY <2>3, <1>2, <1>3
  <2> QED  BY <2>1, <2>2, <2>3 DEF OwnedExactlyOnce
<1>7. PointersStayInStream'
  <2> SUFFICES ASSUME NEW t \in Slots
               PROVE  IF object'[t].m_array = nullptr
                        THEN object'[t].m_count = 0 /\ object'[t].m_stream = EmptyStream
                        ELSE /\ target'[object'[t].m_array] = object'[t].m_stream.m_data
                             /\ object'[t].m_stream.m_data
                                  \in {File, object'[t].m_stream.m_ownedData} \ {nullptr}
    BY DEF PointersStayInStream
  <2>1. CASE t = s  BY <2>1, <1>1 DEF NoObject, Default
  <2>2. CASE t # s
    <3>1. object'[t] = object[t]  BY <2>2, <1>1
    <3>2. CASE object[t].m_array = nullptr
      BY <3>1, <3>2 DEF OwnershipInv, PointersStayInStream
    <3>3. CASE object[t].m_array # nullptr
      <4>1. object[t].m_array \in Heap /\ object[t].m_array \in Owned(object[t])
        BY <3>3 DEF OwnershipInv, ObjectsTypeOK, Owned
      <4>2. object[t].m_array \notin Owned(object[s])  BY <4>1, <2>2, <1>3
      <4>3. target'[object[t].m_array] = target[object[t].m_array]  BY <4>1, <4>2
      <4> QED  BY <3>1, <3>3, <4>3 DEF OwnershipInv, PointersStayInStream
    <3> QED  BY <3>2, <3>3
  <2> QED  BY <2>1, <2>2
<1>8. StreamsOutliveMoves'
  <2> SUFFICES ASSUME NEW b \in Borrowers, origin'[b] # Gone
               PROVE  /\ m_blockIndices[b] \in live' \cup {File}
                      /\ m_blockIndices[b] = object'[origin'[b]].m_stream.m_data
    BY DEF StreamsOutliveMoves
  <2>1. origin[b] \in Slots /\ origin[b] # s /\ origin'[b] = origin[b] /\ origin[b] # Gone
    BY DEF OwnershipInv, ObjectsTypeOK
  <2>2. /\ m_blockIndices[b] \in live \cup {File}
        /\ m_blockIndices[b] = object[origin[b]].m_stream.m_data
    BY <2>1 DEF OwnershipInv, StreamsOutliveMoves
  <2>3. object'[origin'[b]] = object[origin[b]]  BY <1>1, <2>1
  <2>4. CASE m_blockIndices[b] = File  BY <2>2, <2>3, <2>4
  <2>5. CASE m_blockIndices[b] # File
    <3>1. m_blockIndices[b] \in Heap  BY <2>2, <2>5 DEF OwnershipInv, ObjectsTypeOK
    <3>2. m_blockIndices[b] \in Owned(object[origin[b]])
      <4>1. m_blockIndices[b] = object[origin[b]].m_stream.m_ownedData
        BY <2>1, <2>2, <2>5, <3>1, AddressesDiffer
           DEF OwnershipInv, PointersStayInStream, EmptyStream
      <4> QED  BY <3>1, <4>1, AddressesDiffer DEF Owned
    <3>3. m_blockIndices[b] \notin Owned(object[s])  BY <3>2, <2>1, <1>3
    <3> QED  BY <2>2, <2>3, <3>3
  <2> QED  BY <2>4, <2>5
<1> QED  BY <1>4, <1>5, <1>6, <1>7, <1>8 DEF OwnershipInv

\* The pointer a stream gets is one into the data of the file it is made from.
LEMMA BorrowMSFStreamStep ==
  ASSUME OwnershipInv, NEW b \in Borrowers, NEW s \in Slots, BorrowMSFStream(b, s)
  PROVE  OwnershipInv'
<1> USE DEF BorrowMSFStream
<1>1. /\ object[s].m_array # nullptr /\ object[s].m_array \in Heap
      /\ target[object[s].m_array] = object[s].m_stream.m_data
      /\ object[s].m_stream.m_data \in {File, object[s].m_stream.m_ownedData} \ {nullptr}
  BY DEF OwnershipInv, ObjectsTypeOK, PointersStayInStream
<1>2. target[object[s].m_array] \in live \cup {File}
  <2>1. CASE object[s].m_stream.m_data = File  BY <2>1, <1>1
  <2>2. CASE object[s].m_stream.m_data # File
    <3>1. target[object[s].m_array] = object[s].m_stream.m_ownedData  BY <2>2, <1>1
    <3>2. CASE object[s].m_stream.m_ownedData = nullptr
      <4>1. target[object[s].m_array] = nullptr  BY <3>1, <3>2
      <4> QED  BY <4>1, <1>1
    <3>3. CASE object[s].m_stream.m_ownedData # nullptr
      <4>1. /\ object[s].m_stream.m_ownedData \in Heap
            /\ object[s].m_stream.m_ownedData \in Owned(object[s])
        BY <3>3 DEF OwnershipInv, ObjectsTypeOK, Owned
      <4> QED  BY <4>1, <3>1 DEF OwnershipInv, OwnedExactlyOnce
    <3> QED  BY <3>2, <3>3
  <2> QED  BY <2>1, <2>2
<1>3. ObjectsTypeOK'  BY <1>1 DEF OwnershipInv, ObjectsTypeOK
<1>4. StreamsOutliveMoves'
  BY <1>1, <1>2 DEF OwnershipInv, ObjectsTypeOK, StreamsOutliveMoves
<1> QED  BY <1>3, <1>4 DEF OwnershipInv, DeadIsEmpty, Alive, OwnedExactlyOnce, PointersStayInStream

LEMMA NextObjects == OwnershipInv /\ [ObjectsNext]_objectVars => OwnershipInv'
<1> SUFFICES ASSUME OwnershipInv, [ObjectsNext]_objectVars PROVE OwnershipInv'  OBVIOUS
<1>1. ASSUME UNCHANGED objectVars PROVE OwnershipInv'
  BY <1>1 DEF objectVars, OwnershipInv, ObjectsTypeOK, DeadIsEmpty, Alive, OwnedExactlyOnce,
              PointersStayInStream, StreamsOutliveMoves
<1>2. ASSUME NEW s \in Slots, NEW count \in {0, 1}, ConstructInFile(s, count) PROVE OwnershipInv'
  BY <1>2, ConstructStep DEF ConstructInFile
<1>3. ASSUME NEW s \in Slots, NEW count \in {0, 1}, ConstructOwned(s, count) PROVE OwnershipInv'
  <2>1. PICK d \in Heap \ live :
          \E a \in Heap \ (live \cup {d}) :
            /\ live' = live \cup {a, d}
            /\ ConstructOn(s, [m_ownedData |-> d, m_data |-> d], a, count)
    BY <1>3 DEF ConstructOwned
  <2>2. PICK a \in Heap \ (live \cup {d}) :
          /\ live' = live \cup {a, d}
          /\ ConstructOn(s, [m_ownedData |-> d, m_data |-> d], a, count)
    BY <2>1
  <2>3. a \in Heap \ live /\ d \in Heap \ (live \cup {a})  OBVIOUS
  <2> QED  BY <2>2, <2>3, ConstructStep
<1> QED  BY <1>1, <1>2, <1>3, DefaultConstructStep, MoveConstructStep, MoveAssignStep,
            DestroyStep, BorrowMSFStreamStep DEF ObjectsNext

-----------------------------------------------------------------------------

\* What every operation on the objects maintains.
THEOREM OwnershipInvariantHolds == ObjectsSpec => []OwnershipInv
  BY InitObjects, NextObjects, PTL DEF ObjectsSpec

\* Every address is allocated, owned and deleted by one object at a time.
THEOREM OwnershipIsExact == ObjectsSpec => []OwnedExactlyOnce
  BY OwnershipInvariantHolds, PTL DEF OwnershipInv

\* The pointers an object keeps lead into data that moves with it.
THEOREM PointersNeverLeaveStream == ObjectsSpec => []PointersStayInStream
  BY OwnershipInvariantHolds, PTL DEF OwnershipInv

\* A stream made from a file is valid until that file is destroyed, however often
\* the file is moved.
THEOREM BorrowedStreamsStayValid == ObjectsSpec => []StreamsOutliveMoves
  BY OwnershipInvariantHolds, PTL DEF OwnershipInv
=============================================================================
