------------------------------ MODULE RawFile ------------------------------
(***************************************************************************)
(* PDB_RawFile: the constructor follows two levels of indirection from the *)
(* SuperBlock to the stream directory, coalescing each level, then walks   *)
(* the directory once to find where each stream's block indices start;     *)
(* CreateMSFStream hands those out.  The file is modelled as 32-bit words, *)
(* the unit of everything this class reads.                                *)
(***************************************************************************)
EXTENDS MSFBlocks

CONSTANTS Files,          \* the well-formed files
          NilPageSize     \* size recorded for a stream that does not exist

NilStreamIndex == -1      \* 0xFFFF, never the index of a stream of a file

\* Word w of a stream with these block indices, as a word offset into the file.
WordOffset(blockIndices, w) ==
  DataOffset(blockIndices, w * SizeOfUInt32) \div SizeOfUInt32

\* The first count words of that stream: what CoalescedMSFStream presents.
CoalescedWords(words, blockIndices, count) ==
  [w \in 0 .. (count - 1) |-> words[WordOffset(blockIndices, w)]]

SizeOf(size) == IF size = NilPageSize THEN 0 ELSE size

\* The MSF format (https://llvm.org/docs/PDB/MsfFile.html), which the linker that
\* wrote the file followed.  f.words is the file; f.start[i] is where the block
\* indices of stream i start in the directory, f.start[f.count] its length.
ASSUME FilesAssumption ==
  /\ NilPageSize \in Nat
  /\ \A f \in Files :
       /\ f.count \in Nat
       /\ f.start \in [0 .. f.count -> Nat] /\ f.start[0] = 1 + f.count
       /\ f.start[f.count] > f.count
       /\ f.directory \in [0 .. (f.start[f.count] - 1) -> Nat]
       /\ f.directory[0] = f.count
       /\ \A i \in 0 .. (f.count - 1) :
            f.start[i + 1] = f.start[i] +
              ConvertSizeToBlockCount(SizeOf(f.directory[1 + i]), BlockSize)
       /\ f.directorySize = f.start[f.count] * SizeOfUInt32
       /\ CoalescedWords(f.words,
            CoalescedWords(f.words, f.directoryBlockIndices,
                           ConvertSizeToBlockCount(f.directorySize, BlockSize)),
            f.start[f.count]) = f.directory

VARIABLES file,                    \* the mapped file, never written
          pc,                      \* where the constructor stands
          directoryIndices,        \* its locals
          i, indicesForCurrentBlock,
          m_directoryStream,       \* the object
          m_streamCount,
          m_streamBlocks,
          stream                   \* the last stream handed out

vars == <<file, pc, directoryIndices, i, indicesForCurrentBlock,
          m_directoryStream, m_streamCount, m_streamBlocks, stream>>

NoWords == [w \in {} |-> 0]
NoStream == [index |-> NilStreamIndex, blocks |-> 0, size |-> 0]

\* The size of a stream "taking into account nil page sizes".
GetStreamSize(index) == SizeOf(m_directoryStream[1 + index])

\* Variant: the last block of a stream that does not fill it is forgotten.
FullBlockCountOf(index) == GetStreamSize(index) \div BlockSize

BlockCountOf(index) == ConvertSizeToBlockCount(GetStreamSize(index), BlockSize)

Init ==
  /\ file \in Files
  /\ pc = "indices"
  /\ directoryIndices = NoWords /\ i = 0 /\ indicesForCurrentBlock = 0
  /\ m_directoryStream = NoWords /\ m_streamCount = 0 /\ m_streamBlocks = NoWords
  /\ stream = NoStream

\* The blocks that hold the indices of the directory's blocks, coalesced.
CoalesceDirectoryIndices ==
  /\ pc = "indices"
  /\ directoryIndices' =
       CoalescedWords(file.words, file.directoryBlockIndices,
                      ConvertSizeToBlockCount(file.directorySize, BlockSize))
  /\ pc' = "directory"
  /\ UNCHANGED <<file, i, indicesForCurrentBlock, m_directoryStream,
                 m_streamCount, m_streamBlocks, stream>>

\* The directory itself, coalesced.
CoalesceDirectory ==
  /\ pc = "directory"
  /\ m_directoryStream' =
       CoalescedWords(file.words, directoryIndices,
                      file.directorySize \div SizeOfUInt32)
  /\ pc' = "header"
  /\ UNCHANGED <<file, directoryIndices, i, indicesForCurrentBlock,
                 m_streamCount, m_streamBlocks, stream>>

\* streamCount, and the array of pointers, uninitialised, to its streams' blocks.
ReadStreamCount ==
  /\ pc = "header"
  /\ m_streamCount' = m_directoryStream[0]
  /\ m_streamBlocks' = FreshBuffer(m_directoryStream[0])
  /\ indicesForCurrentBlock' = 1 + m_directoryStream[0]
  /\ i' = 0
  /\ pc' = "streams"
  /\ UNCHANGED <<file, directoryIndices, m_directoryStream, stream>>

\* One iteration of the loop over the streams.
AddStream ==
  /\ pc = "streams"
  /\ i < m_streamCount
  /\ m_streamBlocks' = [m_streamBlocks EXCEPT ![i] = indicesForCurrentBlock]
  /\ indicesForCurrentBlock' = indicesForCurrentBlock + BlockCountOf(i)
  /\ i' = i + 1
  /\ UNCHANGED <<file, pc, directoryIndices, m_directoryStream, m_streamCount, stream>>

FinishConstruction ==
  /\ pc = "streams"
  /\ i = m_streamCount
  /\ pc' = "ready"
  /\ UNCHANGED <<file, directoryIndices, i, indicesForCurrentBlock,
                 m_directoryStream, m_streamCount, m_streamBlocks, stream>>

\* Variant: the recorded size handed out as it is, nil or not.
CreateStreamOfRecordedSize(index, size) ==
  /\ pc = "ready"
  /\ index < m_streamCount
  /\ stream' = [index |-> index, blocks |-> m_streamBlocks[index],
                size |-> m_directoryStream[1 + index]]
  /\ UNCHANGED <<file, pc, directoryIndices, i, indicesForCurrentBlock,
                 m_directoryStream, m_streamCount, m_streamBlocks>>

\* CreateMSFStream<T>(streamIndex, streamSize), with its assertions.  The overload
\* without a size passes GetStreamSize(streamIndex).
CreateMSFStream(index, size) ==
  /\ pc = "ready"
  /\ index # NilStreamIndex
  /\ index < m_streamCount
  /\ size <= GetStreamSize(index)
  /\ stream' = [index |-> index, blocks |-> m_streamBlocks[index], size |-> size]
  /\ UNCHANGED <<file, pc, directoryIndices, i, indicesForCurrentBlock,
                 m_directoryStream, m_streamCount, m_streamBlocks>>

Next ==
  \/ CoalesceDirectoryIndices
  \/ CoalesceDirectory
  \/ ReadStreamCount
  \/ AddStream
  \/ FinishConstruction
  \/ pc = "ready" /\ \E index \in 0 .. (m_streamCount - 1) :
       \E size \in 0 .. GetStreamSize(index) : CreateMSFStream(index, size)

Spec == Init /\ [][Next]_vars

-----------------------------------------------------------------------------

\* The state of the object; until the directory is there, nothing points into it.
TypeOK ==
  /\ pc \in {"indices", "directory", "header", "streams", "ready"}
  /\ i \in Nat /\ i <= m_streamCount
  /\ indicesForCurrentBlock \in Nat
  /\ m_streamCount \in Nat
  /\ DOMAIN m_streamBlocks = 0 .. (m_streamCount - 1)
  /\ stream.blocks \in Nat /\ stream.size \in Nat
  /\ stream # NoStream => pc = "ready" /\ stream.index \in 0 .. (m_streamCount - 1)

\* The walk finds what the linker wrote: the directory read through both levels
\* of indirection is the file's, each stream's pointer leads to its own block
\* indices, and all of them lie inside the directory.
DirectoryRoundTrip ==
  pc \in {"streams", "ready"} =>
    /\ m_directoryStream = file.directory
    /\ m_streamCount = file.count
    /\ \A k \in 0 .. (i - 1) :
         /\ m_streamBlocks[k] = file.start[k]
         /\ m_streamBlocks[k] + BlockCountOf(k) <= indicesForCurrentBlock
    /\ indicesForCurrentBlock = file.start[i]

\* A stream handed out, with its own or a smaller size, only needs block indices
\* in front of those of every later stream.
StreamStaysInItsBlocks ==
  stream # NoStream =>
    /\ stream.blocks >= 1 + m_streamCount
    /\ \A k \in (stream.index + 1) .. (m_streamCount - 1) :
         stream.blocks + ConvertSizeToBlockCount(stream.size, BlockSize) <= m_streamBlocks[k]
=============================================================================
