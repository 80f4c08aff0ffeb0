-------------------------- MODULE SourceFileStream --------------------------
(***************************************************************************)
(* PDB_SourceFileStream: which source files each module was compiled from. *)
(* The constructor finds the arrays of the source info substream, which    *)
(* lie one behind the other and whose lengths depend on each other; it is  *)
(* built for the modules ModuleInfoStream found.                           *)
(***************************************************************************)
EXTENDS ModuleInfoStream, Sequences

CONSTANTS SourceStreams,      \* the well-formed source info substreams
          UInt16Range         \* 2^16

SizeOfUInt16 == 2

\* Where the linker puts the arrays behind the counts, and the names behind those.
FileNameOffsetsOf(s) == 2 * SizeOfUInt16 + 2 * SizeOfUInt16 * s.moduleCount
StringTableOf(s) == FileNameOffsetsOf(s) + SizeOfUInt32 * s.filesBefore[s.moduleCount]

\* What the linker wrote for the files of each module: files[k] are those of module k
\* and filesBefore[k] how many the modules in front of it have.  short and long are
\* the integers found at an offset of the substream, text the string found there.
\* The index of a module's first file and the number of all files are cut off to 16
\* bits, the number of a module's own files fits.
ASSUME SourceStreamsAssumption ==
  /\ UInt16Range \in Nat \ {0}
  /\ \A s \in SourceStreams :
       /\ s.moduleCount \in Nat
       /\ s.files \in [0 .. (s.moduleCount - 1) -> Seq(s.names)]
       /\ s.filesBefore \in [0 .. s.moduleCount -> Nat]
       /\ s.short[0] = s.moduleCount
       /\ s.short[SizeOfUInt16] = s.filesBefore[s.moduleCount] % UInt16Range
       /\ s.filesBefore[0] = 0
       /\ \A k \in 0 .. (s.moduleCount - 1) :
            /\ s.filesBefore[k + 1] = s.filesBefore[k] + Len(s.files[k])
            /\ Len(s.files[k]) < UInt16Range
            /\ s.short[SizeOfUInt16 * (2 + k)] = s.filesBefore[k] % UInt16Range
            /\ s.short[SizeOfUInt16 * (2 + s.moduleCount + k)] = Len(s.files[k])
            /\ \A f \in DOMAIN s.files[k] :
                 LET entry == FileNameOffsetsOf(s) + SizeOfUInt32 * (s.filesBefore[k] + f - 1)
                 IN  s.text[StringTableOf(s) + s.long[entry]] = s.files[k][f]

VARIABLES sourceStream,       \* m_stream: the coalesced substream
          step,               \* of the constructor; "view" once a view was asked for
          m_sourceModuleCount, m_moduleIndices, m_moduleFileCounts,
          m_fileNameOffsets, m_stringTable,
          sourceFileCount, counted,   \* locals of the constructor
          view                \* what GetModuleFilenameOffsets returned last

pointers == <<m_sourceModuleCount, m_moduleIndices, m_moduleFileCounts,
              m_fileNameOffsets, m_stringTable>>
sourceVars == <<sourceStream, step, pointers, sourceFileCount, counted, view>>

NoView == [module |-> nullptr]

SourceInit ==
  /\ Init
  /\ sourceStream \in {s \in SourceStreams : s.moduleCount = stream.count}
  /\ step = "start"
  /\ m_sourceModuleCount = 0 /\ m_moduleIndices = nullptr /\ m_moduleFileCounts = nullptr
  /\ m_fileNameOffsets = nullptr /\ m_stringTable = nullptr
  /\ sourceFileCount = 0 /\ counted = 0
  /\ view = NoView

\* Variant: the number of source files, which is no longer used, is not skipped.
BehindModuleCount == SizeOfUInt16

\* The number of source files is skipped.
BehindCounts == SizeOfUInt16 + SizeOfUInt16

\* The constructor, up to the loop that counts the files.
Construct ==
  /\ pc = "ready" /\ step = "start"
  /\ m_sourceModuleCount' = sourceStream.short[0]
  /\ m_moduleIndices' = BehindCounts
  /\ m_moduleFileCounts' = BehindCounts + SizeOfUInt16 * m_sourceModuleCount'
  /\ step' = "count"
  /\ UNCHANGED <<vars, sourceStream, m_fileNameOffsets, m_stringTable,
                 sourceFileCount, counted, view>>

\* "count the actual number of source files"
CountFiles ==
  /\ step = "count" /\ counted < m_sourceModuleCount
  /\ sourceFileCount' =
       sourceFileCount + sourceStream.short[m_moduleFileCounts + SizeOfUInt16 * counted]
  /\ counted' = counted + 1
  /\ UNCHANGED <<vars, sourceStream, step, pointers, view>>

FinishFiles ==
  /\ step = "count" /\ counted = m_sourceModuleCount
  /\ m_fileNameOffsets' = m_moduleFileCounts + SizeOfUInt16 * m_sourceModuleCount
  /\ m_stringTable' = m_fileNameOffsets' + SizeOfUInt32 * sourceFileCount
  /\ step' = "view"
  /\ UNCHANGED <<vars, sourceStream, m_sourceModuleCount, m_moduleIndices,
                 m_moduleFileCounts, sourceFileCount, counted, view>>

\* The start is read as it was stored, in 16 bits.
GetModuleFilenameOffsets ==
  /\ step = "view"
  /\ \E moduleIndex \in DOMAIN m_modules \cap 0 .. (m_moduleCount - 1) :
       view' = [module |-> moduleIndex,
                start |-> m_fileNameOffsets + SizeOfUInt32
                            * sourceStream.short[m_moduleIndices + SizeOfUInt16 * moduleIndex],
                length |-> sourceStream.short[m_moduleFileCounts + SizeOfUInt16 * moduleIndex]]
  /\ UNCHANGED <<vars, sourceStream, step, pointers, sourceFileCount, counted>>

GetFilename(filenameOffset) == sourceStream.text[m_stringTable + filenameOffset]

SourceNext == \/ (Next /\ UNCHANGED sourceVars)
              \/ Construct \/ CountFiles \/ FinishFiles \/ GetModuleFilenameOffsets

SourceSpec == SourceInit /\ [][SourceNext]_<<vars, sourceVars>>

-----------------------------------------------------------------------------

\* The files whose names a view leads to.
FilesOf(v) ==
  [f \in 1 .. v.length |-> GetFilename(sourceStream.long[v.start + SizeOfUInt32 * (f - 1)])]

\* The view of a module leads to its own files in their order, whatever the modules
\* around it have, as long as its first file is among the first 2^16: the start of a
\* later one is cut off, although the number of all files is "computed dynamically"
\* because 16 bits do not hold it.
FilesOfOwnModule ==
  view # NoView =>
    /\ sourceStream.filesBefore[view.module] < UInt16Range
         => FilesOf(view) = sourceStream.files[view.module]
    /\ view.length = Len(sourceStream.files[view.module])
=============================================================================
