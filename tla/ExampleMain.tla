---------------------------- MODULE ExampleMain ----------------------------
(***************************************************************************)
(* Examples/ExampleMain.cpp: how a client opens a PDB file.  It maps the   *)
(* file, asks one HasValid function after the other, creates a stream when *)
(* its function said so, runs the examples on the streams and unmaps the   *)
(* file, on every path exactly once.                                       *)
(***************************************************************************)
EXTENDS DBIStream, InfoStream, FiniteSets, Sequences

TPIStreamIndex == 2
IPIStreamIndex == 4
SizeOfTPIHeader == 56         \* sizeof(TPI::StreamHeader)
SizeOfIPIHeader == 56         \* sizeof(IPI::StreamHeader)
SizeOfSuperBlock == 52        \* sizeof(SuperBlock)

\* writer: what the info stream was written for, with featureCodes and names, the
\* codes and the stream of the names.  maps: whether the file can be mapped.
\* moduleSymbolStreamIndices: one for every module.
IsInfoOf(w, f) ==
  /\ IsWritten(f.info, w)
  /\ w.entries \in Seq([name : Nat, stream : Nat]) /\ w.codes \in Seq(f.featureCodes)
  /\ f.featureCodes = {w.codes[i] : i \in DOMAIN w.codes}
  /\ \A i, j \in DOMAIN w.entries :
       IsNames(f.info, w, i) /\ IsNames(f.info, w, j) => i = j
  /\ \A i \in DOMAIN w.entries : IsNames(f.info, w, i) => f.names = w.entries[i].stream
  /\ (\A i \in DOMAIN w.entries : ~ IsNames(f.info, w, i)) => f.names = 0

ASSUME MainFilesAssumption ==
  \A f \in Files :
    /\ {TPIStreamIndex, IPIStreamIndex} \subseteq DOMAIN f.streamSize
    /\ IsFiniteSet(DOMAIN f.streamSize)
    /\ DOMAIN f.streamSize = 0 .. (Cardinality(DOMAIN f.streamSize) - 1)
    /\ f.size \in Nat /\ f.blockCount \in Nat /\ f.blockSize \in Nat
    /\ f.featureCodes \subseteq {VC110, VC140, NoTypeMerge, MinimalDebugInfo}
    /\ IsInfoOf(f.writer, f)
    /\ {f.tpiVerdict, f.ipiVerdict} \subseteq Verdicts \ {"signature"}
    /\ f.maps \in BOOLEAN /\ f.magic \in BOOLEAN
    /\ f.moduleSymbolStreamIndices \in Seq(DOMAIN f.streamSize \cup {NilStreamIndex})

\* The feature codes promise an IPI stream, and it is there.
KeepsIPIPromise(f) ==
  f.featureCodes \cap {VC110, VC140} # {} => f.streamSize[IPIStreamIndex] >= SizeOfIPIHeader

VARIABLES pc,                 \* the next check, "examples", or "returned"
          mapped,             \* pdbFile.baseAddress # nullptr
          closes,             \* calls of MemoryMappedFile::Close
          exitCode,
          infoStream,
          streamSizes         \* the streams vector of ExamplePDBSize, then what it prints

vars == <<dbiVars, pc, mapped, closes, exitCode, infoStream, streamSizes>>

NoInfoStream == [namesStreamIndex |-> 0, usesDebugFastLink |-> FALSE, hasIPIStream |-> FALSE]

Init ==
  /\ file \in Files
  /\ m_header = NoHeader /\ read = NoRead /\ substreams = {}
  /\ pc = "open" /\ mapped = FALSE /\ closes = 0 /\ exitCode = 0
  /\ infoStream = NoInfoStream
  /\ streamSizes = <<>>

\* Only success means there was no error.
IsError(error) == error # "Success"

Return(code) == pc' = "returned" /\ exitCode' = code

\* The mapping forgotten, for a variant below.
ReturnOnly(code) == Return(code) /\ UNCHANGED <<mapped, closes>>

CloseAndReturn(code) ==
  /\ Return(code)
  /\ mapped' = FALSE
  /\ closes' = closes + 1

Proceed(next) == pc' = next /\ UNCHANGED <<mapped, closes, exitCode>>

\* What main does with the result of a check.
Decide(error, next, code) ==
  IF IsError(error) THEN CloseAndReturn(code) ELSE Proceed(next)

Open ==
  /\ pc = "open"
  /\ \/ ~ file.maps /\ Return(1) /\ UNCHANGED mapped
     \/ file.maps /\ mapped' = TRUE /\ pc' = "file" /\ UNCHANGED exitCode
  /\ UNCHANGED <<dbiVars, closes, infoStream, streamSizes>>

\* PDB::ValidateFile.  The product is one of 32-bit numbers.
ValidateFile ==
  IF file.size < SizeOfSuperBlock THEN "InvalidDataSize"
  ELSE IF ~ file.magic THEN "InvalidSuperBlock"
  ELSE IF file.size < (file.blockCount * file.blockSize) % UInt32Range THEN "InvalidDataSize"
  ELSE IF file.freeBlockMapIndex \notin {1, 2} THEN "InvalidFreeBlockMap"
  ELSE "Success"

CheckFile ==
  /\ pc = "file"
  /\ Decide(ValidateFile, "dbi", 2)
  /\ UNCHANGED <<dbiVars, infoStream, streamSizes>>

\* PDB::CreateRawFile, then PDB::HasValidDBIStream.
CheckDBIStream ==
  /\ pc = "dbi"
  /\ \E error \in ErrorCodes : HasValidDBIStream(error) /\ Decide(error, "info", 3)
  /\ UNCHANGED <<file, m_header, substreams, infoStream, streamSizes>>

CreateInfoStream ==
  /\ pc = "info"
  /\ infoStream' = InfoStreamOf(file.info)
  /\ Proceed("fastLink")
  /\ UNCHANGED <<dbiVars, streamSizes>>

RejectFastLink ==
  /\ pc = "fastLink"
  /\ infoStream.usesDebugFastLink
  /\ CloseAndReturn(4)
  /\ UNCHANGED <<dbiVars, infoStream, streamSizes>>

OpenDBIStream ==
  /\ pc = "fastLink"
  /\ ~ infoStream.usesDebugFastLink
  /\ CreateDBIStream
  /\ Proceed("symbolRecords")
  /\ UNCHANGED <<infoStream, streamSizes>>

\* HasValidDBIStreams: the first of five checks to fail decides.
CheckSubstream(stage, check(_), next) ==
  /\ pc = stage
  /\ \E error \in ErrorCodes : check(error) /\ Decide(error, next, 5)
  /\ UNCHANGED <<file, m_header, substreams, infoStream, streamSizes>>

HasValidDBIStreams ==
  \/ CheckSubstream("symbolRecords", HasValidSymbolRecordStream, "publics")
  \/ CheckSubstream("publics", HasValidPublicSymbolStream, "globals")
  \/ CheckSubstream("globals", HasValidGlobalSymbolStream, "contributions")
  \/ CheckSubstream("contributions", HasValidSectionContributionStream, "sections")
  \/ CheckSubstream("sections", HasValidImageSectionStream, "tpi")

\* PDB::HasValidTPIStream and PDB::HasValidIPIStream
HasValidHeader(index, size, verdict, error) ==
  \/ /\ file.streamSize[index] < size
     /\ error = "InvalidStream"
     /\ UNCHANGED read
  \/ /\ file.streamSize[index] >= size
     /\ ReadAtOffset(index, 0, size)
     /\ error = ErrorOf(verdict)

CheckTPIStream ==
  /\ pc = "tpi"
  /\ \E error \in ErrorCodes :
       /\ HasValidHeader(TPIStreamIndex, SizeOfTPIHeader, file.tpiVerdict, error)
       /\ Decide(error, "createTPI", 5)
  /\ UNCHANGED <<file, m_header, substreams, infoStream, streamSizes>>

CreateTPIStream ==
  /\ pc = "createTPI"
  /\ ReadAtOffset(TPIStreamIndex, 0, SizeOfTPIHeader)
  /\ Proceed(IF infoStream.hasIPIStream THEN "ipi" ELSE "knownStreams")
  /\ UNCHANGED <<file, m_header, substreams, infoStream, streamSizes>>

\* Variant: a file without a usable IPI stream is left mapped.
CheckIPIStreamWithoutClose ==
  /\ pc = "ipi"
  /\ \E error \in ErrorCodes :
       /\ HasValidHeader(IPIStreamIndex, SizeOfIPIHeader, file.ipiVerdict, error)
       /\ IF error # "InvalidStream" /\ IsError(error) THEN ReturnOnly(5)
                                                       ELSE Proceed("createIPI")
  /\ UNCHANGED <<file, m_header, substreams, infoStream, streamSizes>>

\* An invalid stream is no reason to stop.
CheckIPIStream ==
  /\ pc = "ipi"
  /\ \E error \in ErrorCodes :
       /\ HasValidHeader(IPIStreamIndex, SizeOfIPIHeader, file.ipiVerdict, error)
       /\ IF error # "InvalidStream" /\ IsError(error) THEN CloseAndReturn(5)
                                                       ELSE Proceed("createIPI")
  /\ UNCHANGED <<file, m_header, substreams, infoStream, streamSizes>>

CreateIPIStream ==
  /\ pc = "createIPI"
  /\ ReadAtOffset(IPIStreamIndex, 0, SizeOfIPIHeader)
  /\ Proceed("knownStreams")
  /\ UNCHANGED <<file, m_header, substreams, infoStream, streamSizes>>

\* ExamplePDBSize goes through the sizes of the streams it knows, of the modules'
\* streams, and of all streams.  Looking up a size reads no byte of the stream, but
\* is not checked: an index there is no stream for leads behind the array.  What is
\* printed, the largest of the known and the modules' streams, is left out.
KnownStreams == <<TPIStreamIndex, DBIStreamIndex, IPIStreamIndex, m_header.globalStreamIndex,
                  m_header.publicStreamIndex, m_header.symbolRecordStreamIndex>>

GetStreamCount == Cardinality(DOMAIN file.streamSize)

GetStreamSize(index) ==
  /\ ReadAtOffset(index, 0, 0)
  /\ streamSizes' = Append(streamSizes, file.streamSize[index])

PrintKnownStream ==
  /\ pc = "knownStreams" /\ Len(streamSizes) < Len(KnownStreams)
  /\ LET n == Len(streamSizes) + 1
     IN  IF n <= 3 /\ KnownStreams[n] >= GetStreamCount
           THEN streamSizes' = Append(streamSizes, 0) /\ UNCHANGED read
           ELSE GetStreamSize(KnownStreams[n])
  /\ UNCHANGED <<file, m_header, substreams, pc, mapped, closes, exitCode, infoStream>>

ReadModules ==
  /\ pc = "knownStreams" /\ Len(streamSizes) = Len(KnownStreams)
  /\ CreateModuleInfoStream
  /\ Proceed("moduleStreams")
  /\ UNCHANGED <<infoStream, streamSizes>>

\* A module has no symbol stream, or its symbols are in stream 0, which is none either.
PrintModuleStream ==
  /\ pc = "moduleStreams"
  /\ LET module == Len(streamSizes) - Len(KnownStreams) + 1
     IN  /\ module \in DOMAIN file.moduleSymbolStreamIndices
         /\ IF file.moduleSymbolStreamIndices[module] \in {0, NilStreamIndex}
              THEN streamSizes' = Append(streamSizes, 0) /\ UNCHANGED read
              ELSE GetStreamSize(file.moduleSymbolStreamIndices[module])
  /\ UNCHANGED <<file, m_header, substreams, pc, mapped, closes, exitCode, infoStream>>

\* The vector is sorted and its largest streams are printed.
SortStreams ==
  /\ pc = "moduleStreams"
  /\ Len(streamSizes) = Len(KnownStreams) + Len(file.moduleSymbolStreamIndices)
  /\ streamSizes' = <<>>
  /\ Proceed("allStreams")
  /\ UNCHANGED <<dbiVars, infoStream>>

PrintStream ==
  /\ pc = "allStreams" /\ Len(streamSizes) < GetStreamCount
  /\ GetStreamSize(Len(streamSizes))
  /\ UNCHANGED <<file, m_header, substreams, pc, mapped, closes, exitCode, infoStream>>

FinishPDBSize ==
  /\ pc = "allStreams" /\ Len(streamSizes) = GetStreamCount
  /\ Proceed("examples")
  /\ UNCHANGED <<dbiVars, infoStream, streamSizes>>

ExamplePDBSize == \/ PrintKnownStream \/ ReadModules \/ PrintModuleStream
                  \/ SortStreams \/ PrintStream \/ FinishPDBSize

\* Any other example creates the streams it works on; those create them in many orders.
RunExample ==
  /\ pc = "examples"
  /\ CreateSubstream
  /\ UNCHANGED <<pc, mapped, closes, exitCode, infoStream, streamSizes>>

FinishExamples ==
  /\ pc = "examples"
  /\ CloseAndReturn(0)
  /\ UNCHANGED <<dbiVars, infoStream, streamSizes>>

Next ==
  \/ Open \/ CheckFile \/ CheckDBIStream
  \/ CreateInfoStream \/ RejectFastLink \/ OpenDBIStream
  \/ HasValidDBIStreams
  \/ CheckTPIStream \/ CreateTPIStream
  \/ CheckIPIStream \/ CreateIPIStream
  \/ ExamplePDBSize \/ RunExample \/ FinishExamples

Spec == Init /\ [][Next]_vars

-----------------------------------------------------------------------------

\* Eight ways lead out of main: whichever it takes, a file that was mapped is
\* unmapped exactly once, and not before the last stream has been read.
MappingReleased ==
  /\ mapped <=> pc \notin {"open", "returned"}
  /\ closes = IF pc = "returned" /\ file.maps THEN 1 ELSE 0

\* "Returns whether the PDB file was linked using /DEBUG:FASTLINK", "whether the PDB
\* file has an IPI stream", and which stream the names are in: what main goes by is
\* what the linker wrote, however long the parts are that lie in front of it.
InfoStreamIsRead ==
  pc \notin {"open", "file", "dbi", "info", "returned"} =>
    infoStream = [namesStreamIndex |-> file.names,
                  usesDebugFastLink |-> MinimalDebugInfo \in file.featureCodes,
                  hasIPIStream |-> file.featureCodes \cap {VC110, VC140} # {}]

=============================================================================
