----------------------------- MODULE DBIStream -----------------------------
(***************************************************************************)
(* PDB_DBIStream: the header of the DBI stream names other streams and     *)
(* holds the sizes of the sub-streams that follow it in a fixed order.     *)
(* HasValid functions decide whether a sub-stream can be created, Create   *)
(* functions read what they need of it and trust that decision.            *)
(***************************************************************************)
EXTENDS PDBUtil

CONSTANTS Files,          \* the files that can be opened
          UInt32Range,    \* 2^32: sums of 32-bit sizes wrap around
          NilStreamIndex  \* 0xFFFF

ASSUME UInt32RangeAssumption == UInt32Range \in Nat \ {0}

ErrorCodes == {"Success", "InvalidDataSize", "InvalidSuperBlock", "InvalidFreeBlockMap",
               "InvalidStream", "InvalidSignature", "InvalidStreamIndex", "UnknownVersion"}

DBIStreamIndex == 3
SizeOfDBIHeader == 64             \* sizeof(DBI::StreamHeader)
SizeOfDebugHeader == 22           \* sizeof(DBI::DebugHeader)
SizeOfVersion == 4                \* sizeof(DBI::SectionContribution::Version)
SizeOfPublicStreamHeader == 28    \* sizeof(PublicStreamHeader)
SizeOfHashTableHeader == 16       \* sizeof(HashTableHeader)

\* The sub-streams, in the order they follow the header.
SubstreamSizes == <<"moduleInfoSize", "sectionContributionSize", "sectionMapSize",
                    "sourceInfoSize", "typeServerMapSize", "ecSize">>

\* All that a header says lies behind it, and where that ends.
EndOfSubstreams(h) ==
  SizeOfDBIHeader + h.moduleInfoSize + h.sectionContributionSize + h.sectionMapSize
    + h.sourceInfoSize + h.typeServerMapSize + h.ecSize

\* A header is the one of a DBI stream that holds every sub-stream.  The streams it
\* names exist, and begin with the headers they are to begin with.
IsHeaderOf(h, f) ==
  /\ EndOfSubstreams(h) <= f.streamSize[DBIStreamIndex]
  /\ {h.symbolRecordStreamIndex, h.publicStreamIndex, h.globalStreamIndex}
       \subseteq DOMAIN f.streamSize \cup {NilStreamIndex}
  /\ h.publicStreamIndex # NilStreamIndex =>
       f.streamSize[h.publicStreamIndex] >= SizeOfPublicStreamHeader + SizeOfHashTableHeader
  /\ h.globalStreamIndex # NilStreamIndex =>
       f.streamSize[h.globalStreamIndex] >= SizeOfHashTableHeader

\* streamSize[i] is the size of stream i.  Of a header it matters whether it shows
\* the expected signature or version, "ok", or what it fails on.
Verdicts == {"ok", "signature", "version"}
ASSUME FilesAssumption ==
  /\ NilStreamIndex \in Nat
  /\ \A f \in Files :
       /\ NilStreamIndex \notin DOMAIN f.streamSize
       /\ DBIStreamIndex \in DOMAIN f.streamSize
       /\ \A i \in DOMAIN f.streamSize : f.streamSize[i] \in 0 .. (UInt32Range - 1)
       /\ \A k \in DOMAIN SubstreamSizes :
            f.dbiHeader[SubstreamSizes[k]] \in 0 .. (UInt32Range - 1)
       /\ f.streamSize[DBIStreamIndex] >= SizeOfDBIHeader => IsHeaderOf(f.dbiHeader, f)
       /\ {f.dbiVerdict, f.publicVerdict, f.globalVerdict, f.contributionVerdict} \subseteq Verdicts

VARIABLES file,           \* the file main was given
          m_header,       \* of the DBIStream; its m_stream is the DBI stream of the file
          read,           \* the last bytes of a stream that were asked for
          substreams      \* the streams created from the DBIStream

dbiVars == <<file, m_header, read, substreams>>

\* The header of a default-constructed DBIStream.
NoHeader ==
  [moduleInfoSize |-> 0, sectionContributionSize |-> 0, sectionMapSize |-> 0,
   sourceInfoSize |-> 0, typeServerMapSize |-> 0, ecSize |-> 0,
   optionalDebugHeaderSize |-> 0, symbolRecordStreamIndex |-> 0,
   publicStreamIndex |-> 0, globalStreamIndex |-> 0]

\* stream.ReadAtOffset<T>(offset)
ReadAtOffset(index, offset, size) ==
  read' = [stream |-> index, offset |-> offset, size |-> size]
NoRead == [stream |-> DBIStreamIndex, offset |-> 0, size |-> 0]

ErrorOf(verdict) == CASE verdict = "ok" -> "Success"
                      [] verdict = "signature" -> "InvalidSignature"
                      [] verdict = "version" -> "UnknownVersion"

-----------------------------------------------------------------------------

GetModuleInfoSubstreamOffset == SizeOfDBIHeader
GetSectionContributionSubstreamOffset ==
  (GetModuleInfoSubstreamOffset + m_header.moduleInfoSize) % UInt32Range

\* Variant: the size of the section contributions is forgotten.
GetSectionMapSubstreamOffsetAtContributions == GetSectionContributionSubstreamOffset

GetSectionMapSubstreamOffset ==
  (GetSectionContributionSubstreamOffset + m_header.sectionContributionSize) % UInt32Range

GetSourceInfoSubstreamOffset ==
  (GetSectionMapSubstreamOffset + m_header.sectionMapSize) % UInt32Range
GetTypeServerMapSubstreamOffset ==
  (GetSourceInfoSubstreamOffset + m_header.sourceInfoSize) % UInt32Range
GetECSubstreamOffset ==
  (GetTypeServerMapSubstreamOffset + m_header.typeServerMapSize) % UInt32Range
GetDebugHeaderSubstreamOffset == (GetECSubstreamOffset + m_header.ecSize) % UInt32Range
HasDebugHeaderSubstream == m_header.optionalDebugHeaderSize # 0

\* The HasValid functions, as relations between the result and what they read.
HasValidDBIStream(error) ==
  \/ /\ file.streamSize[DBIStreamIndex] < SizeOfDBIHeader
     /\ error = "InvalidStream"
     /\ UNCHANGED read
  \/ /\ file.streamSize[DBIStreamIndex] >= SizeOfDBIHeader
     /\ ReadAtOffset(DBIStreamIndex, 0, SizeOfDBIHeader)
     /\ error = ErrorOf(file.dbiVerdict)

HasValidSymbolRecordStream(error) ==
  /\ error = IF m_header.symbolRecordStreamIndex # NilStreamIndex
               THEN "Success" ELSE "InvalidStreamIndex"
  /\ UNCHANGED read

\* Variant: a debug header that is claimed is taken to be there.
HasValidImageSectionStreamIfClaimed(error) ==
  \/ /\ ~ HasDebugHeaderSubstream
     /\ error = "InvalidStreamIndex"
     /\ UNCHANGED read
  \/ /\ HasDebugHeaderSubstream
     /\ ReadAtOffset(DBIStreamIndex, GetDebugHeaderSubstreamOffset, SizeOfDebugHeader)
     /\ error = IF file.sectionHeaderStreamIndex # NilStreamIndex
                  THEN "Success" ELSE "InvalidStreamIndex"

HasValidImageSectionStream(error) ==
  \/ /\ ~ HasDebugHeaderSubstream
     /\ error = "InvalidStreamIndex"
     /\ UNCHANGED read
  \/ /\ HasDebugHeaderSubstream
     /\ GetDebugHeaderSubstreamOffset + SizeOfDebugHeader > file.streamSize[DBIStreamIndex]
     /\ error = "InvalidStream"
     /\ UNCHANGED read
  \/ /\ HasDebugHeaderSubstream
     /\ GetDebugHeaderSubstreamOffset + SizeOfDebugHeader <= file.streamSize[DBIStreamIndex]
     /\ ReadAtOffset(DBIStreamIndex, GetDebugHeaderSubstreamOffset, SizeOfDebugHeader)
     /\ error = IF file.sectionHeaderStreamIndex # NilStreamIndex
                  THEN "Success" ELSE "InvalidStreamIndex"

HasValidPublicSymbolStream(error) ==
  \/ /\ m_header.publicStreamIndex = NilStreamIndex
     /\ error = "InvalidStreamIndex"
     /\ UNCHANGED read
  \/ /\ m_header.publicStreamIndex # NilStreamIndex
     /\ ReadAtOffset(m_header.publicStreamIndex, SizeOfPublicStreamHeader, SizeOfHashTableHeader)
     /\ error = ErrorOf(file.publicVerdict)

HasValidGlobalSymbolStream(error) ==
  \/ /\ m_header.globalStreamIndex = NilStreamIndex
     /\ error = "InvalidStreamIndex"
     /\ UNCHANGED read
  \/ /\ m_header.globalStreamIndex # NilStreamIndex
     /\ ReadAtOffset(m_header.globalStreamIndex, 0, SizeOfHashTableHeader)
     /\ error = ErrorOf(file.globalVerdict)

HasValidSectionContributionStream(error) ==
  \/ /\ m_header.sectionContributionSize < SizeOfVersion
     /\ error = "InvalidStream"
     /\ UNCHANGED read
  \/ /\ m_header.sectionContributionSize >= SizeOfVersion
     /\ ReadAtOffset(DBIStreamIndex, GetSectionContributionSubstreamOffset, SizeOfVersion)
     /\ error = ErrorOf(file.contributionVerdict)

-----------------------------------------------------------------------------

CreateDBIStream ==
  /\ ReadAtOffset(DBIStreamIndex, 0, SizeOfDBIHeader)
  /\ m_header' = file.dbiHeader
  /\ UNCHANGED <<file, substreams>>

Handed(name, index, offset, size) ==
  substreams' = substreams \cup
    {[name |-> name, stream |-> index, offset |-> offset, size |-> size]}

\* Coalesced as a whole: an index that names a stream of the file is all it takes.
CreateSymbolRecordStream ==
  /\ ReadAtOffset(m_header.symbolRecordStreamIndex, 0, 0)
  /\ UNCHANGED <<file, m_header, substreams>>

CreateImageSectionStream ==
  /\ ReadAtOffset(DBIStreamIndex, GetDebugHeaderSubstreamOffset, SizeOfDebugHeader)
  /\ Handed("DebugHeader", DBIStreamIndex, GetDebugHeaderSubstreamOffset, SizeOfDebugHeader)
  /\ UNCHANGED <<file, m_header>>

CreatePublicSymbolStream ==
  /\ ReadAtOffset(m_header.publicStreamIndex, SizeOfPublicStreamHeader, SizeOfHashTableHeader)
  /\ UNCHANGED <<file, m_header, substreams>>

CreateGlobalSymbolStream ==
  /\ ReadAtOffset(m_header.globalStreamIndex, 0, SizeOfHashTableHeader)
  /\ UNCHANGED <<file, m_header, substreams>>

CreateSourceFileStream ==
  /\ Handed("SourceInfo", DBIStreamIndex, GetSourceInfoSubstreamOffset, m_header.sourceInfoSize)
  /\ UNCHANGED <<file, m_header, read>>

CreateSectionContributionStream ==
  /\ Handed("SectionContribution", DBIStreamIndex,
            GetSectionContributionSubstreamOffset + SizeOfVersion,
            m_header.sectionContributionSize - SizeOfVersion)
  /\ UNCHANGED <<file, m_header, read>>

CreateModuleInfoStream ==
  /\ Handed("ModuleInfo", DBIStreamIndex, GetModuleInfoSubstreamOffset, m_header.moduleInfoSize)
  /\ UNCHANGED <<file, m_header, read>>

CreateSubstream ==
  \/ CreateSymbolRecordStream
  \/ CreateImageSectionStream
  \/ CreatePublicSymbolStream
  \/ CreateGlobalSymbolStream
  \/ CreateSourceFileStream
  \/ CreateSectionContributionStream
  \/ CreateModuleInfoStream

-----------------------------------------------------------------------------

InStream(range) ==
  /\ range.stream \in DOMAIN file.streamSize
  /\ range.offset + range.size <= file.streamSize[range.stream]

\* "Not enough data left to read": whatever sub-stream, stream index or TPI or IPI
\* header is missing or cut short, what was validated before is enough for every read
\* to stay in its stream.  Nothing validates that the public and the global stream hold
\* the headers read from them, nor that the DBI stream holds what its header says:
\* that much is taken for granted (IsHeaderOf).
ReadsStayInStream == InStream(read)

\* Sub-streams handed out lie behind the header and in the stream, and no two of
\* them share a byte: what one reads as its data is nothing of another's.
SubstreamsDisjoint ==
  \A s \in substreams :
    /\ s.offset >= SizeOfDBIHeader
    /\ InStream(s)
    /\ \A t \in substreams \ {s} :
         s.offset + s.size <= t.offset \/ t.offset + t.size <= s.offset
=============================================================================
