------------------------- MODULE ExampleMainProofs -------------------------
(***************************************************************************)
(* Proofs about ExampleMain: every way out of main releases the mapping,   *)
(* the info stream says what the linker wrote into it, and each read and   *)
(* each sub-stream stays in its stream, because the checks main made on    *)
(* its way to the read leave it no other choice.                           *)
(***************************************************************************)
EXTENDS ExampleMain, FiniteSetTheorems, TLAPS

-----------------------------------------------------------------------------
\* The checks of main, each with the stages behind it.

PDBSizeStages == {"knownStreams", "moduleStreams", "allStreams"}
BehindIPI == PDBSizeStages \cup {"examples"}
BehindTPI == BehindIPI \cup {"createTPI", "ipi", "createIPI"}
BehindSections == BehindTPI \cup {"tpi"}
BehindContributions == BehindSections \cup {"sections"}
BehindGlobals == BehindContributions \cup {"contributions"}
BehindPublics == BehindGlobals \cup {"globals"}
BehindSymbolRecords == BehindPublics \cup {"publics"}
BehindOpening == BehindSymbolRecords \cup {"symbolRecords"}
BehindInfo == BehindOpening \cup {"fastLink"}
BehindDBI == BehindInfo \cup {"info"}
Stages == BehindDBI \cup {"open", "file", "dbi", "returned"}

\* What a check that was passed says of the file and its header.
HasDBIHeader(f) == f.streamSize[DBIStreamIndex] >= SizeOfDBIHeader
HasVersion(h) == h.sectionContributionSize >= SizeOfVersion
HasDebugHeader(h, f) ==
  EndOfSubstreams(h) + SizeOfDebugHeader <= f.streamSize[DBIStreamIndex]

ChecksPassed ==
  /\ pc \in BehindDBI => HasDBIHeader(file)
  /\ pc \in BehindOpening => m_header = file.dbiHeader
  /\ pc \in BehindSymbolRecords => m_header.symbolRecordStreamIndex # NilStreamIndex
  /\ pc \in BehindPublics => m_header.publicStreamIndex # NilStreamIndex
  /\ pc \in BehindGlobals => m_header.globalStreamIndex # NilStreamIndex
  /\ pc \in BehindContributions => HasVersion(m_header)
  /\ pc \in BehindSections => HasDebugHeader(m_header, file)
  /\ pc \in BehindTPI => file.streamSize[TPIStreamIndex] >= SizeOfTPIHeader
  /\ pc \in {"ipi", "createIPI"} => infoStream.hasIPIStream

\* How far the vector of ExamplePDBSize has got.
SizesOfStage ==
  /\ streamSizes \in Seq(Nat)
  /\ pc \notin PDBSizeStages \cup {"examples", "returned"} => streamSizes = <<>>
  /\ pc = "knownStreams" => Len(streamSizes) <= Len(KnownStreams)
  /\ pc = "moduleStreams" =>
       Len(streamSizes) \in Len(KnownStreams) ..
                              Len(KnownStreams) + Len(file.moduleSymbolStreamIndices)
  /\ pc = "allStreams" => Len(streamSizes) <= GetStreamCount

\* The sub-streams that a header h places, without wrapping around.
Placed(h) ==
  {[name |-> "ModuleInfo", stream |-> DBIStreamIndex,
    offset |-> SizeOfDBIHeader, size |-> h.moduleInfoSize],
   [name |-> "SectionContribution", stream |-> DBIStreamIndex,
    offset |-> SizeOfDBIHeader + h.moduleInfoSize + SizeOfVersion,
    size |-> h.sectionContributionSize - SizeOfVersion],
   [name |-> "SourceInfo", stream |-> DBIStreamIndex,
    offset |-> SizeOfDBIHeader + h.moduleInfoSize + h.sectionContributionSize + h.sectionMapSize,
    size |-> h.sourceInfoSize],
   [name |-> "DebugHeader", stream |-> DBIStreamIndex,
    offset |-> EndOfSubstreams(h), size |-> SizeOfDebugHeader]}

SubstreamsPlaced ==
  substreams # {} =>
    /\ HasDBIHeader(file)
    /\ HasVersion(file.dbiHeader)
    /\ HasDebugHeader(file.dbiHeader, file)
    /\ substreams \subseteq Placed(file.dbiHeader)

\* Only a mapped file is checked.
TypeOK == file \in Files /\ pc \in Stages /\ mapped \in BOOLEAN
FileIsMapped == pc \notin {"open", "returned"} => file.maps

MappingInv == TypeOK /\ FileIsMapped /\ MappingReleased

-----------------------------------------------------------------------------
\* The mapping.

LEMMA MappingInit == Init => MappingInv
  BY DEF Init, MappingInv, TypeOK, Stages, FileIsMapped, MappingReleased

\* Only these two things happen to the mapping once it is there.
Goes == /\ pc' \in Stages \ {"open", "returned"}
        /\ UNCHANGED <<file, mapped, closes>>
Leaves == /\ pc' = "returned" /\ mapped' = FALSE /\ closes' = closes + 1
          /\ UNCHANGED file

LEMMA StepGoesOrLeaves ==
  ASSUME TypeOK, Next, ~ Open
  PROVE  pc \notin {"open", "returned"} /\ (Goes \/ Leaves)
<1> USE DEF TypeOK, Goes, Leaves, Stages, BehindDBI, BehindInfo, BehindOpening,
      BehindSymbolRecords, BehindPublics, BehindGlobals, BehindContributions,
      BehindSections, BehindTPI, BehindIPI, PDBSizeStages,
      CloseAndReturn, Return, Proceed, dbiVars
<1>1. CASE CheckFile
  BY <1>1 DEF CheckFile, Decide
<1>2. CASE CheckDBIStream
  BY <1>2 DEF CheckDBIStream, Decide
<1>3. CASE CreateInfoStream \/ RejectFastLink
  BY <1>3 DEF CreateInfoStream, RejectFastLink
<1>4. CASE OpenDBIStream
  BY <1>4 DEF OpenDBIStream, CreateDBIStream
<1>5. CASE HasValidDBIStreams
  BY <1>5 DEF HasValidDBIStreams, CheckSubstream, Decide
<1>6. CASE CheckTPIStream \/ CreateTPIStream
  BY <1>6 DEF CheckTPIStream, CreateTPIStream, Decide
<1>7. CASE CheckIPIStream \/ CreateIPIStream
  BY <1>7 DEF CheckIPIStream, CreateIPIStream
<1>8. CASE ExamplePDBSize
  BY <1>8 DEF ExamplePDBSize, PrintKnownStream, ReadModules, CreateModuleInfoStream,
       PrintModuleStream, SortStreams, PrintStream, FinishPDBSize
<1>9. CASE RunExample
  BY <1>9 DEF RunExample, CreateSubstream, CreateSymbolRecordStream, CreateImageSectionStream,
       CreatePublicSymbolStream, CreateGlobalSymbolStream, CreateSourceFileStream,
       CreateSectionContributionStream, CreateModuleInfoStream
<1>10. CASE FinishExamples
  BY <1>10 DEF FinishExamples
<1> QED
  BY <1>1, <1>2, <1>3, <1>4, <1>5, <1>6, <1>7, <1>8, <1>9, <1>10 DEF Next

LEMMA MappingStep == MappingInv /\ [Next]_vars => MappingInv'
<1> SUFFICES ASSUME MappingInv, [Next]_vars PROVE MappingInv'
  OBVIOUS
<1> USE DEF MappingInv, TypeOK, FileIsMapped, MappingReleased
<1>1. CASE Next /\ ~ Open
  <2>1. pc \notin {"open", "returned"} /\ file.maps /\ closes = 0 /\ (Goes \/ Leaves)
    BY <1>1, StepGoesOrLeaves
  <2>2. CASE Goes
    BY <2>1, <2>2, Zenon DEF Goes
  <2>3. CASE Leaves
    <3>1. closes' = 1
      BY <2>1, <2>3 DEF Leaves
    <3>2. "returned" \in Stages
      BY DEF Stages
    <3> QED
      BY <2>1, <2>3, <3>1, <3>2, Zenon DEF Leaves
  <2> QED
    BY <2>1, <2>2, <2>3
<1>2. CASE Open
  <2>1. file' = file /\ closes' = closes /\ closes = 0
    BY <1>2 DEF Open, dbiVars
  <2>2. file.maps \in BOOLEAN
    BY MainFilesAssumption
  <2>3. CASE ~ file.maps
    BY <1>2, <2>1, <2>2, <2>3 DEF Open, Return, Stages
  <2>4. CASE file.maps
    BY <1>2, <2>1, <2>2, <2>4 DEF Open, Return, Stages
  <2> QED
    BY <2>3, <2>4
<1>3. CASE UNCHANGED vars
  BY <1>3 DEF vars, dbiVars
<1> QED
  BY <1>1, <1>2, <1>3

\* Whichever way main takes, the mapping of the file is released exactly once, and
\* only when the last stream has been read (ExampleMain.cpp:111).
THEOREM MappingAlwaysReleased == Spec => []MappingReleased
<1>1. MappingInv => MappingReleased
  BY DEF MappingInv
<1> QED
  BY <1>1, MappingInit, MappingStep, PTL DEF Spec

-----------------------------------------------------------------------------
\* The info stream.

LEMMA PartsAreFound ==
  ASSUME NEW s, NEW w, IsWritten(s, w), Len(w.entries) \in Nat
  PROVE  /\ EntryCount(s) = Len(w.entries)
         /\ WrittenEntries(w) \in Nat
         /\ HashEntries(s) = WrittenEntries(w)
<1>1. /\ w.length \in Nat /\ w.present \in Nat /\ w.deleted \in Nat
      /\ s.word[SizeOfHeader] = w.length
      /\ s.word[WrittenTable(w)] = Len(w.entries)
      /\ s.word[WrittenTable(w) + 2 * SizeOfUInt32] = w.present
      /\ s.word[WrittenDeleted(w)] = w.deleted
  BY DEF IsWritten
<1>2. HashTable(s) = WrittenTable(w) /\ WrittenTable(w) \in Nat
  BY <1>1 DEF HashTable, WrittenTable, SizeOfHeader, SizeOfUInt32
<1>3. /\ BehindBitVector(s, WrittenTable(w) + 2 * SizeOfUInt32) = WrittenDeleted(w)
      /\ WrittenDeleted(w) \in Nat
  BY <1>1, <1>2 DEF BehindBitVector, WrittenDeleted, SizeOfUInt32
<1>4. /\ BehindBitVector(s, WrittenDeleted(w)) = WrittenEntries(w)
      /\ WrittenEntries(w) \in Nat
  BY <1>1, <1>3 DEF BehindBitVector, WrittenEntries, SizeOfUInt32
<1> QED
  BY <1>1, <1>2, <1>3, <1>4 DEF EntryCount, HashEntries

LEMMA EntriesAreRead ==
  ASSUME NEW s, NEW w, IsWritten(s, w), Len(w.entries) \in Nat, NEW i \in DOMAIN w.entries
  PROVE  /\ s.word[HashEntry(s, i - 1)] = w.entries[i].name
         /\ s.word[HashEntry(s, i - 1) + SizeOfUInt32] = w.entries[i].stream
<1>1. HashEntries(s) = WrittenEntries(w)
  BY PartsAreFound
<1> QED
  BY <1>1 DEF IsWritten, HashEntry

LEMMA CodesAreRead ==
  ASSUME NEW s, NEW w, IsWritten(s, w), Len(w.entries) \in Nat, Len(w.codes) \in Nat,
         DOMAIN w.codes = 1 .. Len(w.codes)
  PROVE  FeatureCodes(s) = {w.codes[i] : i \in DOMAIN w.codes}
<1> DEFINE start == HashEntry(s, EntryCount(s))
<1>1. start = WrittenCodes(w) /\ start \in Nat
  BY PartsAreFound DEF HashEntry, WrittenCodes, SizeOfUInt32
<1>2. (s.size - start) \div SizeOfUInt32 = Len(w.codes)
  <2>1. s.size = start + 4 * Len(w.codes)
    BY <1>1 DEF IsWritten, SizeOfUInt32
  <2> QED
    BY <1>1, <2>1 DEF SizeOfUInt32
<1>3. \A i \in DOMAIN w.codes : s.word[start + SizeOfUInt32 * (i - 1)] = w.codes[i]
  BY <1>1 DEF IsWritten
<1>4. FeatureCodes(s) = {s.word[start + SizeOfUInt32 * i] : i \in 0 .. (Len(w.codes) - 1)}
  BY <1>2 DEF FeatureCodes
<1> HIDE DEF start
<1>5. ASSUME NEW i \in 0 .. (Len(w.codes) - 1)
      PROVE  s.word[start + SizeOfUInt32 * i] \in {w.codes[j] : j \in DOMAIN w.codes}
  <2>1. i + 1 \in DOMAIN w.codes /\ (i + 1) - 1 = i
    OBVIOUS
  <2> QED
    BY <2>1, <1>3
<1>6. ASSUME NEW i \in DOMAIN w.codes
      PROVE  w.codes[i] \in FeatureCodes(s)
  <2>1. i - 1 \in 0 .. (Len(w.codes) - 1)
    OBVIOUS
  <2> QED
    BY <2>1, <1>3, <1>4
<1> QED
  BY <1>4, <1>5, <1>6

LEMMA NamesAreFound ==
  ASSUME NEW f, NEW w, IsInfoOf(w, f)
  PROVE  NamesStreamIndex(f.info) = f.names
<1> DEFINE s == f.info
           named == {i \in 0 .. (EntryCount(s) - 1) : s.string[s.word[HashEntry(s, i)]] = "/names"}
<1>1. /\ IsWritten(s, w) /\ Len(w.entries) \in Nat /\ Len(w.codes) \in Nat
      /\ DOMAIN w.entries = 1 .. Len(w.entries)
      /\ EntryCount(s) = Len(w.entries)
  BY PartsAreFound DEF IsInfoOf
<1>2. \A i \in Int : i \in named <=> i + 1 \in DOMAIN w.entries /\ IsNames(s, w, i + 1)
  <2> SUFFICES ASSUME NEW i \in Int
               PROVE  i \in named <=> i + 1 \in DOMAIN w.entries /\ IsNames(s, w, i + 1)
    OBVIOUS
  <2>1. i \in 0 .. (EntryCount(s) - 1) <=> i + 1 \in DOMAIN w.entries
    BY <1>1
  <2>2. ASSUME i + 1 \in DOMAIN w.entries
        PROVE  s.word[HashEntry(s, i)] = w.entries[i + 1].name
    <3>1. (i + 1) - 1 = i
      OBVIOUS
    <3> QED
      BY <1>1, <2>2, <3>1, EntriesAreRead
  <2> QED
    BY <2>1, <2>2 DEF IsNames
<1>3. NamesStreamIndex(s) = IF named = {} THEN 0 ELSE s.word[HashEntry(s, Max(named)) + SizeOfUInt32]
  BY DEF NamesStreamIndex
<1>4. named \subseteq Int
  BY <1>1
<1> HIDE DEF named
<1>5. CASE named = {}
  <2>1. ASSUME NEW j \in DOMAIN w.entries PROVE ~ IsNames(s, w, j)
    <3>1. j - 1 \in Int /\ (j - 1) + 1 = j
      BY <1>1
    <3> QED
      BY <1>2, <1>5, <3>1
  <2> QED
    BY <1>3, <1>5, <2>1 DEF IsInfoOf
<1>6. CASE named # {}
  <2>1. PICK i \in named : TRUE
    BY <1>6
  <2>2. i \in Int /\ i + 1 \in 1 .. Len(w.entries) /\ IsNames(s, w, i + 1)
    BY <1>1, <1>2, <1>4, <2>1
  <2>3. ASSUME NEW j \in named PROVE j = i
    <3>1. j \in Int /\ j + 1 \in DOMAIN w.entries /\ IsNames(s, w, j + 1)
      BY <1>2, <1>4
    <3>2. j + 1 = i + 1
      BY <1>1, <2>2, <3>1 DEF IsInfoOf
    <3> QED
      BY <2>2, <3>1, <3>2
  <2>4. named = {i}
    BY <2>1, <2>3
  <2>5. Max(named) = i
    BY <2>2, <2>4 DEF Max
  <2>6. s.word[HashEntry(s, (i + 1) - 1) + SizeOfUInt32] = w.entries[i + 1].stream
    BY <1>1, <2>2, EntriesAreRead
  <2>7. (i + 1) - 1 = i
    BY <2>2
  <2>8. f.names = w.entries[i + 1].stream
    BY <1>1, <2>2 DEF IsInfoOf
  <2> QED
    BY <1>3, <1>6, <2>5, <2>6, <2>7, <2>8
<1> QED
  BY <1>5, <1>6

WrittenInfo(f) ==
  [namesStreamIndex |-> f.names,
   usesDebugFastLink |-> MinimalDebugInfo \in f.featureCodes,
   hasIPIStream |-> f.featureCodes \cap {VC110, VC140} # {}]

LEMMA InfoIsWritten == ASSUME NEW f \in Files PROVE InfoStreamOf(f.info) = WrittenInfo(f)
<1>1. IsInfoOf(f.writer, f)
  BY MainFilesAssumption
<1>2. FeatureCodes(f.info) = f.featureCodes
  BY <1>1, CodesAreRead DEF IsInfoOf
<1> QED
  BY <1>1, <1>2, NamesAreFound DEF InfoStreamOf, WrittenInfo

InfoInv == TypeOK /\ InfoStreamIsRead

LEMMA InfoStep == InfoInv /\ TypeOK' /\ [Next]_vars => InfoInv'
<1> SUFFICES ASSUME InfoInv, TypeOK', [Next]_vars PROVE InfoStreamIsRead'
  BY DEF InfoInv
<1> USE DEF InfoInv, InfoStreamIsRead, CloseAndReturn, Return, Proceed, dbiVars
<1>1. CASE Open \/ CheckFile \/ CheckDBIStream
  BY <1>1 DEF Open, CheckFile, CheckDBIStream, Decide
<1>2. CASE CreateInfoStream
  <2>1. infoStream' = WrittenInfo(file) /\ file' = file
    BY <1>2, InfoIsWritten DEF CreateInfoStream, TypeOK
  <2> QED
    BY <2>1 DEF WrittenInfo
<1>3. CASE RejectFastLink
  BY <1>3 DEF RejectFastLink
<1>4. CASE OpenDBIStream
  BY <1>4 DEF OpenDBIStream, CreateDBIStream
<1>5. CASE HasValidDBIStreams
  BY <1>5 DEF HasValidDBIStreams, CheckSubstream, Decide
<1>6. CASE CheckTPIStream \/ CreateTPIStream
  BY <1>6 DEF CheckTPIStream, CreateTPIStream, Decide
<1>7. CASE CheckIPIStream \/ CreateIPIStream
  BY <1>7 DEF CheckIPIStream, CreateIPIStream
<1>8. CASE ExamplePDBSize
  BY <1>8 DEF ExamplePDBSize, PrintKnownStream, ReadModules, CreateModuleInfoStream,
       PrintModuleStream, SortStreams, PrintStream, FinishPDBSize
<1>9. CASE RunExample
  BY <1>9 DEF RunExample, CreateSubstream, CreateSymbolRecordStream, CreateImageSectionStream,
       CreatePublicSymbolStream, CreateGlobalSymbolStream, CreateSourceFileStream,
       CreateSectionContributionStream, CreateModuleInfoStream
<1>10. CASE FinishExamples
  BY <1>10 DEF FinishExamples
<1>11. CASE UNCHANGED vars
  BY <1>11 DEF vars
<1> QED
  BY <1>1, <1>2, <1>3, <1>4, <1>5, <1>6, <1>7, <1>8, <1>9, <1>10, <1>11 DEF Next

\* What main goes by is what the linker wrote into the info stream, wherever the
\* lengths of its parts put it (PDB_InfoStream.cpp:41).
THEOREM InfoStreamAlwaysIsRead == Spec => []InfoStreamIsRead
<1>1. Init => InfoInv
  BY MappingInit DEF Init, MappingInv, InfoInv, InfoStreamIsRead
<1>2. InfoInv => InfoStreamIsRead
  BY DEF InfoInv
<1>3. MappingInv => TypeOK
  BY DEF MappingInv
<1> QED
  BY <1>1, <1>2, <1>3, MappingInit, MappingStep, InfoStep, PTL DEF Spec

-----------------------------------------------------------------------------
\* The header of the DBI stream, and what it places.

LEMMA HeaderFacts ==
  ASSUME NEW f \in Files, HasDBIHeader(f)
  PROVE  /\ f.dbiHeader.moduleInfoSize \in Nat /\ f.dbiHeader.sectionContributionSize \in Nat
         /\ f.dbiHeader.sectionMapSize \in Nat /\ f.dbiHeader.sourceInfoSize \in Nat
         /\ f.dbiHeader.typeServerMapSize \in Nat /\ f.dbiHeader.ecSize \in Nat
         /\ f.streamSize[DBIStreamIndex] \in 0 .. (UInt32Range - 1)
         /\ EndOfSubstreams(f.dbiHeader) \in Nat
         /\ EndOfSubstreams(f.dbiHeader) <= f.streamSize[DBIStreamIndex]
<1> DEFINE h == f.dbiHeader
<1>1. \A k \in 1 .. 6 : h[SubstreamSizes[k]] \in 0 .. (UInt32Range - 1)
  BY FilesAssumption DEF SubstreamSizes
<1>2. /\ h.moduleInfoSize \in 0 .. (UInt32Range - 1)
      /\ h.sectionContributionSize \in 0 .. (UInt32Range - 1)
      /\ h.sectionMapSize \in 0 .. (UInt32Range - 1)
      /\ h.sourceInfoSize \in 0 .. (UInt32Range - 1)
      /\ h.typeServerMapSize \in 0 .. (UInt32Range - 1)
      /\ h.ecSize \in 0 .. (UInt32Range - 1)
  BY <1>1 DEF SubstreamSizes
<1>3. IsHeaderOf(h, f) /\ f.streamSize[DBIStreamIndex] \in 0 .. (UInt32Range - 1)
  BY FilesAssumption DEF HasDBIHeader
<1> QED
  BY <1>2, <1>3, UInt32RangeAssumption DEF IsHeaderOf, EndOfSubstreams, SizeOfDBIHeader

LEMMA SmallRemainder ==
  ASSUME NEW n \in Nat, NEW m \in Nat, n < m
  PROVE  n % m = n
  OBVIOUS

\* The sums of 32-bit sizes do not wrap around.
LEMMA OffsetsAreSums ==
  ASSUME file \in Files, HasDBIHeader(file), m_header = file.dbiHeader
  PROVE  /\ GetSectionContributionSubstreamOffset = SizeOfDBIHeader + m_header.moduleInfoSize
         /\ GetSourceInfoSubstreamOffset =
              SizeOfDBIHeader + m_header.moduleInfoSize + m_header.sectionContributionSize
                + m_header.sectionMapSize
         /\ GetDebugHeaderSubstreamOffset = EndOfSubstreams(m_header)
<1> DEFINE a == SizeOfDBIHeader + m_header.moduleInfoSize
           b == a + m_header.sectionContributionSize
           c == b + m_header.sectionMapSize
           d == c + m_header.sourceInfoSize
           e == d + m_header.typeServerMapSize
           g == e + m_header.ecSize
<1>1. /\ a \in Nat /\ b \in Nat /\ c \in Nat /\ d \in Nat /\ e \in Nat /\ g \in Nat
      /\ a <= b /\ b <= c /\ c <= d /\ d <= e /\ e <= g
      /\ g = EndOfSubstreams(m_header)
      /\ g < UInt32Range /\ UInt32Range \in Nat
  BY HeaderFacts, UInt32RangeAssumption DEF EndOfSubstreams, SizeOfDBIHeader
<1> HIDE DEF a, b, c, d, e, g
<1>2. /\ a % UInt32Range = a /\ b % UInt32Range = b /\ c % UInt32Range = c
      /\ d % UInt32Range = d /\ e % UInt32Range = e /\ g % UInt32Range = g
  BY <1>1, SmallRemainder
<1>3. GetSectionContributionSubstreamOffset = a
  BY <1>2 DEF GetSectionContributionSubstreamOffset, GetModuleInfoSubstreamOffset, a
<1>4. GetSectionMapSubstreamOffset = b
  BY <1>2, <1>3 DEF GetSectionMapSubstreamOffset, b
<1>5. GetSourceInfoSubstreamOffset = c
  BY <1>2, <1>4 DEF GetSourceInfoSubstreamOffset, c
<1>6. GetTypeServerMapSubstreamOffset = d
  BY <1>2, <1>5 DEF GetTypeServerMapSubstreamOffset, d
<1>7. GetECSubstreamOffset = e
  BY <1>2, <1>6 DEF GetECSubstreamOffset, e
<1>8. GetDebugHeaderSubstreamOffset = g
  BY <1>2, <1>7 DEF GetDebugHeaderSubstreamOffset, g
<1> QED
  BY <1>1, <1>3, <1>5, <1>8 DEF a, b, c

-----------------------------------------------------------------------------
\* Which checks lie behind a stage.

CheckedInv == TypeOK /\ InfoStreamIsRead /\ ChecksPassed

LEMMA CheckedInit == Init => CheckedInv
  BY DEF Init, CheckedInv, TypeOK, InfoStreamIsRead, ChecksPassed, Stages, BehindDBI, BehindInfo,
    BehindOpening, BehindSymbolRecords, BehindPublics, BehindGlobals, BehindContributions,
    BehindSections, BehindTPI, BehindIPI, PDBSizeStages

LEMMA ChecksStep ==
  ASSUME TypeOK, ChecksPassed, [Next]_vars
  PROVE  ChecksPassed'
<1> USE DEF ChecksPassed, Stages, BehindDBI, BehindInfo, BehindOpening,
      BehindSymbolRecords, BehindPublics, BehindGlobals, BehindContributions,
      BehindSections, BehindTPI, BehindIPI, PDBSizeStages
<1>1. CASE Open \/ CheckFile
  BY <1>1 DEF Open, CheckFile, Decide, CloseAndReturn, Return, Proceed
<1>2. CASE CheckDBIStream
  BY <1>2 DEF CheckDBIStream, HasValidDBIStream, Decide, IsError, CloseAndReturn, Return, Proceed,
       HasDBIHeader
<1>3. CASE CreateInfoStream \/ RejectFastLink
  BY <1>3 DEF CreateInfoStream, RejectFastLink, CloseAndReturn, Return, Proceed, dbiVars, HasDBIHeader
<1>4. CASE OpenDBIStream
  BY <1>4 DEF OpenDBIStream, CreateDBIStream, Proceed, HasDBIHeader
<1>5. CASE HasValidDBIStreams
  <2> USE DEF CheckSubstream, Decide, IsError, CloseAndReturn, Return, Proceed, HasDBIHeader
  <2>1. CASE CheckSubstream("symbolRecords", HasValidSymbolRecordStream, "publics")
    BY <2>1 DEF HasValidSymbolRecordStream
  <2>2. CASE CheckSubstream("publics", HasValidPublicSymbolStream, "globals")
    BY <2>2 DEF HasValidPublicSymbolStream
  <2>3. CASE CheckSubstream("globals", HasValidGlobalSymbolStream, "contributions")
    BY <2>3 DEF HasValidGlobalSymbolStream
  <2>4. CASE CheckSubstream("contributions", HasValidSectionContributionStream, "sections")
    BY <2>4 DEF HasValidSectionContributionStream, HasVersion
  <2>5. CASE CheckSubstream("sections", HasValidImageSectionStream, "tpi")
    <3>1. GetDebugHeaderSubstreamOffset = EndOfSubstreams(m_header)
      BY <2>5, OffsetsAreSums DEF TypeOK
    <3> QED
      BY <2>5, <3>1 DEF HasValidImageSectionStream, HasVersion, HasDebugHeader
  <2> QED
    BY <1>5, <2>1, <2>2, <2>3, <2>4, <2>5 DEF HasValidDBIStreams
<1> USE DEF HasDBIHeader, HasVersion, HasDebugHeader, CloseAndReturn, Return, Proceed
<1>6. CASE CheckTPIStream \/ CreateTPIStream
  BY <1>6 DEF CheckTPIStream, HasValidHeader, CreateTPIStream, Decide, IsError
<1>7. CASE CheckIPIStream \/ CreateIPIStream
  BY <1>7 DEF CheckIPIStream, CreateIPIStream
<1>8. CASE ExamplePDBSize
  BY <1>8 DEF ExamplePDBSize, PrintKnownStream, ReadModules, CreateModuleInfoStream,
       PrintModuleStream, SortStreams, PrintStream, FinishPDBSize, dbiVars
<1>9. CASE RunExample
  BY <1>9 DEF RunExample, CreateSubstream, CreateSymbolRecordStream, CreateImageSectionStream,
       CreatePublicSymbolStream, CreateGlobalSymbolStream, CreateSourceFileStream,
       CreateSectionContributionStream, CreateModuleInfoStream
<1>10. CASE FinishExamples
  BY <1>10 DEF FinishExamples, dbiVars
<1>11. CASE UNCHANGED vars
  BY <1>11 DEF vars, dbiVars
<1> QED
  BY <1>1, <1>2, <1>3, <1>4, <1>5, <1>6, <1>7, <1>8, <1>9, <1>10, <1>11 DEF Next

-----------------------------------------------------------------------------
\* The vector of ExamplePDBSize.

LEMMA FilesAreShaped ==
  ASSUME NEW f \in Files
  PROVE  /\ DOMAIN f.streamSize = 0 .. (Cardinality(DOMAIN f.streamSize) - 1)
         /\ Cardinality(DOMAIN f.streamSize) \in Nat
         /\ \A i \in DOMAIN f.streamSize : f.streamSize[i] \in Nat
         /\ {DBIStreamIndex, TPIStreamIndex, IPIStreamIndex} \subseteq DOMAIN f.streamSize
         /\ Len(f.moduleSymbolStreamIndices) \in Nat
         /\ DOMAIN f.moduleSymbolStreamIndices = 1 .. Len(f.moduleSymbolStreamIndices)
         /\ \A m \in DOMAIN f.moduleSymbolStreamIndices :
              f.moduleSymbolStreamIndices[m] \in DOMAIN f.streamSize \cup {NilStreamIndex}
<1>1. Cardinality(DOMAIN f.streamSize) \in Nat
  BY MainFilesAssumption, FS_CardinalityType
<1>2. \A i \in DOMAIN f.streamSize : f.streamSize[i] \in Nat
  BY FilesAssumption, UInt32RangeAssumption
<1>3. f.moduleSymbolStreamIndices \in Seq(DOMAIN f.streamSize \cup {NilStreamIndex})
  BY MainFilesAssumption
<1>4. {DBIStreamIndex, TPIStreamIndex, IPIStreamIndex} \subseteq DOMAIN f.streamSize
  BY MainFilesAssumption, FilesAssumption
<1>5. DOMAIN f.streamSize = 0 .. (Cardinality(DOMAIN f.streamSize) - 1)
  BY MainFilesAssumption
<1> QED
  BY <1>1, <1>2, <1>3, <1>4, <1>5

\* In PrintKnownStream every stream is one of the file.
LEMMA KnownStreamsExist ==
  ASSUME TypeOK, ChecksPassed, pc = "knownStreams"
  PROVE  /\ Len(KnownStreams) = 6
         /\ \A n \in 1 .. 6 : KnownStreams[n] \in DOMAIN file.streamSize
<1>1. IsHeaderOf(m_header, file)
  BY FilesAssumption DEF TypeOK, ChecksPassed, BehindDBI, BehindInfo, BehindOpening,
    BehindSymbolRecords, BehindPublics, BehindGlobals, BehindContributions, BehindSections,
    BehindTPI, BehindIPI, PDBSizeStages, HasDBIHeader
<1>2. {m_header.symbolRecordStreamIndex, m_header.publicStreamIndex, m_header.globalStreamIndex}
        \subseteq DOMAIN file.streamSize
  BY <1>1 DEF IsHeaderOf, ChecksPassed,
    BehindSymbolRecords, BehindPublics, BehindGlobals, BehindContributions, BehindSections,
    BehindTPI, BehindIPI, PDBSizeStages
<1>3. {TPIStreamIndex, DBIStreamIndex, IPIStreamIndex} \subseteq DOMAIN file.streamSize
  BY FilesAreShaped DEF TypeOK
<1>4. Len(KnownStreams) = 6
  BY DEF KnownStreams
<1>5. ASSUME NEW n \in 1 .. 6 PROVE KnownStreams[n] \in DOMAIN file.streamSize
  <2>1. n = 1 \/ n = 2 \/ n = 3 \/ n = 4 \/ n = 5 \/ n = 6
    OBVIOUS
  <2> QED
    BY <1>2, <1>3, <2>1 DEF KnownStreams
<1> QED
  BY <1>4, <1>5

LEMMA SizesStep ==
  ASSUME TypeOK, ChecksPassed, SizesOfStage, [Next]_vars
  PROVE  SizesOfStage'
<1> USE DEF SizesOfStage, PDBSizeStages, CloseAndReturn, Return, Proceed
<1>1. Len(KnownStreams) = 6 /\ Len(KnownStreams)' = 6
  BY DEF KnownStreams
<1>2. /\ GetStreamCount \in Nat
      /\ Len(file.moduleSymbolStreamIndices) \in Nat
  BY FilesAreShaped DEF TypeOK, GetStreamCount
<1>3. CASE Open \/ CheckFile \/ CheckDBIStream
  BY <1>3 DEF Open, CheckFile, CheckDBIStream, Decide
<1>4. CASE CreateInfoStream \/ RejectFastLink \/ OpenDBIStream
  BY <1>4 DEF CreateInfoStream, RejectFastLink, OpenDBIStream
<1>5. CASE HasValidDBIStreams
  BY <1>5 DEF HasValidDBIStreams, CheckSubstream, Decide
<1>6. CASE CheckTPIStream \/ CreateTPIStream
  BY <1>1, <1>6 DEF CheckTPIStream, CreateTPIStream, Decide
<1>7. CASE CheckIPIStream \/ CreateIPIStream
  BY <1>1, <1>7 DEF CheckIPIStream, CreateIPIStream
<1>8. ASSUME NEW size \in Nat, streamSizes' = Append(streamSizes, size)
      PROVE  streamSizes' \in Seq(Nat) /\ Len(streamSizes') = Len(streamSizes) + 1
  BY <1>8
<1>9. CASE PrintKnownStream
  <2>1. pc = "knownStreams" /\ pc' = pc /\ Len(streamSizes) < 6 /\ file' = file
    BY <1>1, <1>9 DEF PrintKnownStream
  <2>2. Len(streamSizes) \in Nat /\ Len(streamSizes) + 1 \in 1 .. 6
    BY <2>1
  <2>3. KnownStreams[Len(streamSizes) + 1] \in DOMAIN file.streamSize
    BY <2>1, <2>2, KnownStreamsExist
  <2>4. file.streamSize[KnownStreams[Len(streamSizes) + 1]] \in Nat
    BY <2>3, FilesAreShaped DEF TypeOK
  <2>5. \E size \in Nat : streamSizes' = Append(streamSizes, size)
    BY <1>9, <2>4 DEF PrintKnownStream, GetStreamSize
  <2> QED
    BY <1>1, <1>8, <2>1, <2>2, <2>5
<1>10. CASE ReadModules
  <2>1. pc' = "moduleStreams" /\ UNCHANGED <<file, streamSizes>> /\ Len(streamSizes) = 6
    BY <1>1, <1>10 DEF ReadModules, CreateModuleInfoStream
  <2> QED
    BY <1>1, <1>2, <2>1
<1>11. CASE PrintModuleStream
  <2> DEFINE module == Len(streamSizes) - Len(KnownStreams) + 1
  <2>1. /\ pc = "moduleStreams" /\ pc' = pc /\ file' = file
        /\ module \in DOMAIN file.moduleSymbolStreamIndices
    BY <1>11 DEF PrintModuleStream
  <2>2. module \in 1 .. Len(file.moduleSymbolStreamIndices)
    BY <2>1, FilesAreShaped DEF TypeOK
  <2>3. file.moduleSymbolStreamIndices[module] \in {0, NilStreamIndex}
          \/ file.streamSize[file.moduleSymbolStreamIndices[module]] \in Nat
    BY <2>1, FilesAreShaped DEF TypeOK
  <2>4. \E size \in Nat : streamSizes' = Append(streamSizes, size)
    BY <1>11, <2>3 DEF PrintModuleStream, GetStreamSize
  <2> QED
    BY <1>1, <1>2, <1>8, <2>1, <2>2, <2>4
<1>12. CASE SortStreams
  BY <1>2, <1>12 DEF SortStreams, dbiVars, GetStreamCount
<1>13. CASE PrintStream
  <2>1. /\ pc = "allStreams" /\ pc' = pc /\ file' = file
        /\ Len(streamSizes) \in 0 .. (GetStreamCount - 1)
        /\ streamSizes' = Append(streamSizes, file.streamSize[Len(streamSizes)])
    BY <1>2, <1>13 DEF PrintStream, GetStreamSize
  <2>2. file.streamSize[Len(streamSizes)] \in Nat
    BY <2>1, FilesAreShaped DEF TypeOK, GetStreamCount
  <2>3. GetStreamCount' = GetStreamCount
    BY <2>1 DEF GetStreamCount
  <2> QED
    BY <1>2, <1>8, <2>1, <2>2, <2>3
<1>14. CASE FinishPDBSize
  BY <1>14 DEF FinishPDBSize
<1>15. CASE RunExample \/ FinishExamples
  BY <1>15 DEF RunExample, FinishExamples
<1>16. CASE UNCHANGED vars
  BY <1>1, <1>16 DEF vars, dbiVars, GetStreamCount
<1> QED
  BY <1>3, <1>4, <1>5, <1>6, <1>7, <1>9, <1>10, <1>11, <1>12, <1>13, <1>14, <1>15, <1>16
     DEF Next, ExamplePDBSize

-----------------------------------------------------------------------------
\* The sub-streams.

Inv == CheckedInv /\ SizesOfStage /\ SubstreamsPlaced

LEMMA HandedIsPlaced ==
  ASSUME CheckedInv, pc \in BehindIPI
  PROVE  /\ HasDBIHeader(file) /\ HasVersion(file.dbiHeader) /\ HasDebugHeader(file.dbiHeader, file)
         /\ m_header = file.dbiHeader
         /\ CreateImageSectionStream \/ CreateSourceFileStream \/ CreateSectionContributionStream
              \/ CreateModuleInfoStream =>
              \E s \in Placed(file.dbiHeader) : substreams' = substreams \cup {s}
<1>1. /\ HasDBIHeader(file) /\ HasVersion(m_header) /\ HasDebugHeader(m_header, file)
      /\ m_header = file.dbiHeader
  BY DEF CheckedInv, ChecksPassed, BehindDBI, BehindInfo, BehindOpening,
    BehindSymbolRecords, BehindPublics, BehindGlobals, BehindContributions, BehindSections,
    BehindTPI, BehindIPI, PDBSizeStages
<1>2. /\ GetSectionContributionSubstreamOffset = SizeOfDBIHeader + m_header.moduleInfoSize
      /\ GetSourceInfoSubstreamOffset =
           SizeOfDBIHeader + m_header.moduleInfoSize + m_header.sectionContributionSize
             + m_header.sectionMapSize
      /\ GetDebugHeaderSubstreamOffset = EndOfSubstreams(m_header)
  BY <1>1, OffsetsAreSums DEF CheckedInv, TypeOK
<1>3. ASSUME CreateImageSectionStream \/ CreateSourceFileStream \/ CreateSectionContributionStream
               \/ CreateModuleInfoStream
      PROVE  \E s \in Placed(m_header) : substreams' = substreams \cup {s}
  BY <1>2, <1>3, Zenon DEF CreateImageSectionStream, CreateSourceFileStream, CreateSectionContributionStream,
       CreateModuleInfoStream, Handed, Placed, GetModuleInfoSubstreamOffset
<1> QED
  BY <1>1, <1>3

LEMMA SubstreamsStep ==
  ASSUME CheckedInv, SubstreamsPlaced, [Next]_vars
  PROVE  SubstreamsPlaced'
<1>1. ASSUME UNCHANGED <<file, substreams>>
      PROVE  SubstreamsPlaced'
  BY <1>1 DEF SubstreamsPlaced, HasDBIHeader, HasDebugHeader
<1>2. ASSUME pc \in BehindIPI, file' = file,
             CreateImageSectionStream \/ CreateSourceFileStream \/ CreateSectionContributionStream
               \/ CreateModuleInfoStream
      PROVE  SubstreamsPlaced'
  <2>1. /\ HasDBIHeader(file) /\ HasVersion(file.dbiHeader) /\ HasDebugHeader(file.dbiHeader, file)
        /\ \E s \in Placed(file.dbiHeader) : substreams' = substreams \cup {s}
    BY <1>2, HandedIsPlaced
  <2>2. substreams \subseteq Placed(file.dbiHeader)
    BY DEF SubstreamsPlaced
  <2> QED
    BY <1>2, <2>1, <2>2 DEF SubstreamsPlaced, HasDBIHeader, HasDebugHeader
<1>3. CASE ReadModules
  BY <1>2, <1>3 DEF ReadModules, CreateModuleInfoStream, BehindIPI, PDBSizeStages
<1>4. CASE RunExample
  <2>1. pc \in BehindIPI
    BY <1>4 DEF RunExample, BehindIPI
  <2>2. CASE CreateSymbolRecordStream \/ CreatePublicSymbolStream \/ CreateGlobalSymbolStream
    BY <1>1, <2>2 DEF CreateSymbolRecordStream, CreatePublicSymbolStream, CreateGlobalSymbolStream
  <2>3. CASE CreateImageSectionStream \/ CreateSourceFileStream \/ CreateSectionContributionStream
               \/ CreateModuleInfoStream
    BY <1>2, <2>1, <2>3 DEF CreateImageSectionStream, CreateSourceFileStream,
         CreateSectionContributionStream, CreateModuleInfoStream
  <2> QED
    BY <1>4, <2>2, <2>3 DEF RunExample, CreateSubstream
<1>5. CASE \/ Open \/ CheckFile \/ CheckDBIStream \/ CreateInfoStream \/ RejectFastLink
           \/ OpenDBIStream \/ FinishExamples
  BY <1>1, <1>5 DEF Open, CheckFile, CheckDBIStream, CreateInfoStream, RejectFastLink,
       OpenDBIStream, CreateDBIStream, FinishExamples, dbiVars
<1>6. CASE HasValidDBIStreams
  BY <1>1, <1>6 DEF HasValidDBIStreams, CheckSubstream
<1>7. CASE CheckTPIStream \/ CreateTPIStream \/ CheckIPIStream \/ CreateIPIStream
  BY <1>1, <1>7 DEF CheckTPIStream, CreateTPIStream, CheckIPIStream, CreateIPIStream
<1>8. CASE PrintKnownStream \/ PrintModuleStream \/ SortStreams \/ PrintStream \/ FinishPDBSize
  BY <1>1, <1>8 DEF PrintKnownStream, PrintModuleStream, SortStreams, PrintStream,
       FinishPDBSize, dbiVars
<1>9. CASE UNCHANGED vars
  BY <1>1, <1>9 DEF vars, dbiVars
<1> QED
  BY <1>3, <1>4, <1>5, <1>6, <1>7, <1>8, <1>9 DEF Next, ExamplePDBSize

LEMMA InvStep == MappingInv /\ Inv /\ [Next]_vars => Inv'
<1> SUFFICES ASSUME MappingInv, Inv, [Next]_vars PROVE Inv'
  OBVIOUS
<1>1. TypeOK /\ TypeOK'
  BY MappingStep DEF MappingInv
<1>2. InfoStreamIsRead'
  BY <1>1, InfoStep DEF InfoInv, Inv, CheckedInv
<1>3. ChecksPassed' /\ SizesOfStage'
  BY <1>1, ChecksStep, SizesStep DEF Inv, CheckedInv
<1> QED
  BY <1>1, <1>2, <1>3, SubstreamsStep DEF Inv, CheckedInv

LEMMA InvInit == Init => Inv
<1> SUFFICES ASSUME Init PROVE SizesOfStage /\ SubstreamsPlaced
  BY CheckedInit DEF Inv
<1>1. streamSizes = <<>> /\ pc = "open" /\ substreams = {}
  BY DEF Init
<1>2. streamSizes \in Seq(Nat)
  BY <1>1
<1> QED
  BY <1>1, <1>2 DEF SizesOfStage, PDBSizeStages, SubstreamsPlaced

LEMMA PlacedAreDisjoint == Inv => SubstreamsDisjoint
<1> SUFFICES ASSUME Inv, NEW s \in substreams PROVE
      /\ s.offset >= SizeOfDBIHeader
      /\ InStream(s)
      /\ \A t \in substreams \ {s} :
           s.offset + s.size <= t.offset \/ t.offset + t.size <= s.offset
  BY DEF SubstreamsDisjoint
<1> DEFINE h == file.dbiHeader
           end == file.streamSize[DBIStreamIndex]
<1>1. /\ file \in Files /\ HasDBIHeader(file) /\ HasVersion(h) /\ HasDebugHeader(h, file)
      /\ substreams \subseteq Placed(h)
  BY DEF Inv, CheckedInv, TypeOK, SubstreamsPlaced
<1>2. /\ h.moduleInfoSize \in Nat /\ h.sectionContributionSize \in Nat
      /\ h.sectionMapSize \in Nat /\ h.sourceInfoSize \in Nat
      /\ h.typeServerMapSize \in Nat /\ h.ecSize \in Nat /\ end \in Int
  BY <1>1, HeaderFacts
<1>3. DBIStreamIndex \in DOMAIN file.streamSize
  BY <1>1, FilesAreShaped
<1>4. h.sectionContributionSize >= 4 /\ EndOfSubstreams(h) + 22 <= end
  BY <1>1 DEF HasVersion, HasDebugHeader, SizeOfVersion, SizeOfDebugHeader
<1> USE DEF EndOfSubstreams, SizeOfDBIHeader, SizeOfVersion, SizeOfDebugHeader
<1>5. ASSUME NEW t \in Placed(h)
      PROVE  /\ t.stream = DBIStreamIndex /\ t.offset >= 64 /\ t.offset + t.size <= end
             /\ t.offset \in Nat /\ t.size \in Nat
  BY <1>2, <1>4 DEF Placed
<1>6. ASSUME NEW t \in Placed(h), NEW u \in Placed(h), t # u
      PROVE  t.offset + t.size <= u.offset \/ u.offset + u.size <= t.offset
  BY <1>2, <1>4, <1>6 DEF Placed
<1>7. s \in Placed(h) /\ \A t \in substreams \ {s} : t \in Placed(h) /\ t # s
  BY <1>1
<1> QED
  BY <1>3, <1>5, <1>6, <1>7 DEF InStream

\* The sub-streams of the DBI stream lie behind its header and apart from each other,
\* in the order of their sizes in the header (PDB_DBIStream.cpp:17).
THEOREM SubstreamsAlwaysDisjoint == Spec => []SubstreamsDisjoint
  BY MappingInit, MappingStep, InvInit, InvStep, PlacedAreDisjoint, PTL DEF Spec

-----------------------------------------------------------------------------
\* The reads.

LEMMA ReadInStream ==
  ASSUME file' = file, NEW i \in DOMAIN file.streamSize, NEW o, NEW n,
         o + n <= file.streamSize[i], ReadAtOffset(i, o, n)
  PROVE  ReadsStayInStream'
  BY DEF ReadAtOffset, ReadsStayInStream, InStream

LEMMA NoOtherRead ==
  ASSUME UNCHANGED <<file, read>>, ReadsStayInStream
  PROVE  ReadsStayInStream'
  BY DEF ReadsStayInStream, InStream

\* What the checks of a stage mean for the header that is read from later on.
LEMMA HeaderRoom ==
  ASSUME CheckedInv, pc \in BehindOpening
  PROVE  /\ DBIStreamIndex \in DOMAIN file.streamSize
         /\ m_header.publicStreamIndex # NilStreamIndex =>
              /\ m_header.publicStreamIndex \in DOMAIN file.streamSize
              /\ SizeOfPublicStreamHeader + SizeOfHashTableHeader
                   <= file.streamSize[m_header.publicStreamIndex]
         /\ m_header.globalStreamIndex # NilStreamIndex =>
              /\ m_header.globalStreamIndex \in DOMAIN file.streamSize
              /\ 0 + SizeOfHashTableHeader <= file.streamSize[m_header.globalStreamIndex]
         /\ m_header.symbolRecordStreamIndex # NilStreamIndex =>
              /\ m_header.symbolRecordStreamIndex \in DOMAIN file.streamSize
              /\ 0 + 0 <= file.streamSize[m_header.symbolRecordStreamIndex]
         /\ HasVersion(m_header) =>
              GetSectionContributionSubstreamOffset + SizeOfVersion <= file.streamSize[DBIStreamIndex]
         /\ GetDebugHeaderSubstreamOffset = EndOfSubstreams(m_header)
<1>1. file \in Files /\ HasDBIHeader(file) /\ m_header = file.dbiHeader
  BY DEF CheckedInv, TypeOK, ChecksPassed, BehindDBI, BehindInfo
<1>2. IsHeaderOf(m_header, file)
  BY <1>1, FilesAssumption DEF HasDBIHeader
<1>3. /\ DBIStreamIndex \in DOMAIN file.streamSize
      /\ \A i \in DOMAIN file.streamSize : file.streamSize[i] \in Nat
  BY <1>1, FilesAreShaped
<1>4. /\ GetSectionContributionSubstreamOffset = SizeOfDBIHeader + m_header.moduleInfoSize
      /\ GetDebugHeaderSubstreamOffset = EndOfSubstreams(m_header)
  BY <1>1, OffsetsAreSums
<1>5. ASSUME HasVersion(m_header)
      PROVE  GetSectionContributionSubstreamOffset + SizeOfVersion <= file.streamSize[DBIStreamIndex]
  BY <1>1, <1>4, <1>5, HeaderFacts
     DEF HasVersion, EndOfSubstreams, SizeOfDBIHeader, SizeOfVersion
<1>6. ASSUME m_header.symbolRecordStreamIndex # NilStreamIndex
      PROVE  /\ m_header.symbolRecordStreamIndex \in DOMAIN file.streamSize
             /\ 0 + 0 <= file.streamSize[m_header.symbolRecordStreamIndex]
  <2>1. m_header.symbolRecordStreamIndex \in DOMAIN file.streamSize
    BY <1>2, <1>6 DEF IsHeaderOf
  <2> QED
    BY <1>3, <2>1
<1>7. ASSUME m_header.globalStreamIndex # NilStreamIndex
      PROVE  /\ m_header.globalStreamIndex \in DOMAIN file.streamSize
             /\ 0 + SizeOfHashTableHeader <= file.streamSize[m_header.globalStreamIndex]
  <2>1. /\ m_header.globalStreamIndex \in DOMAIN file.streamSize
        /\ file.streamSize[m_header.globalStreamIndex] >= SizeOfHashTableHeader
    BY <1>2, <1>7 DEF IsHeaderOf
  <2> QED
    BY <1>3, <2>1 DEF SizeOfHashTableHeader
<1>8. ASSUME m_header.publicStreamIndex # NilStreamIndex
      PROVE  /\ m_header.publicStreamIndex \in DOMAIN file.streamSize
             /\ SizeOfPublicStreamHeader + SizeOfHashTableHeader
                  <= file.streamSize[m_header.publicStreamIndex]
  <2>1. /\ m_header.publicStreamIndex \in DOMAIN file.streamSize
        /\ file.streamSize[m_header.publicStreamIndex]
              >= SizeOfPublicStreamHeader + SizeOfHashTableHeader
    BY <1>2, <1>8 DEF IsHeaderOf
  <2> QED
    BY <1>3, <2>1 DEF SizeOfPublicStreamHeader, SizeOfHashTableHeader
<1> QED
  BY <1>3, <1>4, <1>5, <1>6, <1>7, <1>8

LEMMA ChecksReadInStream ==
  ASSUME CheckedInv, ReadsStayInStream, HasValidDBIStreams
  PROVE  ReadsStayInStream'
<1> USE ReadInStream, NoOtherRead
<1>1. pc \in BehindOpening /\ file' = file
  BY DEF HasValidDBIStreams, CheckSubstream, BehindOpening,
    BehindSymbolRecords, BehindPublics, BehindGlobals, BehindContributions
<1>2. CASE CheckSubstream("symbolRecords", HasValidSymbolRecordStream, "publics")
  BY <1>1, <1>2 DEF CheckSubstream, HasValidSymbolRecordStream
<1>3. CASE CheckSubstream("publics", HasValidPublicSymbolStream, "globals")
  BY <1>1, <1>3, HeaderRoom DEF CheckSubstream, HasValidPublicSymbolStream
<1>4. CASE CheckSubstream("globals", HasValidGlobalSymbolStream, "contributions")
  BY <1>1, <1>4, HeaderRoom DEF CheckSubstream, HasValidGlobalSymbolStream
<1>5. CASE CheckSubstream("contributions", HasValidSectionContributionStream, "sections")
  BY <1>1, <1>5, HeaderRoom DEF CheckSubstream, HasValidSectionContributionStream, HasVersion
<1>6. CASE CheckSubstream("sections", HasValidImageSectionStream, "tpi")
  BY <1>1, <1>6, HeaderRoom DEF CheckSubstream, HasValidImageSectionStream
<1> QED
  BY <1>2, <1>3, <1>4, <1>5, <1>6 DEF HasValidDBIStreams

LEMMA HeaderReadsInStream ==
  ASSUME Inv, ReadsStayInStream, KeepsIPIPromise(file),
         CheckDBIStream \/ OpenDBIStream \/ CheckTPIStream \/ CreateTPIStream
           \/ CheckIPIStream \/ CreateIPIStream
  PROVE  ReadsStayInStream'
<1> USE ReadInStream, NoOtherRead
<1>1. /\ DBIStreamIndex \in DOMAIN file.streamSize
      /\ TPIStreamIndex \in DOMAIN file.streamSize
      /\ IPIStreamIndex \in DOMAIN file.streamSize
      /\ file.streamSize[DBIStreamIndex] \in Nat
      /\ file.streamSize[TPIStreamIndex] \in Nat
      /\ file.streamSize[IPIStreamIndex] \in Nat
  BY FilesAreShaped DEF Inv, CheckedInv, TypeOK
<1>2. ASSUME NEW i \in {DBIStreamIndex, TPIStreamIndex, IPIStreamIndex}, NEW n \in Nat,
             file.streamSize[i] >= n
      PROVE  0 + n <= file.streamSize[i]
  BY <1>1, <1>2
<1>3. SizeOfDBIHeader \in Nat /\ SizeOfTPIHeader \in Nat /\ SizeOfIPIHeader \in Nat
  BY DEF SizeOfDBIHeader, SizeOfTPIHeader, SizeOfIPIHeader
<1>4. CASE CheckDBIStream
  BY <1>1, <1>2, <1>3, <1>4 DEF CheckDBIStream, HasValidDBIStream
<1>5. CASE OpenDBIStream
  <2>1. file.streamSize[DBIStreamIndex] >= SizeOfDBIHeader
    BY <1>5 DEF OpenDBIStream, Inv, CheckedInv, ChecksPassed, BehindDBI, BehindInfo, HasDBIHeader
  <2> QED
    BY <1>1, <1>2, <1>3, <1>5, <2>1 DEF OpenDBIStream, CreateDBIStream
<1>6. CASE CheckTPIStream
  BY <1>1, <1>2, <1>3, <1>6 DEF CheckTPIStream, HasValidHeader
<1>7. CASE CreateTPIStream
  <2>1. file.streamSize[TPIStreamIndex] >= SizeOfTPIHeader
    BY <1>7 DEF CreateTPIStream, Inv, CheckedInv, ChecksPassed, BehindTPI
  <2> QED
    BY <1>1, <1>2, <1>3, <1>7, <2>1 DEF CreateTPIStream
<1>8. CASE CheckIPIStream
  BY <1>1, <1>2, <1>3, <1>8 DEF CheckIPIStream, HasValidHeader
<1>9. CASE CreateIPIStream
  <2>1. infoStream.hasIPIStream
    BY <1>9 DEF CreateIPIStream, Inv, CheckedInv, ChecksPassed
  <2>2. file.featureCodes \cap {VC110, VC140} # {}
    <3>1. infoStream = WrittenInfo(file)
      BY <1>9 DEF CreateIPIStream, Inv, CheckedInv, InfoStreamIsRead, WrittenInfo
    <3>2. infoStream.hasIPIStream = (file.featureCodes \cap {VC110, VC140} # {})
      BY <3>1, Zenon DEF WrittenInfo
    <3> QED
      BY <2>1, <3>2, Zenon
  <2>3. file.streamSize[IPIStreamIndex] >= SizeOfIPIHeader
    BY <2>2 DEF KeepsIPIPromise
  <2> QED
    BY <1>1, <1>2, <1>3, <1>9, <2>3 DEF CreateIPIStream
<1> QED
  BY <1>4, <1>5, <1>6, <1>7, <1>8, <1>9

LEMMA SizesReadInStream ==
  ASSUME Inv, ReadsStayInStream, ExamplePDBSize
  PROVE  ReadsStayInStream'
<1> USE NoOtherRead
<1>1. ASSUME NEW i \in DOMAIN file.streamSize, GetStreamSize(i), file' = file
      PROVE  ReadsStayInStream'
  <2>1. 0 + 0 <= file.streamSize[i]
    BY FilesAreShaped DEF Inv, CheckedInv, TypeOK
  <2> QED
    BY <1>1, <2>1, ReadInStream DEF GetStreamSize
<1>2. streamSizes \in Seq(Nat) /\ Len(streamSizes) \in Nat
  BY DEF Inv, SizesOfStage
<1>3. CASE PrintKnownStream
  <2>1. Len(KnownStreams) = 6 /\ \A n \in 1 .. 6 : KnownStreams[n] \in DOMAIN file.streamSize
    BY <1>3, KnownStreamsExist DEF PrintKnownStream, Inv, CheckedInv
  <2>2. Len(streamSizes) + 1 \in 1 .. 6
    BY <1>2, <1>3, <2>1 DEF PrintKnownStream
  <2>3. KnownStreams[Len(streamSizes) + 1] \in DOMAIN file.streamSize
    BY <2>1, <2>2
  <2>4. CASE GetStreamSize(KnownStreams[Len(streamSizes) + 1])
    BY <1>1, <1>3, <2>3, <2>4 DEF PrintKnownStream
  <2>5. CASE UNCHANGED read
    BY <1>3, <2>5 DEF PrintKnownStream
  <2> QED
    BY <1>3, <2>4, <2>5 DEF PrintKnownStream
<1>4. CASE PrintModuleStream
  <2> DEFINE module == Len(streamSizes) - Len(KnownStreams) + 1
             index == file.moduleSymbolStreamIndices[module]
  <2>1. module \in DOMAIN file.moduleSymbolStreamIndices /\ file' = file
    BY <1>4 DEF PrintModuleStream
  <2>2. index \in DOMAIN file.streamSize \cup {NilStreamIndex}
    BY <2>1, FilesAreShaped DEF Inv, CheckedInv, TypeOK
  <2>3. CASE index \in {0, NilStreamIndex}
    BY <1>4, <2>3 DEF PrintModuleStream
  <2>4. CASE index \notin {0, NilStreamIndex}
    <3>1. GetStreamSize(index)
      BY <1>4, <2>4 DEF PrintModuleStream
    <3> QED
      BY <1>1, <2>1, <2>2, <2>4, <3>1
  <2> QED
    BY <2>3, <2>4
<1>5. CASE PrintStream
  <2>1. Len(streamSizes) \in 0 .. (GetStreamCount - 1) /\ file' = file
    BY <1>2, <1>5, FilesAreShaped DEF PrintStream, GetStreamCount, Inv, CheckedInv, TypeOK
  <2>2. Len(streamSizes) \in DOMAIN file.streamSize
    BY <2>1, FilesAreShaped DEF GetStreamCount, Inv, CheckedInv, TypeOK
  <2> QED
    BY <1>1, <1>5, <2>1, <2>2 DEF PrintStream
<1>6. CASE ReadModules \/ SortStreams \/ FinishPDBSize
  BY <1>6 DEF ReadModules, CreateModuleInfoStream, SortStreams, FinishPDBSize, dbiVars
<1> QED
  BY <1>3, <1>4, <1>5, <1>6 DEF ExamplePDBSize

LEMMA ExamplesReadInStream ==
  ASSUME Inv, ReadsStayInStream, RunExample
  PROVE  ReadsStayInStream'
<1> USE ReadInStream, NoOtherRead
<1>1. /\ m_header.symbolRecordStreamIndex # NilStreamIndex
      /\ m_header.publicStreamIndex # NilStreamIndex
      /\ m_header.globalStreamIndex # NilStreamIndex
      /\ HasDebugHeader(m_header, file)
      /\ pc \in BehindOpening
  BY DEF RunExample, Inv, CheckedInv, ChecksPassed, BehindOpening, BehindSymbolRecords, BehindPublics,
    BehindGlobals, BehindContributions, BehindSections, BehindTPI, BehindIPI
<1>2. CASE CreateSymbolRecordStream
  BY <1>1, <1>2, HeaderRoom DEF CreateSymbolRecordStream, Inv
<1>3. CASE CreateImageSectionStream
  BY <1>1, <1>3, HeaderRoom DEF CreateImageSectionStream, HasDebugHeader, Inv
<1>4. CASE CreatePublicSymbolStream
  BY <1>1, <1>4, HeaderRoom DEF CreatePublicSymbolStream, Inv
<1>5. CASE CreateGlobalSymbolStream
  BY <1>1, <1>5, HeaderRoom DEF CreateGlobalSymbolStream, Inv
<1>6. CASE CreateSourceFileStream \/ CreateSectionContributionStream \/ CreateModuleInfoStream
  BY <1>6 DEF CreateSourceFileStream, CreateSectionContributionStream, CreateModuleInfoStream
<1> QED
  BY <1>2, <1>3, <1>4, <1>5, <1>6 DEF RunExample, CreateSubstream

LEMMA ReadsStep ==
  ASSUME Inv, ReadsStayInStream, KeepsIPIPromise(file), [Next]_vars
  PROVE  ReadsStayInStream'
<1>1. CASE Open \/ CheckFile \/ CreateInfoStream \/ RejectFastLink \/ FinishExamples
  BY <1>1, NoOtherRead
     DEF Open, CheckFile, CreateInfoStream, RejectFastLink, FinishExamples, dbiVars
<1>2. CASE UNCHANGED vars
  BY <1>2, NoOtherRead DEF vars, dbiVars
<1> QED
  BY <1>1, <1>2, ChecksReadInStream, HeaderReadsInStream, SizesReadInStream,
     ExamplesReadInStream DEF Next, Inv

\* If a file that promises an IPI stream has one, every read of main stays in its stream:
\* "Not enough data left to read" is never so (PDB_DirectMSFStream.cpp:41).  Without
\* the promise it is so: the check of ExampleMain.cpp:175 lets a short stream through.
\* That the public and the global stream hold their headers is part of FilesAssumption.
THEOREM ReadsAlwaysStayInStream ==
  ASSUME \A f \in Files : KeepsIPIPromise(f)
  PROVE  Spec => []ReadsStayInStream
<1>1. Init => ReadsStayInStream
  BY FilesAreShaped DEF Init, ReadsStayInStream, InStream, NoRead
<1>2. Inv => KeepsIPIPromise(file)
  BY DEF Inv, CheckedInv, TypeOK
<1> QED
  BY <1>1, <1>2, MappingInit, MappingStep, InvInit, InvStep, ReadsStep, PTL DEF Spec

=============================================================================
