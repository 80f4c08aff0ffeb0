----------------------- MODULE ModuleInfoStreamProofs -----------------------
(***************************************************************************)
(* The walk over the module records stays inside the array and on the      *)
(* records, and the search finds the linker, for every well-formed stream. *)
(* The source files of a module are its own.                               *)
(***************************************************************************)
EXTENDS SourceFileStream, TLAPS

\* Every record is at least as long as its fixed part.
RecordsTakeRoom == m_moduleCount * SizeOfModuleInfo <= streamOffset

\* What a search has ruled out so far.
SearchedFromEnd == pc = "search" => \A k \in stream.linker : k < m_moduleCount - i

IInv == /\ TypeOK /\ stream \in ModuleStreams
        /\ WalkFollowsRecords /\ EstimateIsEnough /\ RecordsTakeRoom
        /\ SearchedFromEnd /\ LinkerModuleIsFound
        /\ pc = "walk" => found = NotAskedFor /\ i = 0

\* Rounding up to the alignment never goes back.
LEMMA RoundUpGrows ==
  ASSUME NEW n \in Nat
  PROVE  RoundUpToMultiple(n, 4) \in Nat /\ n <= RoundUpToMultiple(n, 4)
  BY DEF RoundUpToMultiple

\* What the constructor reads at a record that is there.
LEMMA ReadsRecord ==
  ASSUME stream \in ModuleStreams, NEW k \in 0 .. (stream.count - 1),
         streamOffset = stream.start[k]
  PROVE  /\ stream.start[k] \in Nat /\ stream.start[k + 1] \in Nat
         /\ stream.nameLength[k] \in Nat /\ stream.objectNameLength[k] \in Nat
         /\ NameOffset = stream.start[k] + SizeOfModuleInfo
         /\ stream.strlen[NameOffset] = stream.nameLength[k]
         /\ ObjectNameOffset = NameOffset + stream.nameLength[k] + 1
         /\ stream.strlen[ObjectNameOffset] = stream.objectNameLength[k]
         /\ NextRecord = stream.start[k + 1]
         /\ stream.start[k] + SizeOfModuleInfo <= stream.start[k + 1]
         /\ stream.start[k + 1] <= stream.size
<1> DEFINE name == stream.start[k] + SizeOfModuleInfo
           objectName == name + stream.nameLength[k] + 1
<1>1. /\ stream.count \in Nat
      /\ stream.start \in [0 .. stream.count -> Nat]
      /\ stream.nameLength \in [0 .. (stream.count - 1) -> Nat]
      /\ stream.objectNameLength \in [0 .. (stream.count - 1) -> Nat]
      /\ stream.strlen[name] = stream.nameLength[k]
      /\ stream.strlen[objectName] = stream.objectNameLength[k]
      /\ stream.start[k + 1] <= stream.size
      /\ stream.start[k + 1] =
           RoundUpToMultiple(objectName + stream.objectNameLength[k] + 1, 4)
  BY ModuleStreamsAssumption
<1>2. /\ stream.start[k] \in Nat /\ stream.start[k + 1] \in Nat
      /\ stream.nameLength[k] \in Nat /\ stream.objectNameLength[k] \in Nat
  <2>1. k \in 0 .. stream.count /\ k + 1 \in 0 .. stream.count  BY <1>1
  <2> HIDE DEF name, objectName
  <2> QED  BY <1>1, <2>1
<1>3. NameOffset = name  BY DEF NameOffset
<1>4. ObjectNameOffset = objectName  BY <1>1, <1>3 DEF ObjectNameOffset
<1>5. NextRecord = stream.start[k + 1]  BY <1>1, <1>4 DEF NextRecord
<1>6. stream.start[k] + SizeOfModuleInfo <= stream.start[k + 1]
  <2>1. /\ objectName + stream.objectNameLength[k] + 1 \in Nat
        /\ stream.start[k] + SizeOfModuleInfo <= objectName + stream.objectNameLength[k] + 1
    BY <1>2 DEF SizeOfModuleInfo
  <2> HIDE DEF objectName
  <2> DEFINE end == objectName + stream.objectNameLength[k] + 1
  <2> HIDE DEF end
  <2>2. end \in Nat /\ stream.start[k] + SizeOfModuleInfo <= end  BY <2>1 DEF end
  <2>3. end <= RoundUpToMultiple(end, 4)  BY <2>2, RoundUpGrows
  <2>4. stream.start[k + 1] = RoundUpToMultiple(end, 4)  BY <1>1 DEF end
  <2> QED  BY <2>2, <2>3, <2>4, <1>2 DEF SizeOfModuleInfo
<1> QED  BY <1>1, <1>2, <1>3, <1>4, <1>5, <1>6

LEMMA InitIInv == Init => IInv
<1> SUFFICES ASSUME Init PROVE IInv  OBVIOUS
<1>1. /\ stream \in ModuleStreams /\ stream.count \in Nat /\ stream.start[0] = 0
  BY ModuleStreamsAssumption DEF Init
<1> QED  BY <1>1 DEF Init, IInv, TypeOK, WalkFollowsRecords, EstimateIsEnough,
                     RecordsTakeRoom, SearchedFromEnd, LinkerModuleIsFound,
                     NotAskedFor, SizeOfModuleInfo

\* A record that fits the stream has room in the array.
LEMMA RoomForModule ==
  ASSUME NEW n \in Nat, NEW size \in Nat, (n + 1) * SizeOfModuleInfo <= size
  PROVE  n \in 0 .. (EstimateModuleCount(size) - 1)
  BY DEF EstimateModuleCount, SizeOfModuleInfo

LEMMA AddModuleStep ==
  ASSUME IInv, AddModule
  PROVE  IInv'
<1>1. /\ stream \in ModuleStreams /\ stream.count \in Nat
      /\ stream.size = stream.start[stream.count]
      /\ stream.start \in [0 .. stream.count -> Nat]
  BY ModuleStreamsAssumption DEF IInv
<1>2. /\ m_moduleCount \in 0 .. (stream.count - 1) /\ m_moduleCount \in Nat
      /\ streamOffset = stream.start[m_moduleCount]
  <2>1. /\ m_moduleCount \in Nat /\ m_moduleCount <= stream.count
        /\ streamOffset = stream.start[m_moduleCount]
    BY DEF IInv, TypeOK, WalkFollowsRecords
  <2>2. m_moduleCount # stream.count  BY <2>1, <1>1 DEF AddModule
  <2> QED  BY <2>1, <2>2, <1>1
<1>3. /\ NameOffset = stream.start[m_moduleCount] + SizeOfModuleInfo
      /\ stream.strlen[NameOffset] = stream.nameLength[m_moduleCount]
      /\ ObjectNameOffset = NameOffset + stream.nameLength[m_moduleCount] + 1
      /\ stream.strlen[ObjectNameOffset] = stream.objectNameLength[m_moduleCount]
      /\ NextRecord = stream.start[m_moduleCount + 1]
      /\ stream.start[m_moduleCount] \in Nat /\ stream.start[m_moduleCount + 1] \in Nat
      /\ stream.start[m_moduleCount] + SizeOfModuleInfo <= stream.start[m_moduleCount + 1]
      /\ stream.start[m_moduleCount + 1] <= stream.size
  BY <1>1, <1>2, ReadsRecord
<1>4. stream' = stream /\ pc' = pc /\ i' = i /\ found' = found /\ pc = "walk"
      /\ m_moduleCount' = m_moduleCount + 1 /\ streamOffset' = stream.start[m_moduleCount + 1]
  BY <1>3 DEF AddModule
<1>5. found = NotAskedFor /\ i = 0  BY <1>4 DEF IInv
<1>6. TypeOK'  BY <1>2, <1>3, <1>4, <1>5 DEF TypeOK, NotAskedFor
<1>7. RecordsTakeRoom'
  BY <1>2, <1>3, <1>4 DEF IInv, RecordsTakeRoom, SizeOfModuleInfo
<1>8. EstimateIsEnough'
  <2>1. stream.size \in Nat  BY <1>1
  <2>2. (m_moduleCount + 1) * SizeOfModuleInfo <= stream.size
    BY <1>2, <1>3, <1>4, <1>7, <2>1 DEF RecordsTakeRoom, SizeOfModuleInfo
  <2>3. m_moduleCount \in 0 .. (EstimateModuleCount(stream.size) - 1)
    BY <1>2, <2>1, <2>2, RoomForModule
  <2>4. DOMAIN m_modules' = DOMAIN m_modules \cup {m_moduleCount}  BY DEF AddModule
  <2> QED  BY <2>3, <2>4, <1>4 DEF IInv, EstimateIsEnough
<1>9. WalkFollowsRecords'
  <2>1. m_modules'[m_moduleCount] = ModuleOfRecord(m_moduleCount)
    BY <1>2, <1>3 DEF AddModule, ModuleOfRecord
  <2>2. ASSUME NEW k \in 0 .. (m_moduleCount - 1)
        PROVE  m_modules'[k] = ModuleOfRecord(k)
    <3>1. m_modules[k] = ModuleOfRecord(k)  BY DEF IInv, WalkFollowsRecords
    <3>2. k \in DOMAIN m_modules
      <4>1. stream.size \in Nat  BY <1>1
      <4>2. m_moduleCount * SizeOfModuleInfo <= streamOffset  BY DEF IInv, RecordsTakeRoom
      <4>3. streamOffset \in Nat /\ streamOffset <= stream.size
        BY <1>2, <1>3, <4>1 DEF SizeOfModuleInfo
      <4>4. k \in Nat /\ (k + 1) * SizeOfModuleInfo <= stream.size
        BY <4>1, <4>2, <4>3, <1>2 DEF SizeOfModuleInfo
      <4> QED  BY <4>1, <4>4, RoomForModule DEF IInv, EstimateIsEnough
    <3>3. k # m_moduleCount  BY <1>2
    <3> QED  BY <3>1, <3>2, <3>3 DEF AddModule
  <2>3. \A k \in 0 .. m_moduleCount : m_modules'[k] = ModuleOfRecord(k)
    BY <2>1, <2>2, <1>2
  <2> QED  BY <2>3, <1>1, <1>2, <1>4 DEF WalkFollowsRecords, ModuleOfRecord
<1> QED  BY <1>1, <1>4, <1>5, <1>6, <1>7, <1>8, <1>9
         DEF IInv, SearchedFromEnd, LinkerModuleIsFound

LEMMA FinishConstructionStep ==
  ASSUME IInv, FinishConstruction
  PROVE  IInv'
<1>1. m_moduleCount = stream.count
  <2>1. /\ stream.count \in Nat /\ stream.size = stream.start[stream.count]
        /\ stream.start \in [0 .. stream.count -> Nat]
    BY ModuleStreamsAssumption DEF IInv
  <2>2. /\ m_moduleCount \in Nat /\ m_moduleCount <= stream.count
        /\ streamOffset = stream.start[m_moduleCount]
    BY DEF IInv, TypeOK, WalkFollowsRecords
  <2>3. ASSUME m_moduleCount # stream.count PROVE FALSE
    <3>1. m_moduleCount \in 0 .. (stream.count - 1)  BY <2>1, <2>2, <2>3
    <3>2. /\ stream.start[m_moduleCount] + SizeOfModuleInfo <= stream.start[m_moduleCount + 1]
          /\ stream.start[m_moduleCount + 1] <= stream.size
          /\ stream.start[m_moduleCount] \in Nat /\ stream.start[m_moduleCount + 1] \in Nat
      BY <3>1, <2>2, ReadsRecord DEF IInv
    <3>3. stream.size \in Nat  BY <2>1
    <3> QED  BY <2>2, <3>2, <3>3 DEF FinishConstruction, SizeOfModuleInfo
  <2> QED  BY <2>3
<1> QED  BY <1>1 DEF FinishConstruction, IInv, TypeOK, WalkFollowsRecords, ModuleOfRecord, EstimateIsEnough,
                     RecordsTakeRoom, SearchedFromEnd, LinkerModuleIsFound

\* A call to FindLinkerModule starts with every module ahead of it.
LEMMA FindLinkerModuleStep ==
  ASSUME IInv, FindLinkerModule
  PROVE  IInv'
<1>1. /\ stream.count \in Nat /\ stream.linker \subseteq 0 .. (stream.count - 1)
  BY ModuleStreamsAssumption DEF IInv
<1>2. m_moduleCount = stream.count  BY DEF IInv, WalkFollowsRecords, FindLinkerModule
<1>3. SearchedFromEnd'  BY <1>1, <1>2 DEF FindLinkerModule, SearchedFromEnd
<1> QED  BY <1>3 DEF FindLinkerModule, IInv, TypeOK, WalkFollowsRecords, ModuleOfRecord, EstimateIsEnough,
                     RecordsTakeRoom, LinkerModuleIsFound

\* The module the search looks at is the linker's exactly when its record is.
LEMMA CandidateChecked ==
  ASSUME IInv, pc = "search", SearchGoesOn
  PROVE  /\ Candidate \in 0 .. (m_moduleCount - 1)
         /\ IsLinkerModule(m_modules[Candidate]) <=> Candidate \in stream.linker
<1>1. /\ stream.count \in Nat /\ stream.linker \subseteq 0 .. (stream.count - 1)
      /\ stream.start \in [0 .. stream.count -> Nat]
  BY ModuleStreamsAssumption DEF IInv
<1>2. Candidate \in 0 .. (m_moduleCount - 1)
  BY DEF IInv, TypeOK, Candidate, SearchGoesOn
<1>3. /\ m_moduleCount = stream.count
      /\ m_modules[Candidate].name = stream.start[Candidate] + SizeOfModuleInfo
  <2>1. m_moduleCount = stream.count  BY DEF IInv, WalkFollowsRecords
  <2>2. m_modules[Candidate] = ModuleOfRecord(Candidate)
    BY <1>2 DEF IInv, WalkFollowsRecords
  <2>3. ModuleOfRecord(Candidate).name = stream.start[Candidate] + SizeOfModuleInfo
    BY DEF ModuleOfRecord
  <2> QED  BY <2>1, <2>2, <2>3
<1>4. stream.start[Candidate] + SizeOfModuleInfo \in stream.linkerText
        <=> Candidate \in stream.linker
  BY <1>2, <1>3, ModuleStreamsAssumption DEF IInv
<1> QED  BY <1>2, <1>3, <1>4 DEF IsLinkerModule

LEMMA SkipModuleStep ==
  ASSUME IInv, SkipModule
  PROVE  IInv'
<1>1. /\ Candidate \in 0 .. (m_moduleCount - 1) /\ Candidate \notin stream.linker
      /\ m_moduleCount \in Nat /\ i \in Nat
  BY CandidateChecked DEF SkipModule, IInv, TypeOK
<1>2. stream.linker \subseteq 0 .. (stream.count - 1) /\ stream.count \in Nat
  BY ModuleStreamsAssumption DEF IInv
<1>3. SearchedFromEnd'
  <2> SUFFICES ASSUME NEW k \in stream.linker PROVE k < m_moduleCount - (i + 1)
    BY DEF SearchedFromEnd, SkipModule
  <2>1. k < m_moduleCount - i  BY DEF IInv, SearchedFromEnd, SkipModule
  <2>2. k # m_moduleCount - i - 1  BY <1>1 DEF Candidate
  <2>3. k \in Int  BY <1>2
  <2> QED  BY <2>1, <2>2, <2>3, <1>1
<1>4. TypeOK'  BY <1>1 DEF IInv, TypeOK, SkipModule, SearchGoesOn
<1> QED  BY <1>3, <1>4 DEF SkipModule, IInv, WalkFollowsRecords, ModuleOfRecord,
                          EstimateIsEnough, RecordsTakeRoom, LinkerModuleIsFound

LEMMA ReturnModuleStep ==
  ASSUME IInv, ReturnModule
  PROVE  IInv'
<1>1. /\ Candidate \in 0 .. (m_moduleCount - 1) /\ Candidate \in stream.linker
  BY CandidateChecked DEF ReturnModule
<1>2. TypeOK'  BY <1>1 DEF IInv, TypeOK, ReturnModule, NotAskedFor
<1> QED  BY <1>1, <1>2 DEF ReturnModule, IInv, SearchedFromEnd, WalkFollowsRecords,
                 ModuleOfRecord, EstimateIsEnough, RecordsTakeRoom, LinkerModuleIsFound

\* When the search gives up there is no linker's module to be found.
LEMMA ReturnNothingStep ==
  ASSUME IInv, ReturnNothing
  PROVE  IInv'
<1>1. stream.linker = {}
  <2> SUFFICES ASSUME NEW k \in stream.linker PROVE FALSE  OBVIOUS
  <2>1. k \in 0 .. (stream.count - 1) /\ stream.count \in Nat
    BY ModuleStreamsAssumption DEF IInv
  <2>2. k < m_moduleCount - i  BY DEF IInv, SearchedFromEnd, ReturnNothing
  <2> QED  BY <2>1, <2>2 DEF IInv, TypeOK, ReturnNothing, SearchGoesOn
<1>2. TypeOK'  BY DEF IInv, TypeOK, ReturnNothing, NotAskedFor, nullptr
<1> QED  BY <1>1, <1>2 DEF ReturnNothing, IInv, SearchedFromEnd, WalkFollowsRecords,
                 ModuleOfRecord, EstimateIsEnough, RecordsTakeRoom, LinkerModuleIsFound

LEMMA NextIInv == IInv /\ [Next]_vars => IInv'
<1> SUFFICES ASSUME IInv, [Next]_vars PROVE IInv'  OBVIOUS
<1>1. ASSUME UNCHANGED vars PROVE IInv'
  BY <1>1 DEF vars, IInv, TypeOK, WalkFollowsRecords, ModuleOfRecord, EstimateIsEnough,
              RecordsTakeRoom, SearchedFromEnd, LinkerModuleIsFound
<1> QED  BY <1>1, AddModuleStep, FinishConstructionStep, FindLinkerModuleStep,
            SkipModuleStep, ReturnModuleStep, ReturnNothingStep DEF Next

-----------------------------------------------------------------------------

\* What the constructor and the search maintain.
THEOREM InvariantHolds == Spec => []IInv
  BY InitIInv, NextIInv, PTL DEF Spec

\* The object is well-formed at every moment of the walk and of a search.
THEOREM TypeCorrect == Spec => []TypeOK
  BY InvariantHolds, PTL DEF IInv

\* For every well-formed stream the array is large enough for its modules.
THEOREM NoModuleBehindTheEnd == Spec => []EstimateIsEnough
  BY InvariantHolds, PTL DEF IInv

\* For every well-formed stream the modules are its records, none left out.
THEOREM AlwaysOnRecords == Spec => []WalkFollowsRecords
  BY InvariantHolds, PTL DEF IInv

\* For every well-formed stream the search answers what is there.
THEOREM SearchIsRight == Spec => []LinkerModuleIsFound
  BY InvariantHolds, PTL DEF IInv

-----------------------------------------------------------------------------
\* The source files.

\* Building and asking a SourceFileStream leaves the modules alone.
THEOREM ModulesStayAsTheyAre == SourceSpec => Spec
<1>1. SourceInit => Init
  BY DEF SourceInit
<1>2. [SourceNext]_<<vars, sourceVars>> => [Next]_vars
  BY DEF SourceNext, Construct, CountFiles, FinishFiles, GetModuleFilenameOffsets
<1> QED
  BY <1>1, <1>2, PTL DEF SourceSpec, Spec

\* The pointers lead to the arrays, and the files of the modules counted so far are
\* those in front of the next.
ArraysAreFound ==
  /\ m_sourceModuleCount = sourceStream.moduleCount
  /\ m_moduleIndices = 2 * SizeOfUInt16
  /\ m_moduleFileCounts = 2 * SizeOfUInt16 + SizeOfUInt16 * sourceStream.moduleCount
  /\ counted \in 0 .. sourceStream.moduleCount
  /\ sourceFileCount = sourceStream.filesBefore[counted]

\* What a module's own entries say.
ViewOf(k) ==
  [module |-> k,
   start |-> FileNameOffsetsOf(sourceStream)
               + SizeOfUInt32 * (sourceStream.filesBefore[k] % UInt16Range),
   length |-> Len(sourceStream.files[k])]

SourceInv ==
  /\ sourceStream \in SourceStreams /\ sourceStream.moduleCount = stream.count
  /\ step \in {"start", "count", "view"}
  /\ step = "start" => sourceFileCount = 0 /\ counted = 0
  /\ step # "start" => ArraysAreFound
  /\ step = "view" => /\ m_fileNameOffsets = FileNameOffsetsOf(sourceStream)
                      /\ m_stringTable = StringTableOf(sourceStream)
  /\ view # NoView => step = "view" /\ \E k \in 0 .. (sourceStream.moduleCount - 1) : view = ViewOf(k)

LEMMA SourceInitInv == SourceInit => SourceInv
  BY DEF SourceInit, SourceInv

LEMMA SourceFacts ==
  ASSUME sourceStream \in SourceStreams
  PROVE  /\ sourceStream.moduleCount \in Nat
         /\ sourceStream.short[0] = sourceStream.moduleCount
         /\ sourceStream.filesBefore[0] = 0
         /\ sourceStream.filesBefore \in [0 .. sourceStream.moduleCount -> Nat]
         /\ \A k \in 0 .. (sourceStream.moduleCount - 1) :
              /\ sourceStream.files[k] \in Seq(sourceStream.names)
              /\ sourceStream.filesBefore[k + 1] =
                    sourceStream.filesBefore[k] + Len(sourceStream.files[k])
              /\ sourceStream.short[2 * SizeOfUInt16 + SizeOfUInt16 * k] =
                    sourceStream.filesBefore[k] % UInt16Range
              /\ sourceStream.short[2 * SizeOfUInt16 + SizeOfUInt16 * sourceStream.moduleCount
                                       + SizeOfUInt16 * k] = Len(sourceStream.files[k])
<1> DEFINE s == sourceStream
<1>1. /\ s.moduleCount \in Nat /\ s.short[0] = s.moduleCount /\ s.filesBefore[0] = 0
      /\ s.filesBefore \in [0 .. s.moduleCount -> Nat]
      /\ s.files \in [0 .. (s.moduleCount - 1) -> Seq(s.names)]
  BY SourceStreamsAssumption
<1>2. ASSUME NEW k \in 0 .. (s.moduleCount - 1)
      PROVE  /\ s.files[k] \in Seq(s.names)
             /\ s.filesBefore[k + 1] = s.filesBefore[k] + Len(s.files[k])
             /\ s.short[2 * SizeOfUInt16 + SizeOfUInt16 * k] = s.filesBefore[k] % UInt16Range
             /\ s.short[2 * SizeOfUInt16 + SizeOfUInt16 * s.moduleCount + SizeOfUInt16 * k] =
                   Len(s.files[k])
  <2>1. /\ SizeOfUInt16 * (2 + k) = 2 * SizeOfUInt16 + SizeOfUInt16 * k
        /\ SizeOfUInt16 * (2 + s.moduleCount + k) =
              2 * SizeOfUInt16 + SizeOfUInt16 * s.moduleCount + SizeOfUInt16 * k
    BY <1>1 DEF SizeOfUInt16
  <2>2. /\ s.short[SizeOfUInt16 * (2 + k)] = s.filesBefore[k] % UInt16Range
        /\ s.short[SizeOfUInt16 * (2 + s.moduleCount + k)] = Len(s.files[k])
        /\ s.filesBefore[k + 1] = s.filesBefore[k] + Len(s.files[k])
    BY SourceStreamsAssumption
  <2> QED
    BY <1>1, <2>1, <2>2
<1> QED
  BY <1>1, <1>2

LEMMA SourceStep ==
  ASSUME SourceInv, IInv, [SourceNext]_<<vars, sourceVars>>
  PROVE  SourceInv'
<1> USE SourceFacts
<1>1. CASE UNCHANGED sourceVars /\ stream' = stream
  BY <1>1 DEF sourceVars, pointers, SourceInv, ArraysAreFound, ViewOf
<1>2. CASE Construct
  <2>1. UNCHANGED <<stream, sourceStream, sourceFileCount, counted, view>> /\ step' = "count"
        /\ step = "start" /\ view = NoView
    BY <1>2 DEF Construct, SourceInv, vars
  <2>2. ArraysAreFound'
    BY <1>2, <2>1 DEF Construct, SourceInv, ArraysAreFound, BehindCounts, SizeOfUInt16
  <2> QED
    BY <2>1, <2>2 DEF SourceInv
<1>3. CASE CountFiles
  <2>1. UNCHANGED <<stream, sourceStream, step, pointers, view>> /\ step = "count" /\ view = NoView
        /\ counted \in 0 .. (sourceStream.moduleCount - 1)
    BY <1>3 DEF CountFiles, SourceInv, ArraysAreFound, vars
  <2>2. /\ counted' = counted + 1
        /\ sourceFileCount' = sourceStream.filesBefore[counted] + Len(sourceStream.files[counted])
    BY <1>3, <2>1 DEF CountFiles, SourceInv, ArraysAreFound
  <2>3. ArraysAreFound'
    BY <2>1, <2>2 DEF SourceInv, ArraysAreFound, pointers
  <2> QED
    BY <2>1, <2>3 DEF SourceInv
<1>4. CASE FinishFiles
  <2>1. UNCHANGED <<stream, sourceStream, m_sourceModuleCount, m_moduleIndices,
                    m_moduleFileCounts, sourceFileCount, counted, view>>
        /\ step = "count" /\ step' = "view" /\ view = NoView /\ counted = sourceStream.moduleCount
    BY <1>4 DEF FinishFiles, SourceInv, ArraysAreFound, vars
  <2>2. m_fileNameOffsets' = FileNameOffsetsOf(sourceStream)
    BY <1>4, <2>1 DEF FinishFiles, SourceInv, ArraysAreFound, FileNameOffsetsOf, SizeOfUInt16
  <2>3. m_stringTable' = StringTableOf(sourceStream)
    BY <1>4, <2>1, <2>2 DEF FinishFiles, SourceInv, ArraysAreFound, StringTableOf
  <2> QED
    BY <2>1, <2>2, <2>3 DEF SourceInv, ArraysAreFound
<1>5. CASE GetModuleFilenameOffsets
  <2>1. UNCHANGED <<stream, sourceStream, step, pointers, sourceFileCount, counted>> /\ step = "view"
    BY <1>5 DEF GetModuleFilenameOffsets, vars
  <2>2. PICK k \in 0 .. (m_moduleCount - 1) :
          view' = [module |-> k,
                   start |-> m_fileNameOffsets + SizeOfUInt32
                               * sourceStream.short[m_moduleIndices + SizeOfUInt16 * k],
                   length |-> sourceStream.short[m_moduleFileCounts + SizeOfUInt16 * k]]
    BY <1>5 DEF GetModuleFilenameOffsets
  <2>3. k \in 0 .. (sourceStream.moduleCount - 1)
    BY <2>2 DEF SourceInv, IInv, TypeOK, WalkFollowsRecords
  <2>4. view' = ViewOf(k)
    BY <2>1, <2>2, <2>3 DEF SourceInv, ArraysAreFound, ViewOf
  <2> QED
    BY <2>1, <2>3, <2>4 DEF SourceInv, ArraysAreFound, ViewOf, pointers
<1> QED
  BY <1>1, <1>2, <1>3, <1>4, <1>5 DEF SourceNext, Next, vars, AddModule, FinishConstruction,
     FindLinkerModule, SkipModule, ReturnModule, ReturnNothing

LEMMA ViewLeadsToOwnFiles == SourceInv => FilesOfOwnModule
<1> SUFFICES ASSUME SourceInv, view # NoView
             PROVE  /\ sourceStream.filesBefore[view.module] < UInt16Range
                          => FilesOf(view) = sourceStream.files[view.module]
                    /\ view.length = Len(sourceStream.files[view.module])
  BY DEF FilesOfOwnModule
<1> DEFINE s == sourceStream
<1>1. PICK k \in 0 .. (s.moduleCount - 1) : view = ViewOf(k)
  BY DEF SourceInv
<1>2. /\ s \in SourceStreams /\ m_stringTable = StringTableOf(s)
      /\ s.files[k] \in Seq(s.names) /\ s.filesBefore[k] \in Nat /\ s.moduleCount \in Nat
      /\ view.module = k /\ view.length = Len(s.files[k])
  <2>1. s \in SourceStreams /\ step = "view" /\ m_stringTable = StringTableOf(s)
    BY DEF SourceInv
  <2>2. s.files[k] \in Seq(s.names) /\ s.filesBefore \in [0 .. s.moduleCount -> Nat] /\ s.moduleCount \in Nat
    BY <2>1, SourceFacts
  <2>3. k \in 0 .. s.moduleCount
    BY <2>2
  <2> QED
    BY <1>1, <2>1, <2>2, <2>3 DEF ViewOf
<1>3. ASSUME s.filesBefore[k] < UInt16Range
      PROVE  FilesOf(view) = s.files[k]
  <2>1. view.start = FileNameOffsetsOf(s) + SizeOfUInt32 * s.filesBefore[k]
    <3> DEFINE before == s.filesBefore[k]
    <3>1. UInt16Range \in Nat /\ before \in Nat /\ before < UInt16Range
      BY <1>2, <1>3, SourceStreamsAssumption
    <3> HIDE DEF before
    <3>2. before % UInt16Range = before
      BY <3>1
    <3> QED
      BY <1>1, <3>2 DEF ViewOf, before
  <2>2. ASSUME NEW f \in 1 .. Len(s.files[k])
        PROVE  GetFilename(s.long[view.start + SizeOfUInt32 * (f - 1)]) = s.files[k][f]
    <3>1. view.start + SizeOfUInt32 * (f - 1) =
            FileNameOffsetsOf(s) + SizeOfUInt32 * (s.filesBefore[k] + f - 1)
      <4>1. f \in Nat /\ s.filesBefore[k] \in Nat /\ FileNameOffsetsOf(s) \in Nat
        BY <1>2 DEF FileNameOffsetsOf, SizeOfUInt16
      <4> QED
        BY <2>1, <4>1 DEF SizeOfUInt32
    <3>2. f \in DOMAIN s.files[k]
      BY <1>2
    <3>3. LET entry == FileNameOffsetsOf(s) + SizeOfUInt32 * (s.filesBefore[k] + f - 1)
          IN  s.text[StringTableOf(s) + s.long[entry]] = s.files[k][f]
      BY <1>2, <3>2, SourceStreamsAssumption
    <3> QED
      BY <1>2, <3>1, <3>3 DEF GetFilename
  <2>3. FilesOf(view) = [f \in 1 .. Len(s.files[k]) |-> s.files[k][f]]
    BY <1>2, <2>2 DEF FilesOf
  <2> QED
    BY <1>2, <2>3
<1> QED
  BY <1>2, <1>3

\* The view of a module leads to its own source files in their order, as long as its
\* first file is among the first 2^16 (PDB_SourceFileStream.h:34).
THEOREM ViewsShowOwnFiles == SourceSpec => []FilesOfOwnModule
<1>1. SourceSpec => []IInv
  BY ModulesStayAsTheyAre, InvariantHolds, PTL
<1> QED
  BY <1>1, SourceInitInv, SourceStep, ViewLeadsToOwnFiles, PTL DEF SourceSpec
=============================================================================
