-------------------------- MODULE ModuleInfoStream --------------------------
(***************************************************************************)
(* PDB_ModuleInfoStream: the constructor allocates an array for as many    *)
(* modules as the stream could hold at most, then walks the records, whose *)
(* length depends on the two names they end with, and stores pointers to   *)
(* them.  FindLinkerModule searches the array from the end.                *)
(***************************************************************************)
EXTENDS PDBUtil

CONSTANT ModuleStreams        \* the well-formed module info substreams

SizeOfModuleInfo == 64        \* sizeof(DBI::ModuleInfo)

\* What the linker wrote: count records one behind the other.  start[k] is where
\* record k starts and start[count] the size of the stream; strlen maps every
\* offset to the number of bytes in front of the next terminator; linkerText is
\* where the text "* Linker *" starts, and linker the record named so, if any.
ASSUME ModuleStreamsAssumption ==
  \A s \in ModuleStreams :
    /\ s.count \in Nat
    /\ s.start \in [0 .. s.count -> Nat] /\ s.start[0] = 0
    /\ s.size = s.start[s.count]
    /\ s.nameLength \in [0 .. (s.count - 1) -> Nat]
    /\ s.objectNameLength \in [0 .. (s.count - 1) -> Nat]
    /\ s.linker \subseteq 0 .. (s.count - 1)
    /\ \A k, l \in s.linker : k = l
    /\ \A k \in 0 .. (s.count - 1) :
         LET name == s.start[k] + SizeOfModuleInfo
             objectName == name + s.nameLength[k] + 1
         IN  /\ s.strlen[name] = s.nameLength[k]
             /\ name \in s.linkerText <=> k \in s.linker
             /\ s.strlen[objectName] = s.objectNameLength[k]
             /\ s.start[k + 1] <= s.size
             /\ s.start[k + 1] =
                  RoundUpToMultiple(objectName + s.objectNameLength[k] + 1, 4)

VARIABLES stream,             \* m_stream: the coalesced substream
          pc,                 \* "walk" in the constructor, then "ready", "search"
          streamOffset,       \* local of the constructor
          m_modules, m_moduleCount,
          i,                  \* local of FindLinkerModule
          found               \* what FindLinkerModule returned last

vars == <<stream, pc, streamOffset, m_modules, m_moduleCount, i, found>>

\* Variant: an estimate from records that carry names of at least three letters.
EstimateFromNamedModules(streamSize) == streamSize \div (SizeOfModuleInfo + 8)

\* How many modules the stream holds at most.
EstimateModuleCount(streamSize) == streamSize \div SizeOfModuleInfo

NoModule == [info |-> 0, name |-> 0, nameLength |-> 0,
             objectName |-> 0, objectNameLength |-> 0]

nullptr == -1
NotAskedFor == -2             \* FindLinkerModule has not returned yet

Init ==
  /\ stream \in ModuleStreams
  /\ pc = "walk"
  /\ streamOffset = 0
  /\ m_modules = [k \in 0 .. (EstimateModuleCount(stream.size) - 1) |-> NoModule]
  /\ m_moduleCount = 0
  /\ i = 0
  /\ found = NotAskedFor

NameOffset == streamOffset + SizeOfModuleInfo
ObjectNameOffset == NameOffset + stream.strlen[NameOffset] + 1

\* Variant: the terminator of the object name is not skipped.
NextRecordWithoutTerminator ==
  RoundUpToMultiple(ObjectNameOffset + stream.strlen[ObjectNameOffset], 4)

\* "the stream is aligned to 4 bytes"
NextRecord ==
  RoundUpToMultiple(ObjectNameOffset + stream.strlen[ObjectNameOffset] + 1, 4)

\* One iteration of the constructor's loop.  A module stored behind the end of
\* the array becomes part of it: an overrun shows in its DOMAIN.
AddModule ==
  /\ pc = "walk"
  /\ streamOffset < stream.size
  /\ m_modules' = [k \in DOMAIN m_modules \cup {m_moduleCount} |->
       IF k = m_moduleCount
         THEN [info |-> streamOffset, name |-> NameOffset,
               nameLength |-> stream.strlen[NameOffset],
               objectName |-> ObjectNameOffset,
               objectNameLength |-> stream.strlen[ObjectNameOffset]]
         ELSE m_modules[k]]
  /\ m_moduleCount' = m_moduleCount + 1
  /\ streamOffset' = NextRecord
  /\ UNCHANGED <<stream, pc, i, found>>

FinishConstruction ==
  /\ pc = "walk"
  /\ streamOffset >= stream.size
  /\ pc' = "ready"
  /\ UNCHANGED <<stream, streamOffset, m_modules, m_moduleCount, i, found>>

FindLinkerModule ==
  /\ pc = "ready"
  /\ pc' = "search"
  /\ i' = 0
  /\ UNCHANGED <<stream, streamOffset, m_modules, m_moduleCount, found>>

\* strcmp(module.GetName().Decay(), LinkerSymbolName) == 0
IsLinkerModule(module) == module.name \in stream.linkerText

\* Variant: the search stops one module early.
SearchGoesOnUntilFirst == i + 1 < m_moduleCount

Candidate == m_moduleCount - i - 1
SearchGoesOn == i < m_moduleCount

SkipModule ==
  /\ pc = "search"
  /\ SearchGoesOn
  /\ ~ IsLinkerModule(m_modules[Candidate])
  /\ i' = i + 1
  /\ UNCHANGED <<stream, pc, streamOffset, m_modules, m_moduleCount, found>>

ReturnModule ==
  /\ pc = "search"
  /\ SearchGoesOn
  /\ IsLinkerModule(m_modules[Candidate])
  /\ found' = Candidate
  /\ pc' = "ready"
  /\ UNCHANGED <<stream, streamOffset, m_modules, m_moduleCount, i>>

ReturnNothing ==
  /\ pc = "search"
  /\ ~ SearchGoesOn
  /\ found' = nullptr
  /\ pc' = "ready"
  /\ UNCHANGED <<stream, streamOffset, m_modules, m_moduleCount, i>>

Next == \/ AddModule \/ FinishConstruction
        \/ FindLinkerModule \/ SkipModule \/ ReturnModule \/ ReturnNothing

Spec == Init /\ [][Next]_vars

-----------------------------------------------------------------------------

TypeOK ==
  /\ pc \in {"walk", "ready", "search"}
  /\ streamOffset \in Nat
  /\ m_moduleCount \in Nat
  /\ i \in Nat /\ i <= m_moduleCount
  /\ found \in NotAskedFor .. (m_moduleCount - 1)

\* "work out how many modules are stored in the stream at most": the estimate is
\* an upper bound, so the constructor never stores a module behind the end of
\* the array, whatever the lengths of the names, the empty name included.
EstimateIsEnough == DOMAIN m_modules = 0 .. (EstimateModuleCount(stream.size) - 1)

\* The module that points to record k and its names.
ModuleOfRecord(k) ==
  [info |-> stream.start[k],
   name |-> stream.start[k] + SizeOfModuleInfo,
   nameLength |-> stream.nameLength[k],
   objectName |-> stream.start[k] + SizeOfModuleInfo + stream.nameLength[k] + 1,
   objectNameLength |-> stream.objectNameLength[k]]

\* The walk stays on the records: where it stands is where the next one starts,
\* and every module stored so far points to its own record and names, the
\* terminators and the alignment accounted for.
WalkFollowsRecords ==
  /\ m_moduleCount <= stream.count
  /\ streamOffset = stream.start[m_moduleCount]
  /\ pc # "walk" => m_moduleCount = stream.count
  /\ \A k \in 0 .. (m_moduleCount - 1) : m_modules[k] = ModuleOfRecord(k)

\* The search from the end finds the linker's module wherever it is, and nothing
\* if there is none: no module is skipped at either end of the array.
LinkerModuleIsFound ==
  found # NotAskedFor =>
    IF stream.linker = {} THEN found = nullptr ELSE found \in stream.linker
=============================================================================
