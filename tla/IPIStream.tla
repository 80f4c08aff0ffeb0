----------------------------- MODULE IPIStream -----------------------------
(***************************************************************************)
(* PDB_IPIStream: the constructor walks the CodeView records of the stream *)
(* once and stores a pointer to each, because other records name them by   *)
(* type index and the index is stored nowhere.                             *)
(***************************************************************************)
EXTENDS Integers, Sequences

CONSTANT IPIStreams           \* the well-formed IPI streams, IsIPIStream each

SizeOfStreamHeader == 56      \* sizeof(IPI::StreamHeader)
SizeOfRecordHeader == 4       \* sizeof(CodeView::IPI::RecordHeader)
SizeOfKind == 2               \* the part of it that header.size counts

StringLists == {"LF_BUILDINFO", "LF_SUBSTR_LIST"}
TypeNaming == {"LF_FUNC_ID", "LF_MFUNC_ID", "LF_UDT_SRC_LINE", "LF_UDT_MOD_SRC_LINE"}
Kinds == StringLists \cup TypeNaming \cup {"LF_STRING_ID", "other"}

\* What the linker wrote: record k starts at start[k] and has the type index
\* typeIndexBegin + k.  recordSize, kind, typeIndices and types tell what a record
\* overlaid on an offset says of itself: the records of this stream it names, which
\* are strings, and those of the TPI stream.  A list of strings starts with a string
\* and may have the index 0, for no string, behind it.
IsIPIStream(s) ==
  LET count == s.typeIndexEnd - s.typeIndexBegin
      IsString(t) == /\ t \in s.typeIndexBegin .. (s.typeIndexEnd - 1)
                     /\ s.kind[s.start[t - s.typeIndexBegin]] = "LF_STRING_ID"
  IN  /\ s.typeIndexBegin \in Nat \ {0} /\ s.typeIndexEnd \in Nat /\ count \in Nat
      /\ s.start \in [0 .. count -> Nat]
      /\ s.start[0] = SizeOfStreamHeader
      /\ s.size = s.start[count]
      /\ \A k \in 0 .. (count - 1) :
           LET o == s.start[k]
           IN  /\ s.recordSize[o] \in Nat \ (0 .. (SizeOfKind - 1))
               /\ s.start[k + 1] =
                    o + (SizeOfRecordHeader - SizeOfKind) + s.recordSize[o]
               /\ s.start[k + 1] <= s.size
               /\ s.kind[o] \in Kinds
               /\ s.typeIndices[o] \in Seq(Nat)
               /\ s.types[o] \in Seq(Nat)
               /\ Len(s.types[o]) = CASE s.kind[o] = "LF_MFUNC_ID" -> 2
                                     [] s.kind[o] \in TypeNaming \ {"LF_MFUNC_ID"} -> 1
                                     [] OTHER -> 0
               /\ s.kind[o] = "LF_UDT_SRC_LINE" => Len(s.typeIndices[o]) = 1
               /\ s.kind[o] \in StringLists \cup {"LF_UDT_SRC_LINE"} =>
                    \A j \in DOMAIN s.typeIndices[o] :
                      \/ IsString(s.typeIndices[o][j])
                      \/ j > 1 /\ s.typeIndices[o][j] = 0

VARIABLES stream,             \* m_header and m_stream
          pc,                 \* "walk" in the constructor
          offset, typeIndex,  \* locals of the constructor
          m_records           \* the pointers, as offsets into the stream

streamVars == <<stream, pc, offset, typeIndex, m_records>>

GetFirstTypeIndex == stream.typeIndexBegin
GetLastTypeIndex == stream.typeIndexEnd
RecordCount == GetLastTypeIndex - GetFirstTypeIndex   \* m_recordCount

Unwritten == -1

\* The stream is one of IPIStreams.
StreamInit ==
  /\ pc = "walk"
  /\ offset = SizeOfStreamHeader
  /\ typeIndex = 0
  /\ m_records = [k \in 0 .. (RecordCount - 1) |-> Unwritten]

\* Variant: the stored size is taken for that of the data alone.
WholeCodeViewRecordSize(o) == stream.recordSize[o]

\* "the stored size includes the size of the 'kind' field, but not the size of
\* the 'size' field itself"
GetCodeViewRecordSize(o) == stream.recordSize[o] - SizeOfKind

\* One iteration of the loop; a record stored behind the end of the array
\* becomes part of it, so that an overrun shows in its DOMAIN.
AddRecord ==
  /\ pc = "walk"
  /\ offset < stream.size
  /\ m_records' = [k \in DOMAIN m_records \cup {typeIndex} |->
                     IF k = typeIndex THEN offset ELSE m_records[k]]
  /\ offset' = offset + SizeOfRecordHeader + GetCodeViewRecordSize(offset)
  /\ typeIndex' = typeIndex + 1
  /\ UNCHANGED <<stream, pc>>

FinishConstruction ==
  /\ pc = "walk"
  /\ offset >= stream.size
  /\ pc' = "ready"
  /\ UNCHANGED <<stream, offset, typeIndex, m_records>>

ConstructorStep == AddRecord \/ FinishConstruction

-----------------------------------------------------------------------------

\* "Records identified by a type index can be accessed via allRecords[typeIndex -
\* firstTypeIndex]": the walk stands at the record whose pointer it stores next,
\* stores exactly as many as the header counts, and never one behind the array.
RecordsAreIndexed ==
  /\ typeIndex <= RecordCount
  /\ offset = stream.start[typeIndex]
  /\ pc # "walk" => typeIndex = RecordCount
  /\ m_records = [k \in 0 .. (RecordCount - 1) |->
                    IF k < typeIndex THEN stream.start[k] ELSE Unwritten]
=============================================================================
