----------------------------- MODULE TypeTable -----------------------------
(***************************************************************************)
(* PDB_TPIStream and Examples/ExampleTypeTable: the TPIStream reads record *)
(* headers through its DirectMSFStream and hands each to a callback; the   *)
(* TypeTable's callback stores a pointer to the same record in a coalesced *)
(* copy of the stream, and GetTypeRecord looks it up by type index.        *)
(***************************************************************************)
EXTENDS Integers

CONSTANT TPIStreams           \* the well-formed TPI streams

SizeOfStreamHeader == 56      \* sizeof(TPI::StreamHeader)
SizeOfRecordHeader == 4       \* sizeof(CodeView::TPI::RecordHeader)
SizeOfUInt16 == 2

\* Record k starts at start[k] of the stream.  Read through the direct stream or
\* in the coalesced one, an offset shows the same record: recordSize[offset].
ASSUME TPIStreamsAssumption ==
  \A s \in TPIStreams :
    LET count == s.typeIndexEnd - s.typeIndexBegin
    IN  /\ s.typeIndexBegin \in Nat \ {0} /\ s.typeIndexEnd \in Nat /\ count \in Nat
        /\ s.start \in [0 .. count -> Nat]
        /\ s.start[0] = SizeOfStreamHeader /\ s.size = s.start[count]
        /\ \A k \in 0 .. (count - 1) :
             /\ s.recordSize[s.start[k]] \in Nat \ (0 .. (SizeOfUInt16 - 1))
             /\ s.start[k + 1] = s.start[k] + SizeOfRecordHeader
                                 + s.recordSize[s.start[k]] - SizeOfUInt16
             /\ s.start[k + 1] <= s.size

VARIABLES stream,             \* m_stream and m_header of the TPIStream
          pc,
          offset,             \* local of ForEachTypeRecordHeaderAndOffset
          typeIndex,          \* local of the TypeTable's constructor
          m_records,
          asked, answer       \* last call of GetTypeRecord

tableVars == <<stream, pc, offset, typeIndex, m_records, asked, answer>>

GetFirstTypeIndex == stream.typeIndexBegin
GetLastTypeIndex == stream.typeIndexEnd
GetTypeRecordCount == GetLastTypeIndex - GetFirstTypeIndex

nullptr == -1
Unwritten == -2               \* new[] leaves the array uninitialized
Outside == -3                 \* read from behind the end of the array
NotAsked == -1

\* The stream is one of TPIStreams.
TableInit ==
  /\ pc = "walk"
  /\ offset = SizeOfStreamHeader
  /\ typeIndex = 0
  /\ m_records = [k \in 0 .. (GetTypeRecordCount - 1) |-> Unwritten]
  /\ asked = NotAsked
  /\ answer = nullptr

\* ReadTypeRecordHeader, of which only the size matters to the loop.
HeaderSize(o) == stream.recordSize[o]

\* Variant: the callback gets the offset of the record behind the header's.
CallbackBehind ==
  /\ pc = "walk"
  /\ offset < stream.size
  /\ offset' = offset + SizeOfRecordHeader + HeaderSize(offset) - SizeOfUInt16
  /\ m_records' = [k \in DOMAIN m_records \cup {typeIndex} |->
                     IF k = typeIndex THEN offset' ELSE m_records[k]]
  /\ typeIndex' = typeIndex + 1
  /\ UNCHANGED <<stream, pc, asked, answer>>

\* One iteration: the header is read, the callback stores the pointer at the
\* index it counts itself, the offset moves on.
Callback ==
  /\ pc = "walk"
  /\ offset < stream.size
  /\ m_records' = [k \in DOMAIN m_records \cup {typeIndex} |->
                     IF k = typeIndex THEN offset ELSE m_records[k]]
  /\ typeIndex' = typeIndex + 1
  /\ offset' = offset + SizeOfRecordHeader + HeaderSize(offset) - SizeOfUInt16
  /\ UNCHANGED <<stream, pc, asked, answer>>

FinishConstruction ==
  /\ pc = "walk"
  /\ offset >= stream.size
  /\ pc' = "ready"
  /\ UNCHANGED <<stream, offset, typeIndex, m_records, asked, answer>>

RecordAt(k) == IF k \in DOMAIN m_records THEN m_records[k] ELSE Outside

Lookup(t) ==
  IF t < GetFirstTypeIndex \/ t > GetLastTypeIndex
    THEN nullptr
    ELSE RecordAt(t - GetFirstTypeIndex)

\* A call, by an example that found the type index in a record.
GetTypeRecord(t) == asked' = t /\ answer' = Lookup(t)

ConstructorStep == Callback \/ FinishConstruction

-----------------------------------------------------------------------------

\* The index counted by the callback and the offset kept by the iteration stay
\* in step: a type index that a record names leads to the record the linker gave
\* it, and to no entry left uninitialized.  The index typeIndexEnd itself is let
\* through by GetTypeRecord and left out here.
TypeIndexNamesRecord ==
  asked \notin {NotAsked, stream.typeIndexEnd} =>
    answer = IF asked \in stream.typeIndexBegin .. (stream.typeIndexEnd - 1)
               THEN stream.start[asked - stream.typeIndexBegin]
               ELSE nullptr

=============================================================================
