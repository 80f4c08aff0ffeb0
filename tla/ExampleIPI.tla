----------------------------- MODULE ExampleIPI -----------------------------
(***************************************************************************)
(* Examples/ExampleIPI.cpp, the client of an IPIStream: a first pass over  *)
(* its records collects the strings by index, a second one prints every    *)
(* record, with the strings and the types the records name by type index:  *)
(* strings of this stream, types of the TPI stream.                        *)
(***************************************************************************)
EXTENDS IPIStream, TypeRecords

CONSTANT TypeContents         \* what the TypeTable can hold, IsContent each

VARIABLES table,              \* the records behind the TypeTable
          strings,            \* the names collected, as offsets of their records
          index,              \* position of the loop over the records
          identifier,         \* what the second pass prints as ID
          line                \* what was printed last

vars == <<streamVars, table, strings, index, identifier, line>>

nullptr == -1
NoString == -2                \* printed as ''
NothingPrinted == [record |-> nullptr, id |-> 0, strings |-> <<>>, types |-> <<>>]

Init ==
  /\ StreamInit
  /\ strings = <<>>
  /\ index = 0
  /\ identifier = 0
  /\ line = NothingPrinted

Construct == ConstructorStep /\ UNCHANGED <<table, strings, index, identifier, line>>

\* strings.resize(records.GetLength(), nullptr)
StartCollecting ==
  /\ pc = "ready"
  /\ pc' = "collect"
  /\ strings' = [k \in 0 .. (RecordCount - 1) |-> nullptr]
  /\ index' = 0
  /\ UNCHANGED <<stream, offset, typeIndex, m_records, table, identifier, line>>

Record == m_records[index]

\* Variant: the strings are appended, as if every record were one.
CollectDense ==
  /\ pc = "collect"
  /\ index < RecordCount
  /\ LET free == {k \in DOMAIN strings : strings[k] = nullptr}
         first == CHOOSE k \in free : \A l \in free : k <= l
     IN  strings' = IF stream.kind[Record] = "LF_STRING_ID"
                      THEN [strings EXCEPT ![first] = Record] ELSE strings
  /\ index' = index + 1
  /\ UNCHANGED <<streamVars, table, identifier, line>>

Collect ==
  /\ pc = "collect"
  /\ index < RecordCount
  /\ strings' = IF stream.kind[Record] = "LF_STRING_ID"
                  THEN [strings EXCEPT ![index] = Record] ELSE strings
  /\ index' = index + 1
  /\ UNCHANGED <<streamVars, table, identifier, line>>

\* Variant: the numbering goes on from what the first pass counted.
StartPrintingBehind ==
  /\ pc = "collect"
  /\ index >= RecordCount
  /\ pc' = "print"
  /\ index' = 0
  /\ identifier' = GetFirstTypeIndex + index
  /\ UNCHANGED <<stream, offset, typeIndex, m_records, table, strings, line>>

StartPrinting ==
  /\ pc = "collect"
  /\ index >= RecordCount
  /\ pc' = "print"
  /\ index' = 0
  /\ identifier' = GetFirstTypeIndex
  /\ UNCHANGED <<stream, offset, typeIndex, m_records, table, strings, line>>

\* The string with type index t.  The code compares only the indices behind the
\* first of a list with 0; no stream has a 0 elsewhere.
StringOf(t) == IF t = 0 THEN NoString ELSE strings[t - GetFirstTypeIndex]

StringsOf(record) ==
  IF stream.kind[record] \in StringLists \cup {"LF_UDT_SRC_LINE"}
    THEN [j \in DOMAIN stream.typeIndices[record] |->
            StringOf(stream.typeIndices[record][j])]
    ELSE <<>>

\* "Remove any '%s' substring used to insert a variable/field name."
GetTypeNameIPI(t) == ReplaceMarker(GetTypeName(table, t), <<>>)

TypesOf(record) ==
  [j \in DOMAIN stream.types[record] |-> GetTypeNameIPI(stream.types[record][j])]

\* An empty list ends the iteration with "continue".
EndsEarly(record) ==
  stream.kind[record] \in StringLists /\ stream.typeIndices[record] = <<>>

PrintRecord ==
  /\ pc = "print"
  /\ index < RecordCount
  /\ line' = [record |-> Record, id |-> identifier,
              strings |-> StringsOf(Record), types |-> TypesOf(Record)]
  /\ identifier' = IF EndsEarly(Record) THEN identifier ELSE identifier + 1
  /\ index' = index + 1
  /\ UNCHANGED <<streamVars, table, strings>>

Finish ==
  /\ pc = "print"
  /\ index >= RecordCount
  /\ pc' = "done"
  /\ UNCHANGED <<stream, offset, typeIndex, m_records, table, strings, index, identifier, line>>

Next == Construct \/ StartCollecting \/ Collect \/ StartPrinting \/ PrintRecord \/ Finish

Spec == /\ stream \in IPIStreams /\ table \in TypeContents
        /\ Init /\ [][Next]_vars

-----------------------------------------------------------------------------

\* Whatever order the records come in, a string in front of the lists that name
\* it or behind them, what is printed for a type index is the text of the string
\* record with that index; no record without a text is printed as one.  And what is
\* printed for a type is no format: it has no marker left, be the type a function, a
\* pointer to one, or one that takes or returns pointers to others, all of which are
\* spelled with markers on the way.
StringsAndTypesResolve ==
  /\ \A j \in DOMAIN line.types : Marker \notin Range(line.types[j])
  /\ line # NothingPrinted =>
    \A j \in DOMAIN line.strings :
      LET t == stream.typeIndices[line.record][j]
      IN  IF t = 0 THEN line.strings[j] = NoString
          ELSE /\ line.strings[j] = stream.start[t - stream.typeIndexBegin]
               /\ stream.kind[line.strings[j]] = "LF_STRING_ID"

\* The ID printed for a record is the type index other records name it by, unless
\* an empty list was passed before, which uncounted leaves every later ID too low.
IdentifierNamesRecord ==
  line # NothingPrinted =>
    LET empty == {k \in 0 .. (index - 2) : EndsEarly(m_records[k])}
    IN  stream.start[line.id - GetFirstTypeIndex + Cardinality(empty)] = line.record
=============================================================================
