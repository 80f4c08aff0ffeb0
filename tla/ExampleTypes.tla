---------------------------- MODULE ExampleTypes ----------------------------
(***************************************************************************)
(* ExampleTypes of Examples/ExampleTypes.cpp: goes through all records and *)
(* prints those that define a type, with their fields.  The lists of       *)
(* fields and of overloads are walked one entry per step.                  *)
(***************************************************************************)
EXTENDS TypeTable, TypeRecords

\* What a function takes or returns is no array, nor is what it points to one of
\* function pointers, whose missing name would be appended.
PassedTypes(s) ==
  LET passing == {k \in DOMAIN s.content : s.content[k].kind = "LF_ARGLIST"}
      returning == {k \in DOMAIN s.content : s.content[k].kind \in Functions}
  IN  (UNION {Range(s.content[k].arg) : k \in passing}) \cup {s.content[k].rvtype : k \in returning}

ASSUME ContentAssumption ==
  \A s \in TPIStreams :
    /\ IsContent(s)
    /\ LET names == Resolve(s)
       IN  \A t \in PassedTypes(s) : names[t].referenced # NoRecord =>
             LET pointer == RecordOf(s, names[t].referenced)
             IN  /\ pointer.kind = "LF_POINTER"
                 /\ names[t].name # NullName \/ KindOf(s, pointer.utype) \in Functions

VARIABLES record,             \* position of the loop over all records
          list,               \* the list being displayed, a type index, or none
          i,                  \* DisplayFields's and DisplayEnumerates's offset in it
          j, offsetInMethodList,  \* the loop over the overloads of the method at i
          line                \* what was printed last

displayVars == <<record, list, i, j, offsetInMethodList, line>>

NoList == NoRecord
NotInMethod == -1
NothingPrinted == [about |-> NoRecord, at |-> 0, text |-> <<>>]

DisplayInit ==
  /\ record = 0
  /\ list = NoList /\ i = 0
  /\ j = NotInMethod /\ offsetInMethodList = 0
  /\ line = NothingPrinted

\* The record a pointer into the stream leads to.
At(pointer) == stream.content[CHOOSE k \in DOMAIN stream.content : stream.start[k] = pointer]

Record == At(m_records[record])
AtNextType == pc = "ready" /\ list = NoList /\ record < GetTypeRecordCount

\* LF_STRUCTURE2 and LF_CLASS2 are not among the kinds displayed.
IsDisplayed == Record.kind \in Definitions /\ ~ Record.fwdref

TypeTitle ==
  IF Record.kind = "LF_UNION" THEN LeafNameUnderTwoBytes(Record) ELSE LeafName(Record)

PassType ==
  /\ AtNextType
  /\ ~ IsDisplayed
  /\ record' = record + 1
  /\ UNCHANGED <<tableVars, list, i, j, offsetInMethodList, line>>

\* A type that is defined, but without any list, is passed too.
DisplayType ==
  /\ AtNextType
  /\ IsDisplayed
  /\ GetTypeRecord(Record.field)
  /\ IF answer' = nullptr
       THEN record' = record + 1 /\ UNCHANGED <<list, i, line>>
       ELSE /\ list' = Record.field
            /\ i' = 0
            /\ line' = [about |-> GetFirstTypeIndex + record, at |-> 0, text |-> <<TypeTitle>>]
            /\ UNCHANGED record
  /\ UNCHANGED <<stream, pc, offset, typeIndex, m_records, j, offsetInMethodList>>

Fields == RecordOf(stream, list)
MaximumSize == HeaderSize(stream.start[list - GetFirstTypeIndex]) - SizeOfUInt16
Field == FieldAt(Fields, i)

InEnumeration == Record.kind = "LF_ENUM"

AtField(kinds) ==
  /\ list # NoList /\ j = NotInMethod
  /\ ~ InEnumeration
  /\ i < MaximumSize
  /\ Field.kind \in kinds

ToNextField == i' = NextOffset(Fields, i) /\ UNCHANGED <<tableVars, record, list, j, offsetInMethodList>>

PrintLine(text) == line' = [about |-> list, at |-> i, text |-> text]

\* "printf(functionPrototype.c_str(), leafName)"
MethodText(t) == ReplaceMarker(GetPrototype(stream, t), <<"name">>)

\* The type of a bit-field without a name is taken for a modifier, whatever it is.
BitFieldText(names, type, bitField) ==
  IF type.name # NullName THEN <<type.name, ":">>
  ELSE LET bits == RecordOf(stream, bitField.type)
       IN  IF bits.kind = "LF_MODIFIER" THEN <<bits.attr, names[bits.type].name, ":">>
           ELSE <<Garbage, Garbage, ":">>

\* DisplayFields's switch over the kind of *referencedType.
MemberText(names, t) ==
  LET type == names[t]
      referenced == RecordOf(stream, type.referenced)
  IN  CASE type.referenced = NoRecord -> ModifierName(stream, type.modifier) \o <<type.name>>
        [] type.referenced # NoRecord /\ referenced.kind = "LF_POINTER" ->
             CASE KindOf(stream, referenced.utype) = "LF_PROCEDURE" -> MethodText(referenced.utype)
               [] KindOf(stream, referenced.utype) = "built-in" ->
                    <<type.name>> \o Stars(type.level) \o PointerName(referenced)
               [] OTHER -> ModifierName(stream, type.modifier) \o <<type.name>> \o Stars(type.level)
        [] type.referenced # NoRecord /\ referenced.kind = "LF_BITFIELD" ->
             BitFieldText(names, type, referenced)
        [] type.referenced # NoRecord /\ referenced.kind = "LF_ARRAY" ->
             IF type.modifier = NoRecord THEN <<type.name, "[]">>
             ELSE LET modified == RecordOf(stream, type.modifier)
                  IN  <<modified.attr, names[modified.type].name, "[]">>
        [] OTHER -> <<>>

KnownKinds == NamedFields \cup NamelessFields

DisplayMember ==
  /\ AtField({"LF_MEMBER"})
  /\ PrintLine(MemberText(Resolve(stream), Field.index))
  /\ ToNextField

\* A nested type without its modifier, a static member without its pointers.
DisplayNestedOrStatic ==
  /\ AtField({"LF_NESTTYPE", "LF_STMEMBER"})
  /\ LET type == Resolve(stream)[Field.index]
     IN  PrintLine((IF Field.kind = "LF_NESTTYPE" THEN <<>> ELSE ModifierName(stream, type.modifier))
                     \o <<type.name>>)
  /\ ToNextField

DisplayMethod ==
  /\ AtField({"LF_ONEMETHOD"})
  /\ PrintLine(MethodText(Field.index))
  /\ ToNextField

EnterMethodList ==
  /\ AtField({"LF_METHOD"})
  /\ j' = 0 /\ offsetInMethodList' = 0
  /\ UNCHANGED <<tableVars, record, list, i, line>>

MethodList == RecordOf(stream, Field.index)
Overload == EntryAt(MethodList, offsetInMethodList)

DisplayOverload ==
  /\ j # NotInMethod
  /\ j < Len(MethodList.entries)
  /\ PrintLine(MethodText(Overload.index))
  /\ j' = j + 1
  /\ offsetInMethodList' = offsetInMethodList + EntrySize(Overload)
  /\ UNCHANGED <<tableVars, record, list, i>>

LeaveMethodList ==
  /\ j # NotInMethod
  /\ j >= Len(MethodList.entries)
  /\ j' = NotInMethod
  /\ i' = NextOffset(Fields, i)
  /\ UNCHANGED <<tableVars, record, list, offsetInMethodList, line>>

\* The kinds of field that end with "continue", without a word about them.
PassField ==
  /\ AtField(NamelessFields)
  /\ UNCHANGED line
  /\ ToNextField

\* DisplayEnumerates, which looks at no kind: the index of the rest of a long list
\* is printed as a constant, and passed as one.
DisplayEnumerate ==
  /\ list # NoList
  /\ InEnumeration
  /\ i < MaximumSize
  /\ PrintLine(IF Field.kind = "LF_ENUMERATE" THEN <<"constant">> ELSE <<Garbage>>)
  /\ i' = NextEnumerate(Fields, i)
  /\ UNCHANGED <<tableVars, record, list, j, offsetInMethodList>>

\* The end of the list, or the "break" of DisplayFields for any other kind.
FinishType ==
  /\ list # NoList /\ j = NotInMethod
  /\ i >= MaximumSize \/ (~ InEnumeration /\ Field.kind \notin KnownKinds)
  /\ list' = NoList
  /\ record' = record + 1
  /\ UNCHANGED <<tableVars, i, j, offsetInMethodList, line>>

DisplayStep ==
  \/ PassType \/ DisplayType
  \/ DisplayMember \/ DisplayNestedOrStatic \/ DisplayMethod
  \/ EnterMethodList \/ DisplayOverload \/ LeaveMethodList
  \/ PassField \/ DisplayEnumerate
  \/ FinishType

-----------------------------------------------------------------------------

\* The walk meets every field: it goes from the start of one to the start of the
\* next and leaves the list at its end, whatever kinds, names and numbers of all
\* sizes the fields are made of; and so does the walk over overloads, some of them
\* with an offset into the vftable.
FieldsInTurn ==
  [][ /\ list' = list /\ i' # i =>
           \E k \in DOMAIN Fields.fields :
             /\ i = Fields.at[k]
             /\ i' = IF k = Len(Fields.fields) THEN Fields.size ELSE Fields.at[k + 1]
      /\ list # NoList /\ list' = NoList => i = Fields.size
      /\ j' # j /\ j' # NotInMethod /\ j # NotInMethod =>
           offsetInMethodList = MethodList.at[j'] ]_displayVars

\* "Other kinds of records are not implemented": the assertion in front of the
\* switch of DisplayFields.
OnlyKnownKinds ==
  list # NoList /\ i < MaximumSize /\ ~ InEnumeration =>
    Field.kind \in KnownKinds \cup {"LF_ENUM"}

\* The types that have a record.
TypeIndices == stream.typeIndexBegin .. (stream.typeIndexEnd - 1)

\* The type a pointer, a modifier or an array is made of; any other type is the last
\* of its route.
MadeOf(t) ==
  LET q == RecordOf(stream, t)
  IN  CASE q.kind = "LF_MODIFIER" -> q.type
        [] q.kind = "LF_POINTER" -> q.utype
        [] q.kind = "LF_ARRAY" -> q.elemtype
        [] OTHER -> t

\* Where a type leads to through pointers, modifiers and arrays, itself included.
RouteWith(route, t) ==
  IF MadeOf(t) = t THEN <<t>>
  ELSE IF MadeOf(t) \notin TypeIndices THEN <<t, MadeOf(t)>>
  ELSE <<t>> \o route[MadeOf(t)]
Route ==
  LET route[t \in TypeIndices] == RouteWith(route, t)
  IN  route

Returned == pc = "printed"

\* A name is that of the type all the pointers, modifiers and arrays lead to, in
\* whatever order they come, and every pointer on the way is counted; a type
\* without a name is a function.
NamesResolve ==
  LET names == Resolve(stream)
  IN  Returned => \A t \in TypeIndices :
        LET route == Route[t]
            last == Last(route)
        IN  KindOf(stream, last) \in
              Definitions \cup LargeClasses \cup Functions \cup {"built-in"} =>
              /\ names[t].name = CASE KindOf(stream, last) = "built-in" -> BuiltInName(last)
                                   [] KindOf(stream, last) \in Functions -> NullName
                                   [] OTHER -> RecordOf(stream, last).name
              /\ names[t].level =
                   Cardinality({n \in DOMAIN route : KindOf(stream, route[n]) = "LF_POINTER"})

Markers(text) == Cardinality({n \in DOMAIN text : text[n] = Marker})

\* A prototype is the format of a printf with one name: it has one marker, of its
\* own, however many functions it takes or returns pointers to, and the text of any
\* other type has one at most.
OneMarker ==
  LET texts == Texts(stream, Resolve(stream))
  IN  Returned => \A t \in TypeIndices :
        /\ KindOf(stream, t) \in Functions => Markers(texts[t].prototype) = 1
        /\ Markers(texts[t].name) <= 1
=============================================================================
