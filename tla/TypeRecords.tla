---------------------------- MODULE TypeRecords ----------------------------
(***************************************************************************)
(* What the records of a TPI stream say to the examples that read them     *)
(* (PDB_TPITypes.h), and how Examples/ExampleTypes.cpp finds its way       *)
(* through the two kinds of record that are lists: the fields of a type    *)
(* and the overloads of a method, whose entries have no size of their own. *)
(***************************************************************************)
EXTENDS Integers, SequencesExt

\* A stream s gives its records as s.content, numbered from 0: a function from
\* type indices, less s.typeIndexBegin, to what is at the index.
IsRecord(s, t) == t \in s.typeIndexBegin .. (s.typeIndexEnd - 1)
RecordOf(s, t) == s.content[t - s.typeIndexBegin]
KindOf(s, t) == IF IsRecord(s, t) THEN RecordOf(s, t).kind ELSE "built-in"

Definitions == {"LF_STRUCTURE", "LF_CLASS", "LF_UNION", "LF_ENUM"}
\* Classes whose size takes more than two bytes: they have a name, but no example
\* displays them or goes into them.
LargeClasses == {"LF_CLASS2", "LF_STRUCTURE2"}
Functions == {"LF_PROCEDURE", "LF_MFUNCTION"}

\* The numbers in a record, of offsets and values: LF_NUMERIC and above is a kind
\* with the number behind it; anything below is the number itself.
NumericLeaves == {"below LF_NUMERIC", "LF_CHAR", "LF_SHORT", "LF_USHORT", "LF_LONG",
                  "LF_ULONG", "LF_QUADWORD", "LF_UQUADWORD"}
SizeOfRecordKind == 2               \* sizeof(TypeRecordKind)

GetLeafSize(leaf) ==
  CASE leaf = "below LF_NUMERIC" -> SizeOfRecordKind
    [] leaf = "LF_CHAR" -> SizeOfRecordKind + 1
    [] leaf \in {"LF_USHORT", "LF_SHORT"} -> SizeOfRecordKind + 2
    [] leaf \in {"LF_LONG", "LF_ULONG"} -> SizeOfRecordKind + 4
    [] leaf \in {"LF_QUADWORD", "LF_UQUADWORD"} -> SizeOfRecordKind + 8

Garbage == "garbage"
\* GetLeafName, with the kind taken from the record itself ("lfEasy.kind"), and
\* with a kind below LF_NUMERIC, for which the size of the type is in the way of
\* its name if that is 32 KiB or more.
LeafName(record) == record.name
LeafNameUnderTwoBytes(record) == IF record.leaf = "below LF_NUMERIC" THEN record.name ELSE Garbage

-----------------------------------------------------------------------------
\* The fields of a type: list.fields[j] starts at list.at[j] and list.size is the
\* size of the list.  A field is followed by padding up to a multiple of four.  Its
\* index is the one the examples use: the type of a member, a method or the table
\* of virtual functions, the pointer to a virtual base, the list of overloads, the
\* rest of a long list.  length is that of its name.

VirtualBases == {"LF_VBCLASS", "LF_IVBCLASS"}
NamedFields == {"LF_MEMBER", "LF_NESTTYPE", "LF_STMEMBER", "LF_METHOD", "LF_ONEMETHOD"}
NamelessFields == VirtualBases \cup {"LF_BCLASS", "LF_INDEX", "LF_VFUNCTAB"}

Intro == {"Intro", "PureIntro"}  \* the methods with an offset into the vftable

RoundUp4(n) == ((n + 3) \div 4) * 4

\* Any other place shows padding or the middle of a field.
NoField == [kind |-> "none"]
FieldAt(list, i) ==
  IF \E j \in DOMAIN list.fields : list.at[j] = i
    THEN list.fields[CHOOSE j \in DOMAIN list.fields : list.at[j] = i] ELSE NoField

\* Variant: the name of every method directly follows its type index.
NameBehindIndex(field) ==
  CASE field.kind \in {"LF_MEMBER", "LF_BCLASS"} -> 8 + GetLeafSize(field.leaf)
    [] field.kind = "LF_ENUMERATE" -> 4 + GetLeafSize(field.leaf)
    [] OTHER -> 8

\* leafName - fieldRecord, with GetMethodName for a method that is not overloaded
\* and GetLeafName for what a number stands in front of.
NameOffset(field) ==
  CASE field.kind \in {"LF_MEMBER", "LF_BCLASS"} -> 8 + GetLeafSize(field.leaf)
    [] field.kind = "LF_ENUMERATE" -> 4 + GetLeafSize(field.leaf)
    [] field.kind = "LF_ONEMETHOD" /\ field.mprop \in Intro -> 12
    [] OTHER -> 8

\* Where the loops over a list go on behind the field at i.  The sizes of the
\* structures in FieldList::Data do not include the kind in front of them.
NextOffset(list, i) ==
  LET field == FieldAt(list, i)
      name == i + NameOffset(field)
  IN  CASE field.kind \in VirtualBases ->
             RoundUp4(i + 10 + GetLeafSize(field.leaf) + GetLeafSize(field.vbtableLeaf))
        [] field.kind \in {"LF_INDEX", "LF_VFUNCTAB"} -> RoundUp4(i + 6)
        [] field.kind = "LF_BCLASS" -> RoundUp4(name)
        [] OTHER -> RoundUp4(name + Min({field.length, list.size - name - 1}) + 1)

\* What DisplayEnumerates takes a field for, whatever its kind: behind an LF_INDEX in
\* place of a value comes a type index, the lower half of which is below LF_NUMERIC,
\* and the upper half, nothing but zeros, an empty name.
AsEnumerate(field) ==
  IF field.kind = "LF_INDEX" THEN [leaf |-> "below LF_NUMERIC", length |-> 0]
                             ELSE [leaf |-> field.leaf, length |-> field.length]

NextEnumerate(list, i) ==
  LET field == AsEnumerate(FieldAt(list, i))
      name == i + 4 + GetLeafSize(field.leaf)
  IN  RoundUp4(name + Min({field.length, list.size - name - 1}) + 1)

\* The fields the loop of TagChildren comes by, which stops at any kind it does not
\* know; that of DisplayFields is modelled step by step.
ReachedFields(list) ==
  LET from[i \in Nat] ==
        IF i >= list.size \/ FieldAt(list, i) = NoField THEN <<>>
        ELSE <<FieldAt(list, i)>> \o from[NextOffset(list, i)]
  IN  from[0]

\* The overloads of a method: list.entries[j] starts at list.at[j].
NoEntry == [index |-> 0, mprop |-> "Vanilla"]
EntryAt(list, i) ==
  IF \E j \in DOMAIN list.entries : list.at[j] = i
    THEN list.entries[CHOOSE j \in DOMAIN list.entries : list.at[j] = i] ELSE NoEntry

EntrySize(entry) == IF entry.mprop \in Intro THEN 12 ELSE 8

ReachedEntries(list) ==
  LET offset[j \in 0 .. Len(list.entries)] ==
        IF j = 0 THEN 0 ELSE offset[j - 1] + EntrySize(EntryAt(list, offset[j - 1]))
  IN  [j \in DOMAIN list.entries |-> EntryAt(list, offset[j - 1])]

-----------------------------------------------------------------------------
\* How the compiler lays the lists out (microsoft-pdb, cvinfo.h).

NumberLength(leaf) ==
  [l \in NumericLeaves |->
     CASE l = "below LF_NUMERIC" -> 2 [] l = "LF_CHAR" -> 3
       [] l \in {"LF_SHORT", "LF_USHORT"} -> 4 [] l \in {"LF_LONG", "LF_ULONG"} -> 6
       [] OTHER -> 10][leaf]

FieldLength(field) ==
  CASE field.kind \in VirtualBases -> 12 + NumberLength(field.leaf) + NumberLength(field.vbtableLeaf)
    [] field.kind \in {"LF_INDEX", "LF_VFUNCTAB"} -> 8
    [] field.kind = "LF_BCLASS" -> 8 + NumberLength(field.leaf)
    [] field.kind = "LF_MEMBER" -> 8 + NumberLength(field.leaf) + field.length + 1
    [] field.kind = "LF_ENUMERATE" -> 4 + NumberLength(field.leaf) + field.length + 1
    [] field.kind = "LF_ONEMETHOD" -> 8 + (IF field.mprop \in Intro THEN 4 ELSE 0) + field.length + 1
    [] OTHER -> 8 + field.length + 1

\* One behind the other, each padded to a multiple of four.
IsFieldList(record) ==
  LET count == Len(record.fields)
      EndOf(k) == IF k = count THEN record.size ELSE record.at[k + 1]
  IN  /\ record.fields \in Seq(Range(record.fields))
      /\ record.at \in [1 .. count -> Nat] /\ record.size \in Nat
      /\ count = 0 => record.size = 0
      /\ count > 0 => record.at[1] = 0
      /\ \A k \in 1 .. count :
           LET f == record.fields[k]
           IN  /\ EndOf(k) = record.at[k] + RoundUp4(FieldLength(f))
               /\ f.kind \in NamedFields \cup NamelessFields \cup {"LF_ENUMERATE"}
               /\ f.kind \in {"LF_MEMBER", "LF_BCLASS", "LF_ENUMERATE"} => f.leaf \in NumericLeaves
               /\ f.kind \in VirtualBases => {f.leaf, f.vbtableLeaf} \subseteq NumericLeaves
               /\ f.kind \notin NamelessFields => f.length \in Nat

IsMethodList(record) ==
  LET count == Len(record.entries)
      Length(e) == 8 + (IF e.mprop \in Intro THEN 4 ELSE 0)
  IN  /\ record.entries \in Seq(Range(record.entries))
      /\ record.at \in [1 .. count -> Nat]
      /\ count > 0 => record.at[1] = 0
      /\ \A k \in 1 .. (count - 1) : record.at[k + 1] = record.at[k] + Length(record.entries[k])

\* The indices a record names, 0 for none.
IndicesOf(record) ==
  CASE record.kind = "LF_MODIFIER" -> {record.type}
    [] record.kind = "LF_BITFIELD" -> {record.type}
    [] record.kind = "LF_POINTER" -> {record.utype}
    [] record.kind = "LF_ARRAY" -> {record.elemtype, record.idxtype}
    [] record.kind = "LF_PROCEDURE" -> {record.rvtype, record.arglist}
    [] record.kind = "LF_MFUNCTION" -> {record.rvtype, record.arglist, record.classtype, record.thistype}
    [] record.kind = "LF_ARGLIST" -> Range(record.arg)
    [] record.kind \in Definitions -> {record.field}
    [] record.kind = "LF_FIELDLIST" -> {f.index : f \in {f \in Range(record.fields) : f.kind \notin {"LF_BCLASS", "LF_ENUMERATE"}}}
    [] record.kind = "LF_METHODLIST" -> {e.index : e \in Range(record.entries)}
    [] OTHER -> {}

\* No definition is called what the examples print in the place of a name.
Marker == "%s"
NullName == "(null)"          \* a nullptr for a name, as printf shows it
NoName == "???"               \* and as ExampleTPISize does
NoIdentifiers == {Marker, NullName, NoName}
Attributes == {"const", "volatile", "unaligned", ""}

\* What in a record leads to a list of overloads: nothing but a method.
LeadsToOverloads(s, record) ==
  IF record.kind = "LF_FIELDLIST"
    THEN \E f \in Range(record.fields) :
           f.kind \notin {"LF_BCLASS", "LF_ENUMERATE", "LF_METHOD"}
           /\ KindOf(s, f.index) = "LF_METHODLIST"
    ELSE \E t \in IndicesOf(record) : KindOf(s, t) = "LF_METHODLIST"

\* What a list of enumerators consists of: they, and the index of the rest of a long
\* list, the lower half of which is below LF_NUMERIC, the upper one zero.
IsEnumerated(field) ==
  \/ field.kind = "LF_ENUMERATE"
  \/ field.kind = "LF_INDEX" /\ field.index < 32768

\* Records name records in front of them, or built-in types, and every reference
\* leads to a record of the kind the reference is for.
IsContent(s) ==
  /\ DOMAIN s.content = 0 .. (s.typeIndexEnd - s.typeIndexBegin - 1)
  /\ \A k \in DOMAIN s.content :
       LET record == s.content[k]
       IN  /\ record.kind # "built-in" /\ IndicesOf(record) \subseteq 0 .. (s.typeIndexBegin + k - 1)
           /\ ~ LeadsToOverloads(s, record)
           /\ record.kind = "LF_FIELDLIST" =>
                /\ IsFieldList(record)
                /\ s.recordSize[s.start[k]] = SizeOfRecordKind + record.size
                /\ \A f \in Range(record.fields) :
                     /\ f.kind = "LF_METHOD" => KindOf(s, f.index) = "LF_METHODLIST"
                     /\ f.kind = "LF_ONEMETHOD" => KindOf(s, f.index) = "LF_MFUNCTION"
                     /\ f.kind = "LF_INDEX" => KindOf(s, f.index) = "LF_FIELDLIST"
           /\ record.kind \in {"LF_MODIFIER", "LF_POINTER"} => record.attr \in Attributes
           /\ record.kind \in Definitions \cup LargeClasses => record.name \notin NoIdentifiers
           /\ record.kind = "LF_ARRAY" => KindOf(s, record.idxtype) = "built-in"
           /\ record.kind = "LF_ARGLIST" => record.arg \in Seq(Nat)
           /\ record.kind = "LF_METHODLIST" =>
                /\ IsMethodList(record)
                /\ \A e \in Range(record.entries) : KindOf(s, e.index) = "LF_MFUNCTION"
           /\ record.kind \in Functions => KindOf(s, record.arglist) = "LF_ARGLIST"
           /\ record.kind = "LF_MFUNCTION" => KindOf(s, record.classtype) \in Definitions \ {"LF_ENUM"}
           /\ record.kind \in Definitions /\ ~ record.fwdref =>
                /\ KindOf(s, record.field) \in {"LF_FIELDLIST", "built-in"}
                /\ KindOf(s, record.field) = "LF_FIELDLIST" =>
                     \A f \in Range(RecordOf(s, record.field).fields) :
                       IF record.kind = "LF_ENUM" THEN IsEnumerated(f) ELSE f.kind # "LF_ENUMERATE"

-----------------------------------------------------------------------------
\* How Examples/ExampleTypes.cpp names a type: GetTypeName follows the records from a
\* type index to a name and counts the pointers on the way, GetFunctionPrototype and
\* GetMethodPrototype spell functions, with a marker where the name goes, and the
\* overload of GetTypeName that other examples use puts it all into one text.  A text
\* is a sequence of words.  Types name types in front of them, so the recursion ends.

NoRecord == -1                \* a nullptr for a record

\* The built-in types the switch over TypeIndexKind knows: the low byte of an index
\* is the type, the third digit the kind of pointer to it, 0 for none.
Near == {1, 4, 6}
All == 1 .. 6
BuiltIn(type, name, pointer, modes) ==
  [type |-> type, name |-> name, pointer |-> pointer, modes |-> modes]
BuiltInCharacters ==
  {BuiltIn(0, "<NO_TYPE>", "P<NO_TYPE>", {0}), BuiltIn(8, "HRESULT", "PHRESULT", {0, 4, 6}),
   BuiltIn(3, "VOID", "PVOID", {0} \cup Near), BuiltIn(48, "BOOL", "PBOOL", {0, 4, 6}),
   BuiltIn(49, "BOOL", "PBOOL", {0, 4, 6}), BuiltIn(50, "BOOL", "PBOOL", {0, 4, 6}),
   BuiltIn(51, "BOOL", "PBOOL", {4, 6}), BuiltIn(16, "CHAR", "PCHAR", {0} \cup Near),
   BuiltIn(112, "CHAR", "PCHAR", {0} \cup Near), BuiltIn(32, "UCHAR", "PUCHAR", {0} \cup Near),
   BuiltIn(113, "WCHAR", "PWCHAR", {0} \cup Near), BuiltIn(124, "CHAR8", "PCHAR8", {0} \cup All),
   BuiltIn(122, "CHAR16", "PCHAR16", {0} \cup Near), BuiltIn(123, "CHAR32", "PCHAR32", {0} \cup Near)}
BuiltInNumbers ==
  {BuiltIn(17, "SHORT", "PSHORT", {0} \cup Near), BuiltIn(33, "USHORT", "PUSHORT", {0} \cup Near),
   BuiltIn(18, "LONG", "PLONG", {0} \cup Near), BuiltIn(34, "ULONG", "PULONG", {0} \cup Near),
   BuiltIn(64, "FLOAT", "PFLOAT", {0} \cup Near), BuiltIn(65, "DOUBLE", "PDOUBLE", {0} \cup Near),
   BuiltIn(66, "REAL80", "PREAL80", {0} \cup Near), BuiltIn(19, "LONGLONG", "PLONGLONG", {0} \cup Near),
   BuiltIn(35, "ULONGLONG", "PULONGLONG", {0} \cup Near), BuiltIn(116, "INT", "PINT", {0} \cup Near),
   BuiltIn(117, "UINT", "PUINT", {0} \cup Near), BuiltIn(119, "UINT8", "PUINT8", {0} \cup All),
   BuiltIn(118, "INT8", "PINT8", {0} \cup All), BuiltIn(20, "OCTAL", "POCTAL", {0} \cup All),
   BuiltIn(36, "UOCTAL", "PUOCTAL", {0} \cup All)}
BuiltIns == BuiltInCharacters \cup BuiltInNumbers

Unhandled == "unhandled_special_type"  \* behind a failed assertion
BuiltInName(t) ==
  LET known == {b \in BuiltIns : b.type = t % 256 /\ t \div 256 \in b.modes}
      builtIn == CHOOSE b \in known : TRUE
  IN  CASE t = 3 -> "void"
        [] t = 1536 -> "UNKNOWN_0x0600"
        [] t \notin {3, 1536} /\ known # {} ->
             IF t \div 256 = 0 THEN builtIn.name ELSE builtIn.pointer
        [] OTHER -> Unhandled

-----------------------------------------------------------------------------
\* What GetTypeName(typeTable, typeIndex, ...) returns and leaves in its three
\* parameters: typeName, pointerLevel, *referencedType and *modifierRecord, the
\* last two as type indices.

Named(name) == [name |-> name, level |-> 0, referenced |-> NoRecord, modifier |-> NoRecord]
Unnamable(t) == [Named(NullName) EXCEPT !.referenced = t]

\* Variant: the pointer in front of a modifier is not counted.
ThroughModifier(target, modifier) == [target EXCEPT !.modifier = modifier]

\* LF_POINTER -> LF_MODIFIER -> target: the pointer is counted, but no longer
\* referenced, because the call for the target starts by forgetting it.
ThroughModifiedPointer(target, modifier) ==
  [target EXCEPT !.level = @ + 1, !.modifier = modifier]

\* resolve[u] is what it returns for a type u in front.
ResolvedWith(s, resolve, t) ==
  IF ~ IsRecord(s, t) THEN Named(BuiltInName(t))
  ELSE LET record == RecordOf(s, t) IN
    CASE record.kind = "LF_MODIFIER" -> [resolve[record.type] EXCEPT !.modifier = t]
      [] record.kind = "LF_POINTER" ->
           CASE KindOf(s, record.utype) = "LF_POINTER" ->
                  [resolve[record.utype] EXCEPT !.level = @ + 1]
             [] KindOf(s, record.utype) = "LF_MODIFIER" ->
                  ThroughModifiedPointer(resolve[RecordOf(s, record.utype).type], record.utype)
             [] OTHER ->
                  [resolve[record.utype] EXCEPT !.level = @ + 1, !.referenced = t]
      [] record.kind \in Functions -> Unnamable(t)
      [] record.kind = "LF_BITFIELD" ->
           IF IsRecord(s, record.type) THEN Unnamable(t)
           ELSE [resolve[record.type] EXCEPT !.referenced = t]
      [] record.kind = "LF_ARRAY" -> [resolve[record.elemtype] EXCEPT !.referenced = t]
      [] record.kind \in {"LF_CLASS", "LF_STRUCTURE", "LF_CLASS2", "LF_STRUCTURE2", "LF_UNION"} ->
           Named(LeafNameUnderTwoBytes(record))
      [] record.kind = "LF_ENUM" -> Named(record.name)
      [] OTHER -> Named("unknown_type")  \* behind a failed assertion

Resolve(s) ==
  LET resolve[t \in 0 .. (s.typeIndexEnd - 1)] == ResolvedWith(s, resolve, t)
  IN  resolve

Stars(n) == [k \in 1 .. n |-> "*"]

\* GetModifierName of the record a call left in *modifierRecord, if any.
ModifierName(s, modifier) ==
  IF modifier = NoRecord THEN <<>> ELSE <<RecordOf(s, modifier).attr>>
PointerName(pointer) == IF pointer.attr = "" THEN <<>> ELSE <<pointer.attr>>

-----------------------------------------------------------------------------

\* Variant: the marker of a nested prototype stays.
KeepMarker(prototype, level) == prototype \o Stars(level)

\* "underlyingTypePrototype.erase(markerPos, 2)", with stars for the levels of a
\* pointer put in its place.
EraseMarker(prototype, level) ==
  LET markerPos == SelectInSeq(prototype, LAMBDA word : word = Marker)
  IN  SubSeq(prototype, 1, markerPos - 1) \o Stars(level)
        \o SubSeq(prototype, markerPos + 1, Len(prototype))

ReplaceMarker(text, with) ==
  LET markerPos == SelectInSeq(text, LAMBDA word : word = Marker)
  IN  IF markerPos = 0 THEN text
      ELSE SubSeq(text, 1, markerPos - 1) \o with \o SubSeq(text, markerPos + 1, Len(text))

\* GetTypeName(typeTable, typeIndex) and the two prototypes call each other: names is
\* what the other overload returns, Resolve(s), and texts[t].name and
\* texts[t].prototype are what these return for a type in front.
ReturnedFunction(s, names, record) == RecordOf(s, names[record.rvtype].referenced).utype

ReturnType(s, names, texts, record) ==
  LET returned == names[record.rvtype]
  IN  IF returned.name # NullName
        THEN ModifierName(s, returned.modifier) \o <<returned.name>> \o Stars(returned.level)
        ELSE EraseMarker(texts[ReturnedFunction(s, names, record)].prototype, 0)

\* underlyingType behind the arguments args: what the last pointer to a record led
\* to, be it one of theirs, or the function that is returned.
UnderlyingType(s, names, record, args) ==
  LET referenced == [j \in DOMAIN args |-> names[args[j]].referenced]
      leading == {j \in DOMAIN args : referenced[j] # NoRecord
                                      /\ IsRecord(s, RecordOf(s, referenced[j]).utype)}
  IN  IF leading # {} THEN RecordOf(s, referenced[Max(leading)]).utype
      ELSE IF names[record.rvtype].name = NullName THEN ReturnedFunction(s, names, record)
      ELSE NoRecord

\* An argument of which GetTypeName says a, behind the others.
Argument(s, texts, t, a, underlying) ==
  CASE a.referenced = NoRecord -> <<a.name>>
    [] a.referenced # NoRecord /\ KindOf(s, underlying) \notin Functions ->
         ModifierName(s, a.modifier) \o <<a.name, "*">> \o PointerName(RecordOf(s, a.referenced))
    [] a.referenced # NoRecord /\ KindOf(s, underlying) = "LF_PROCEDURE" ->
         EraseMarker(texts[underlying].prototype, a.level - 1)
    [] a.referenced # NoRecord /\ KindOf(s, underlying) = "LF_MFUNCTION" -> texts[t].name

Prototype(s, names, texts, record) ==
  LET arg == RecordOf(s, record.arglist).arg
      arguments == [j \in DOMAIN arg |->
                      Argument(s, texts, arg[j], names[arg[j]],
                               UnderlyingType(s, names, record, SubSeq(arg, 1, j)))
                        \o (IF j < Len(arg) THEN <<",">> ELSE <<>>)]
  IN  ReturnType(s, names, texts, record)
        \o (IF record.kind = "LF_PROCEDURE" THEN <<"(*", Marker, ")", "(">> ELSE <<Marker, "(">>)
        \o FlattenSeq(arguments) \o <<")">>

\* The text of a type without a name of its own, of which GetTypeName says a.
TextOf(s, texts, a, prototype) ==
  LET type == RecordOf(s, a.referenced)
  IN  CASE type.kind = "LF_POINTER" -> texts[type.utype].name \o Stars(a.level)
        [] type.kind = "LF_ARRAY" ->
             texts[type.elemtype].name \o <<"[">> \o texts[type.idxtype].name \o <<"]">>
        [] type.kind = "LF_PROCEDURE" -> prototype
        [] type.kind = "LF_MFUNCTION" ->
             ReplaceMarker(prototype, texts[type.classtype].name \o <<"::*">>)
        [] OTHER -> <<"not found">>    \* behind a failed assertion

\* texts[u] is the text of a type u in front.
TextsWith(s, names, texts, t) ==
  LET prototype == IF KindOf(s, t) \in Functions
                     THEN Prototype(s, names, texts, RecordOf(s, t)) ELSE <<>>
  IN  [name |-> IF names[t].name # NullName THEN <<names[t].name>>
                ELSE TextOf(s, texts, names[t], prototype),
       prototype |-> prototype]

Texts(s, names) ==
  LET texts[t \in 0 .. (s.typeIndexEnd - 1)] == TextsWith(s, names, texts, t)
  IN  texts

BadTypeIndex == <<"<BAD_TYPE_INDEX>">>

\* Other examples get type indices from elsewhere.
GetTypeName(s, t) == IF t < s.typeIndexEnd THEN Texts(s, Resolve(s))[t].name ELSE BadTypeIndex
GetPrototype(s, t) == Texts(s, Resolve(s))[t].prototype
=============================================================================
