--------------------------- MODULE MCExampleTypes ---------------------------
(* TPI streams of three families: what types can be made of each other, what   *)
(* lists of fields and of overloads can look like, and what two classes and a   *)
(* member function can refer to and share; and IPI streams of a few records.    *)
EXTENDS TypeExamples

CONSTANTS FirstTypeIndex,
          BaseLeaves,         \* the numbers in a virtual base
          MaxIPIRecords

Index(k) == FirstTypeIndex + k
INT == 116                    \* T_INT4
CHARS == 1648                 \* T_64PCHAR

\* items[k] starts where the k - 1 in front of it end.
Starts(items, length) ==
  [k \in 1 .. (Len(items) + 1) |->
     FoldLeft(LAMBDA sum, item : sum + RoundUp4(length[item]), 0, SubSeq(items, 1, k - 1))]

Modifier(t) == [kind |-> "LF_MODIFIER", type |-> t, attr |-> "const"]
Pointer(t, attr) == [kind |-> "LF_POINTER", utype |-> t, attr |-> attr]
Array(t) == [kind |-> "LF_ARRAY", elemtype |-> t, idxtype |-> INT]
BitField(t) == [kind |-> "LF_BITFIELD", type |-> t]
Arguments(arg) == [kind |-> "LF_ARGLIST", arg |-> arg]
Procedure(rvtype, arglist) == [kind |-> "LF_PROCEDURE", rvtype |-> rvtype, arglist |-> arglist]
Method(rvtype, arglist) ==
  [kind |-> "LF_MFUNCTION", rvtype |-> rvtype, arglist |-> arglist, classtype |-> Index(0), thistype |-> CHARS]
Type(kind, n, field) ==
  [kind |-> kind, name |-> n, leaf |-> "below LF_NUMERIC", fwdref |-> FALSE, field |-> field]
Forward(n) == [Type("LF_STRUCTURE", n, 0) EXCEPT !.fwdref = TRUE]
FieldList(fields) ==
  LET starts == Starts(fields, [f \in Range(fields) |-> FieldLength(f)])
  IN  [kind |-> "LF_FIELDLIST", fields |-> fields, at |-> Front(starts), size |-> Last(starts)]
Overloads(entries) ==
  [kind |-> "LF_METHODLIST", entries |-> entries,
   at |-> Front(Starts(entries, [e \in Range(entries) |-> IF e.mprop \in Intro THEN 12 ELSE 8]))]

MemberOf(t, leaf, length) == [kind |-> "LF_MEMBER", index |-> t, leaf |-> leaf, length |-> length]
Member(t) == MemberOf(t, "below LF_NUMERIC", 1)
Constant(leaf, length) == [kind |-> "LF_ENUMERATE", leaf |-> leaf, length |-> length]
Base(leaf) == [kind |-> "LF_BCLASS", leaf |-> leaf]
Virtual(kind, leaf) == [kind |-> kind, index |-> CHARS, leaf |-> leaf, vbtableLeaf |-> "below LF_NUMERIC"]
OneMethod(t, mprop, length) == [kind |-> "LF_ONEMETHOD", index |-> t, mprop |-> mprop, length |-> length]
To(kind, t) == [kind |-> kind, index |-> t, length |-> 2]
Entry(t, mprop) == [index |-> t, mprop |-> mprop]

\* Two levels of pointers, modifiers and arrays, then functions with arguments of
\* them, pointers to the functions, functions with arguments and results of those.
Inner == {Pointer(INT, "const"), Pointer(Index(0), ""), Pointer(Index(1), "volatile"), Array(Index(0))}
Outer == {Pointer(Index(2), ""), Modifier(Index(2)), Array(Index(2))}
Shapes ==
  { << Type("LF_CLASS", "A", 0), Modifier(modified), inner, outer,
       Arguments(args1), function, Pointer(Index(5), ""), Pointer(Index(6), ""),
       Arguments(args2), Method(IF function.rvtype = INT THEN Index(7) ELSE INT, Index(8)),
       Pointer(Index(9), ""), BitField(IF modified = INT THEN Index(1) ELSE INT),
       FieldList(<<Member(Index(1)), Member(Index(2)), Member(Index(3)), Member(Index(6)),
                   Member(Index(10)), Member(Index(11)), To("LF_STMEMBER", Index(2)),
                   OneMethod(Index(9), "Intro", 3)>>),
       Type("LF_UNION", "U", Index(12)), Type("LF_STRUCTURE2", "S", Index(12)),
       Pointer(Index(14), "") >> :
    modified \in {INT, Index(0)}, inner \in Inner, outer \in Outer,
    args1 \in {<<>>, <<INT, Index(2)>>, <<Index(3)>>},
    function \in {Procedure(INT, Index(4)), Procedure(Index(2), Index(4)), Method(INT, Index(4))},
    args2 \in {<<Index(6), Index(2)>>, <<Index(7), INT>>} }

\* An argument is no array.
ShapesOfArguments ==
  {c \in Shapes : \A t \in Range(c[5].arg) \cup Range(c[9].arg) \cup {c[6].rvtype} :
     /\ t # Index(2) \/ c[3].kind # "LF_ARRAY"
     /\ t # Index(3) \/ (c[4].kind # "LF_ARRAY" /\ (c[4].kind = "LF_MODIFIER" => c[3].kind # "LF_ARRAY"))}

\* Lists of up to two fields, of every kind, with numbers and names of many sizes.
AnyField ==
  {MemberOf(INT, leaf, length) : leaf \in NumericLeaves, length \in {1, 4}}
  \cup {OneMethod(Index(2), mprop, length) : mprop \in {"Vanilla", "PureIntro"}, length \in {2, 3}}
  \cup {Base(leaf) : leaf \in {"below LF_NUMERIC", "LF_CHAR", "LF_ULONG"}}
  \cup {Virtual(kind, leaf) : kind \in VirtualBases, leaf \in BaseLeaves}
  \cup {To("LF_METHOD", Index(3)), To("LF_NESTTYPE", Index(0)), To("LF_STMEMBER", INT),
        To("LF_VFUNCTAB", CHARS), To("LF_INDEX", Index(4))}
LastField == {Member(INT), OneMethod(Index(2), "Vanilla", 2), To("LF_METHOD", Index(3)),
              To("LF_INDEX", Index(4)), Virtual("LF_VBCLASS", "below LF_NUMERIC")}
Walks ==
  { << Forward("A"), Arguments(<<>>), Method(INT, Index(1)),
       Overloads([k \in DOMAIN mprops |-> Entry(Index(2), mprops[k])]),
       FieldList(<<Member(INT)>>), FieldList(fields), Type("LF_STRUCTURE", "A", Index(5)) >> :
    fields \in {<<f, g>> : f \in AnyField, g \in LastField}, mprops \in {<<"Intro", "Virtual">>} }
  \cup
  { << Forward("A"), Arguments(<<>>), Method(INT, Index(1)),
       Overloads([k \in DOMAIN mprops |-> Entry(Index(2), mprops[k])]),
       FieldList(<<To("LF_METHOD", Index(3)), Member(INT)>>), Type("LF_CLASS", "A", Index(4)),
       FieldList(constants), [Type("LF_ENUM", "E", Index(6)) EXCEPT !.leaf = "LF_ULONG"] >> :
    mprops \in TupleOf({"Vanilla", "Intro"}, 3),
    constants \in {<<Constant(leaf, length), last>> : leaf \in NumericLeaves, length \in {1, 4},
                     last \in {Constant("LF_CHAR", 1), Constant("LF_ULONG", 1), To("LF_INDEX", Index(4))}} }

\* Some of the fields, in this order.
SomeOf(all, most) ==
  {SelectSeq(all, LAMBDA f : f \in some) : some \in {c \in SUBSET Range(all) : Cardinality(c) <= most}}

\* Record 0 declares the class A, which owns the member function, record 4.
Shared ==
  { << Forward("A"), Pointer(to1, ""), Pointer(to2, ""), Arguments(args), Method(INT, Index(3)),
       Overloads(<<Entry(Index(4), "Intro")>>), FieldList(fields1), FieldList(fields2),
       Type("LF_CLASS", "A", Index(7)), Type("LF_CLASS", n, last) >> :
    to1 \in {INT, Index(0)}, to2 \in {INT, Index(1)}, args \in {<<>>, <<Index(1)>>, <<Index(2)>>},
    fields1 \in SomeOf(<<Member(Index(1)), Member(Index(2)), To("LF_METHOD", Index(5))>>, 2),
    fields2 \in SomeOf(<<Member(Index(2)), OneMethod(Index(4), "Static", 1),
                         To("LF_METHOD", Index(5)), To("LF_INDEX", Index(6))>>, 2),
    n \in {"A", "B"}, last \in {Index(6), Index(7)} }

\* The size in the header of a record; all but the lists of fields are given one.
HeaderSizeOf(r) == SizeOfUInt16 + (IF r.kind = "LF_FIELDLIST" THEN r.size ELSE 12)

StreamFor(contents) ==
  LET sizes == [k \in DOMAIN contents |-> HeaderSizeOf(contents[k])]
      start == [k \in 0 .. Len(contents) |->
                  FoldLeft(LAMBDA sum, size : sum + SizeOfRecordHeader + size - SizeOfUInt16,
                           SizeOfStreamHeader, SubSeq(sizes, 1, k))]
  IN  [typeIndexBegin |-> FirstTypeIndex, typeIndexEnd |-> FirstTypeIndex + Len(contents),
       start |-> start, size |-> start[Len(contents)],
       recordSize |-> [o \in Range(start) |->
                         IF o = start[Len(contents)] THEN SizeOfUInt16
                         ELSE sizes[1 + CHOOSE k \in 0 .. (Len(contents) - 1) : start[k] = o]],
       content |-> [k \in 0 .. (Len(contents) - 1) |-> contents[k + 1]]]

\* What a record of an IPI stream of n records can be: its kind, and the type
\* indices it names, of strings in this stream and of types in the other.
Targeted(n) == FirstTypeIndex .. (FirstTypeIndex + n - 1)
IPIContent(kind, size, typeIndices, types) ==
  [kind |-> kind, size |-> size, typeIndices |-> typeIndices, types |-> types]
IPIContents(n) ==
  {IPIContent("LF_STRING_ID", size, <<>>, <<>>) : size \in {6, 10}}
  \cup {IPIContent("other", 2, <<>>, <<>>)}
  \cup {IPIContent("LF_UDT_SRC_LINE", 14, <<t>>, <<Index(0)>>) : t \in Targeted(n)}
  \cup {IPIContent("LF_BUILDINFO", 6, <<>>, <<>>)}
  \cup {IPIContent("LF_SUBSTR_LIST", 14, <<t, u>>, <<>>) :
          t \in Targeted(n), u \in Targeted(n) \cup {0}}
  \cup {IPIContent("LF_FUNC_ID", 14, <<>>, <<t>>) : t \in {Index(2), Index(8)}}
  \cup {IPIContent("LF_MFUNC_ID", 14, <<>>, <<Index(0), Index(5)>>)}
  \cup {IPIContent("LF_UDT_MOD_SRC_LINE", 18, <<>>, <<t>>) : t \in {INT, Index(3), Index(6)}}

\* The linker writes no index of anything but a string into a list.
NamesStrings(contents, n) ==
  \A k \in 0 .. (n - 1) : \A m \in DOMAIN contents[k].typeIndices :
    LET t == contents[k].typeIndices[m]
    IN  t = 0 \/ contents[t - FirstTypeIndex].kind = "LF_STRING_ID"

IPIStreamFor(contents, n) ==
  LET start[k \in 0 .. n] ==
        IF k = 0 THEN SizeOfStreamHeader ELSE start[k - 1] + 2 + contents[k - 1].size
      \* An offset between two records reads as a smallest record.
      Found(o) == {contents[l] : l \in {k \in 0 .. (n - 1) : start[k] = o}}
      Read(o) == IF Found(o) = {} THEN IPIContent("other", 2, <<>>, <<>>)
                 ELSE CHOOSE c \in Found(o) : TRUE
  IN  [typeIndexBegin |-> FirstTypeIndex, typeIndexEnd |-> FirstTypeIndex + n,
       start |-> [k \in 0 .. n |-> start[k]], size |-> start[n],
       recordSize |-> [o \in 0 .. start[n] |-> Read(o).size],
       kind |-> [o \in 0 .. start[n] |-> Read(o).kind],
       typeIndices |-> [o \in 0 .. start[n] |-> Read(o).typeIndices],
       types |-> [o \in 0 .. start[n] |-> Read(o).types]]

NoRecords == IPIStreamFor(<<>>, 0)
MCIPIStreams ==
  UNION { { IPIStreamFor(contents, n) :
              contents \in { c \in [0 .. (n - 1) -> IPIContents(n)] : NamesStrings(c, n) } } :
          n \in 0 .. MaxIPIRecords }

\* A class, functions, a member function, and functions that take or return
\* pointers to them: what the IPI streams name.
TypesNamed ==
  << Type("LF_CLASS", "A", 0),
     Arguments(<<INT>>), Procedure(INT, Index(1)), Pointer(Index(2), ""),
     Arguments(<<Index(3), INT>>), [Method(Index(3), Index(4)) EXCEPT !.thistype = INT], Pointer(Index(5), ""),
     Arguments(<<Index(6)>>), Procedure(Index(6), Index(7)) >>

Streams(families) == {StreamFor(contents) : contents \in families}
MCTPIStreams == Streams(ShapesOfArguments \cup Walks \cup Shared \cup {TypesNamed})
WalkedTPIStreams == Streams(Walks)
NoIPIStreams == {NoRecords}

\* The types vary, or the records that name them.
MCFiles ==
  {[tpi |-> s, ipi |-> NoRecords] : s \in MCTPIStreams}
  \cup {[tpi |-> StreamFor(TypesNamed), ipi |-> s] : s \in MCIPIStreams}
WalkedFiles == {[tpi |-> s, ipi |-> NoRecords] : s \in WalkedTPIStreams}
=============================================================================
