--------------------------- MODULE ExampleTPISize ---------------------------
(***************************************************************************)
(* ExampleTPISize of Examples/ExampleTypes.cpp: gives every type record the *)
(* name of the definition it belongs to.  A definition hands its name to   *)
(* the records it refers to, those hand it on, and a record that is given  *)
(* a second name is marked.                                                *)
(***************************************************************************)
EXTENDS ExampleTypes

Followed == {"LF_ARRAY", "LF_POINTER", "LF_MODIFIER", "LF_PROCEDURE", "LF_ARGLIST",
             "LF_MFUNCTION", "LF_FIELDLIST"}

\* A reference is followed if it changed a name; one to a list (a method to its
\* overloads, a field list to the rest of it) is followed through in any case.
TagOf(t) == [through |-> FALSE, to |-> t]
ThroughOf(t) == [through |-> TRUE, to |-> t]

FieldReferences(field) ==
  IF field.kind \in {"LF_BCLASS", "LF_ENUMERATE"} THEN <<>>
  ELSE IF field.kind \in {"LF_METHOD", "LF_INDEX"} THEN <<ThroughOf(field.index)>>
  ELSE <<TagOf(field.index)>>

\* What a record refers to, in the order the code goes through it.
References(r) ==
  CASE r.kind = "LF_ARRAY" -> <<TagOf(r.elemtype), TagOf(r.idxtype)>>
    [] r.kind = "LF_POINTER" -> <<TagOf(r.utype)>>
    [] r.kind = "LF_MODIFIER" -> <<TagOf(r.type)>>
    [] r.kind = "LF_PROCEDURE" -> <<TagOf(r.rvtype), TagOf(r.arglist)>>
    [] r.kind = "LF_MFUNCTION" -> <<TagOf(r.rvtype), TagOf(r.arglist), TagOf(r.thistype)>>
    [] r.kind = "LF_ARGLIST" -> [k \in DOMAIN r.arg |-> TagOf(r.arg[k])]
    [] r.kind = "LF_METHODLIST" ->
         [k \in DOMAIN r.entries |-> TagOf(ReachedEntries(r)[k].index)]
    [] r.kind = "LF_FIELDLIST" ->
         FlattenSeq([k \in DOMAIN ReachedFields(r) |-> FieldReferences(ReachedFields(r)[k])])
    [] r.kind \in Definitions -> <<TagOf(r.field)>>
    [] OTHER -> <<>>

VARIABLES example,            \* which of the two examples runs
          names,
          name,               \* what setName sets
          pending,            \* references still to go through, innermost first
          followed            \* how often a changed name led on from a record

sizeVars == <<names, name, pending, followed>>
typeVars == <<list, i, j, offsetInMethodList, line>>
vars == <<tableVars, displayVars, example, sizeVars>>

MultipleReferences == "!!!"

Init ==
  /\ TableInit
  /\ DisplayInit
  /\ example \in {"ExampleTypes", "ExampleTPISize"}
  /\ names = [k \in 0 .. (GetTypeRecordCount - 1) |-> NoName]
  /\ name = NoName
  /\ pending = <<>>
  /\ followed = [k \in 0 .. (GetTypeRecordCount - 1) |-> 0]

Construct == ConstructorStep /\ UNCHANGED <<displayVars, example, sizeVars>>

Display ==
  /\ example = "ExampleTypes"
  /\ DisplayStep
  /\ UNCHANGED <<example, sizeVars>>

\* The loop body returns to here when nothing of the record before is left.
AtNextRecord ==
  /\ example = "ExampleTPISize"
  /\ pc = "ready" /\ pending = <<>> /\ record < GetTypeRecordCount

\* "if (setName(field)) TagRecursively(field)"
TagDefinition ==
  /\ AtNextRecord
  /\ Record.kind \in Definitions
  /\ names' = [names EXCEPT ![record] = TypeTitle]
  /\ name' = TypeTitle
  /\ pending' = References(Record)
  /\ record' = record + 1
  /\ UNCHANGED <<tableVars, typeVars, example, followed>>

\* The name of a union is read from the member function's own record.
NameOfContaining(class) ==
  IF class.kind \in {"LF_CLASS", "LF_STRUCTURE"} THEN LeafName(class) ELSE Garbage

TagMemberFunction ==
  /\ AtNextRecord
  /\ Record.kind = "LF_MFUNCTION"
  /\ IF names[record] # NoName
       THEN name' = names[record] /\ UNCHANGED tableVars
       ELSE /\ GetTypeRecord(Record.classtype)
            /\ name' = NameOfContaining(At(answer'))
            /\ UNCHANGED <<stream, pc, offset, typeIndex, m_records>>
  /\ pending' = <<[through |-> FALSE, to |-> GetFirstTypeIndex + record]>>
  /\ record' = record + 1
  /\ UNCHANGED <<names, followed, typeVars, example>>

PassRecord ==
  /\ AtNextRecord
  /\ Record.kind \notin Definitions \cup {"LF_MFUNCTION"}
  /\ record' = record + 1
  /\ UNCHANGED <<tableVars, typeVars, example, names, name, pending, followed>>

\* setNameGlobal, for a type that is not built in.
SetName(k) ==
  names' = [names EXCEPT ![k] = IF @ = NoName THEN name ELSE MultipleReferences]

\* Variant: a name is handed on by the first to get it, whoever comes later.
ChangedFirst(k) == names[k] = NoName
\* Variant: a name that is set is handed on, changed or not.
ChangedAlways(k) == TRUE

Changed(k) == names'[k] # names[k]

\* A reference to a built-in type changes nothing.
PassBuiltIn ==
  /\ pending # <<>>
  /\ Head(pending).to < GetFirstTypeIndex
  /\ pending' = Tail(pending)
  /\ UNCHANGED <<tableVars, displayVars, example, names, name, followed>>

TagThrough ==
  /\ pending # <<>> /\ Head(pending).through
  /\ SetName(Head(pending).to - GetFirstTypeIndex)
  /\ GetTypeRecord(Head(pending).to)
  /\ pending' = References(At(answer')) \o Tail(pending)
  /\ UNCHANGED <<stream, pc, offset, typeIndex, m_records, displayVars, example, name, followed>>

\* TAG_AND_CHECK, and the switch of TagRecursively.
Tag ==
  /\ pending # <<>> /\ ~ Head(pending).through
  /\ Head(pending).to >= GetFirstTypeIndex
  /\ LET k == Head(pending).to - GetFirstTypeIndex IN
     /\ SetName(k)
     /\ IF Changed(k)
          THEN /\ GetTypeRecord(Head(pending).to)
               /\ followed' = [followed EXCEPT ![k] = @ + 1]
               /\ pending' = (IF At(answer').kind \in Followed THEN References(At(answer'))
                              ELSE <<>>) \o Tail(pending)
               /\ UNCHANGED <<stream, pc, offset, typeIndex, m_records>>
          ELSE pending' = Tail(pending) /\ UNCHANGED <<tableVars, followed>>
  /\ UNCHANGED <<displayVars, example, name>>

\* The loop of ExampleTPISize that prints, and the return of either example.
PrintRecords ==
  /\ pc = "ready" /\ pending = <<>> /\ list = NoList /\ record = GetTypeRecordCount
  /\ pc' = "printed"
  /\ UNCHANGED <<stream, offset, typeIndex, m_records, asked, answer, displayVars, example, sizeVars>>

Next == \/ Construct
        \/ Display
        \/ TagDefinition \/ TagMemberFunction \/ PassRecord
        \/ PassBuiltIn \/ TagThrough \/ Tag
        \/ PrintRecords

Spec == stream \in TPIStreams /\ Init /\ [][Next]_vars

-----------------------------------------------------------------------------

\* The records record k of a stream refers to.
Targets(s, k) == {r.to - s.typeIndexBegin : r \in Range(References(s.content[k]))} \cap Nat

\* The records something handed on by a record gets to: those it refers to, and on
\* from there except behind a definition, which has a name of its own.
Belongings(s) ==
  LET from[k \in DOMAIN s.content] ==
        {k} \cup (IF s.content[k].kind \in Definitions THEN {}
                  ELSE UNION {from[t] : t \in Targets(s, k)})
  IN  [k \in DOMAIN s.content |-> UNION {from[t] : t \in Targets(s, k)}]

\* What a definition, or a function on behalf of its class, hands on.
Title(s, k) ==
  IF s.content[k].kind = "LF_MFUNCTION" THEN RecordOf(s, s.content[k].classtype).name
  ELSE s.content[k].name

\* The names that reference record k.
Naming(s, k) ==
  {Title(s, d) : d \in {d \in DOMAIN s.content :
     s.content[d].kind \in Definitions \cup {"LF_MFUNCTION"} /\ k \in {d} \cup Belongings(s)[d]}}

Tagged == pc = "printed" /\ example = "ExampleTPISize"

\* "The Name is set to ??? if no name was found" and "to !!! if multiple names
\* reference the entry": no entry is put down to one type when another refers to it
\* too, however many references lie between and in whatever order the records were
\* gone through, and what belongs to a definition is not lost because the search
\* stopped in front of it.
NamesOfReferences ==
  Tagged =>
    \A k \in DOMAIN names :
      /\ names[k] = NoName <=> Naming(stream, k) = {}
      /\ names[k] \notin {NoName, MultipleReferences} => Naming(stream, k) = {names[k]}

\* "returns whether the name changed": a name changes twice at most, so that records
\* many others share are not gone through once for every path that leads there.  This
\* is about the references that are followed because a name changed; overloads and
\* the rest of a long list are gone through each time the list in front of them is.
FollowedTwiceAtMost == \A k \in DOMAIN followed : followed[k] <= 2
=============================================================================
