----------------------------- MODULE Lifetimes -----------------------------
(***************************************************************************)
(* Who owns the memory behind a RawFile (and, with the same fields under   *)
(* other names, a ModuleInfoStream or an IPIStream): a coalesced stream    *)
(* that may own a copy of its data, and an array of pointers into it.      *)
(* Objects are moved, move-assigned and destroyed while DirectMSFStreams   *)
(* created from them still point into the data.                            *)
(***************************************************************************)
EXTENDS Naturals, TLC

CONSTANTS Slots,              \* variables that can hold an object
          Borrowers,          \* DirectMSFStreams, one of them inside a TPIStream
          Heap                \* addresses the allocator can return

VARIABLES object,             \* object[s]: what the variable s holds
          live,               \* addresses allocated and not deleted
          target,             \* target[a]: what the pointers in the array at a point into
          m_blockIndices,     \* m_blockIndices[b]: the data b points into
          origin              \* origin[b]: the variable that holds the file b is from

objectVars == <<object, live, target, m_blockIndices, origin>>

nullptr == "null"
File == "file"                \* the memory-mapped file
Gone == "gone"                \* no variable: the object has been destroyed

\* No action tells variables, borrowers or addresses apart.
Symmetry == Permutations(Slots) \cup Permutations(Heap) \cup Permutations(Borrowers)

ASSUME AddressesDiffer == nullptr \notin Heap /\ File \notin Heap /\ Gone \notin Slots

EmptyStream == [m_ownedData |-> nullptr, m_data |-> nullptr]
Default == [alive |-> TRUE, m_stream |-> EmptyStream, m_array |-> nullptr, m_count |-> 0]
NoObject == [Default EXCEPT !.alive = FALSE]

ObjectsInit ==
  /\ object = [s \in Slots |-> NoObject]
  /\ live = {}
  /\ target = [a \in Heap |-> nullptr]
  /\ m_blockIndices = [b \in Borrowers |-> nullptr]
  /\ origin = [b \in Borrowers |-> Gone]

Alive(s) == object[s].alive

\* The default constructor.
DefaultConstruct(s) ==
  /\ ~ Alive(s)
  /\ object' = [object EXCEPT ![s] = Default]
  /\ UNCHANGED <<live, target, m_blockIndices, origin>>

\* The stream is constructed first, the array, with its pointers into the
\* stream, at an address a of its own.
ConstructOn(s, stream, a, count) ==
  /\ ~ Alive(s)
  /\ object' = [object EXCEPT ![s] = [alive |-> TRUE, m_stream |-> stream,
                                      m_array |-> a, m_count |-> count]]
  /\ target' = [target EXCEPT ![a] = stream.m_data]
  /\ UNCHANGED <<m_blockIndices, origin>>

\* The blocks of the stream are contiguous: its data is part of the file.
ConstructInFile(s, count) ==
  \E a \in Heap \ live :
    /\ live' = live \cup {a}
    /\ ConstructOn(s, [m_ownedData |-> nullptr, m_data |-> File], a, count)

\* The blocks are scattered: the stream owns a copy.
ConstructOwned(s, count) ==
  \E d \in Heap \ live : \E a \in Heap \ (live \cup {d}) :
    /\ live' = live \cup {a, d}
    /\ ConstructOn(s, [m_ownedData |-> d, m_data |-> d], a, count)

\* What deleting the array and the stream of an object frees.
Owned(o) == {o.m_array, o.m_stream.m_ownedData} \ {nullptr}

\* delete[]: what was there cannot be relied on any more.
Delete(addresses) ==
  /\ live' = live \ addresses
  /\ target' = [a \in Heap |-> IF a \in addresses THEN nullptr ELSE target[a]]

\* The streams made from the object in from are now from the one in to.
Follow(from, to) ==
  [b \in Borrowers |-> IF origin[b] = to THEN Gone
                       ELSE IF origin[b] = from THEN to ELSE origin[b]]

\* Variant: the count is left in the object moved from.
MoveConstructKeepingCount(to, from) ==
  /\ ~ Alive(to) /\ Alive(from)
  /\ object' = [object EXCEPT ![to] = object[from],
                              ![from] = [Default EXCEPT !.m_count = object[from].m_count]]
  /\ origin' = Follow(from, to)
  /\ UNCHANGED <<live, target, m_blockIndices>>

\* Variant: the data is copied to a new address and the old copy deleted.
MoveConstructCopying(to, from) ==
  /\ ~ Alive(to) /\ Alive(from)
  /\ object[from].m_stream.m_ownedData # nullptr
  /\ \E d \in Heap \ live :
       /\ live' = (live \cup {d}) \ {object[from].m_stream.m_ownedData}
       /\ target' = [target EXCEPT ![object[from].m_array] = d]
       /\ object' = [object EXCEPT
            ![to] = [object[from] EXCEPT !.m_stream = [m_ownedData |-> d, m_data |-> d]],
            ![from] = Default]
  /\ origin' = Follow(from, to)
  /\ UNCHANGED m_blockIndices

\* The move constructor: every field is moved and reset in the other object.
MoveConstruct(to, from) ==
  /\ ~ Alive(to) /\ Alive(from)
  /\ object' = [object EXCEPT ![to] = object[from], ![from] = Default]
  /\ origin' = Follow(from, to)
  /\ UNCHANGED <<live, target, m_blockIndices>>

\* Variant: the array is deleted in the wrong object.
MoveAssignDeletingOther(to, from) ==
  /\ Alive(to) /\ Alive(from)
  /\ to # from
  /\ Delete({object[from].m_array, object[to].m_stream.m_ownedData})
  /\ object' = [object EXCEPT ![to] = object[from], ![from] = Default]
  /\ origin' = Follow(from, to)
  /\ UNCHANGED m_blockIndices

\* The move assignment, "if (this != &other)": the array is deleted, then the
\* stream's own move assignment deletes the data it owned.
MoveAssign(to, from) ==
  /\ Alive(to) /\ Alive(from)
  /\ to # from
  /\ Delete(Owned(object[to]))
  /\ object' = [object EXCEPT ![to] = object[from], ![from] = Default]
  /\ origin' = Follow(from, to)
  /\ UNCHANGED m_blockIndices

\* The destructor deletes the array, that of the stream its data.
Destroy(s) ==
  /\ Alive(s)
  /\ Delete(Owned(object[s]))
  /\ object' = [object EXCEPT ![s] = NoObject]
  /\ origin' = [b \in Borrowers |-> IF origin[b] = s THEN Gone ELSE origin[b]]
  /\ UNCHANGED m_blockIndices

\* CreateMSFStream<DirectMSFStream>: the index is asserted to be one of a stream
\* of the file; the pointer comes from the array.
BorrowMSFStream(b, s) ==
  /\ Alive(s)
  /\ object[s].m_count > 0
  /\ m_blockIndices' = [m_blockIndices EXCEPT ![b] = target[object[s].m_array]]
  /\ origin' = [origin EXCEPT ![b] = s]
  /\ UNCHANGED <<object, live, target>>

ObjectsNext ==
  \/ \E s \in Slots :
       \/ DefaultConstruct(s)
       \/ \E count \in {0, 1} : ConstructInFile(s, count) \/ ConstructOwned(s, count)
       \/ \E from \in Slots : MoveConstruct(s, from) \/ MoveAssign(s, from)
       \/ Destroy(s)
  \/ \E b \in Borrowers, s \in Slots : BorrowMSFStream(b, s)

ObjectsSpec == ObjectsInit /\ [][ObjectsNext]_objectVars

-----------------------------------------------------------------------------

ObjectsTypeOK ==
  /\ object \in [Slots ->
       [alive : BOOLEAN, m_count : {0, 1},
        m_stream : [m_ownedData : Heap \cup {nullptr},
                    m_data : Heap \cup {nullptr, File}],
        m_array : Heap \cup {nullptr}]]
  /\ live \subseteq Heap
  /\ target \in [Heap -> Heap \cup {nullptr, File}]
  /\ m_blockIndices \in [Borrowers -> Heap \cup {nullptr, File}]
  /\ origin \in [Borrowers -> Slots \cup {Gone}]

\* Every allocation has exactly one owner, whatever was moved where: nothing is
\* deleted twice, nothing is used after it was deleted by another object, and
\* what no object owns has been deleted.
OwnedExactlyOnce ==
  /\ \A a \in Heap : a \in live <=> \E s \in Slots : a \in Owned(object[s])
  /\ \A s \in Slots : object[s].m_array # nullptr =>
                        object[s].m_array # object[s].m_stream.m_ownedData
  /\ \A s, t \in Slots : s # t => Owned(object[s]) \cap Owned(object[t]) = {}

\* "we can assign pointers into the stream directly, since the RawFile keeps
\* ownership of the directory stream": the pointers in an object's array lead
\* into the data of the stream that is moved with it, never into that of
\* another object; an object moved from is empty and offers none.
PointersStayInStream ==
  \A s \in Slots :
    IF object[s].m_array = nullptr
      THEN object[s].m_count = 0 /\ object[s].m_stream = EmptyStream
      ELSE /\ target[object[s].m_array] = object[s].m_stream.m_data
           /\ object[s].m_stream.m_data
                \in {File, object[s].m_stream.m_ownedData} \ {nullptr}

\* A stream made from a file can be read as long as that file exists, in
\* whichever variable it is now: moving a RawFile moves the data, never copies it.
StreamsOutliveMoves ==
  \A b \in Borrowers :
    origin[b] # Gone => /\ m_blockIndices[b] \in live \cup {File}
                        /\ m_blockIndices[b] = object[origin[b]].m_stream.m_data
=============================================================================
