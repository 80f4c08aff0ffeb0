------------------------- MODULE TypeExamplesProofs -------------------------
(***************************************************************************)
(* What holds of TypeExamples for every pair of type streams.              *)
(***************************************************************************)
EXTENDS TypeExamples, FiniteSetTheorems, SequenceTheorems, WellFoundedInduction, TLAPS

-----------------------------------------------------------------------------
(* The table of type records.                                              *)

\* The shape of a TPI stream.
LEMMA TPIStreamShape ==
  ASSUME NEW s \in TPIStreams
  PROVE  LET count == s.typeIndexEnd - s.typeIndexBegin
         IN  /\ s.typeIndexBegin \in Nat \ {0} /\ count \in Nat
             /\ s.typeIndexEnd \in Nat
             /\ s.start \in [0 .. count -> Nat]
             /\ s.start[0] = SizeOfStreamHeader /\ s.size = s.start[count]
             /\ DOMAIN s.content = 0 .. (count - 1)
<1>1. DOMAIN s.content = 0 .. (s.typeIndexEnd - s.typeIndexBegin - 1)
  BY ContentAssumption DEF IsContent
<1> QED  BY <1>1, TPIStreamsAssumption

\* A record ends behind its start and not behind the stream.
LEMMA RecordInStream ==
  ASSUME NEW s \in TPIStreams, NEW k \in 0 .. (s.typeIndexEnd - s.typeIndexBegin - 1)
  PROVE  /\ s.start[k + 1] = s.start[k] + SizeOfRecordHeader + s.recordSize[s.start[k]] - SizeOfUInt16
         /\ s.start[k] < s.start[k + 1] /\ s.start[k + 1] <= s.size
<1>1. /\ s.recordSize[s.start[k]] \in Nat \ (0 .. (SizeOfUInt16 - 1))
      /\ s.start[k + 1] = s.start[k] + SizeOfRecordHeader + s.recordSize[s.start[k]] - SizeOfUInt16
      /\ s.start[k + 1] <= s.size
  BY TPIStreamsAssumption
<1>2. s.start[k] \in Nat  BY TPIStreamShape
<1> QED  BY <1>1, <1>2 DEF SizeOfRecordHeader, SizeOfUInt16

\* The constructor is at the start of record number typeIndex, has stored the records
\* in front of it, and those lie one behind the other.
Walking ==
  /\ stream \in TPIStreams
  /\ typeIndex \in 0 .. GetTypeRecordCount
  /\ offset = stream.start[typeIndex]
  /\ pc \in {"walk", "ready", "printed"}
  /\ pc # "walk" => typeIndex = GetTypeRecordCount
  /\ m_records = [k \in 0 .. (GetTypeRecordCount - 1) |->
                    IF k < typeIndex THEN stream.start[k] ELSE Unwritten]
  /\ \A k, l \in 0 .. typeIndex : k < l => stream.start[k] < stream.start[l]

LEMMA WalkingInit == MainInit => Walking
<1> SUFFICES ASSUME MainInit PROVE Walking  OBVIOUS
<1>1. stream \in TPIStreams  BY FilesAssumption DEF MainInit
<1>2. TableInit  BY DEF MainInit, Init
<1>3. GetTypeRecordCount \in Nat /\ stream.start[0] = SizeOfStreamHeader
  BY <1>1, TPIStreamShape DEF GetTypeRecordCount, GetFirstTypeIndex, GetLastTypeIndex
<1>4. \A k \in 0 .. (GetTypeRecordCount - 1) : ~ (k < 0)  BY <1>3
<1>5. \A k, l \in 0 .. 0 : ~ (k < l)  OBVIOUS
<1> QED  BY <1>1, <1>2, <1>3, <1>4, <1>5 DEF Walking, TableInit

\* Which steps of the main program touch what of the table.
LEMMA TableSteps ==
  ASSUME [MainNext]_<<vars, ipiVars>>
  PROVE  \/ Callback
         \/ FinishConstruction
         \/ /\ UNCHANGED <<stream, offset, typeIndex, m_records>>
            /\ pc' = pc \/ (pc = "ready" /\ pc' = "printed")
<1> USE DEF tableVars, displayVars, vars, typeVars
<1>1. CASE CreateIPIStream  BY <1>1 DEF CreateIPIStream
<1>2. CASE IPIExample  BY <1>2 DEF IPIExample
<1>3. CASE UNCHANGED <<vars, ipiVars>>  BY <1>3
<1>4. CASE TypesExample
  <2>1. CASE Construct  BY <2>1 DEF Construct, ConstructorStep
  <2>2. CASE Display
    BY <2>2 DEF Display, DisplayStep, PassType, DisplayType, DisplayMember, DisplayNestedOrStatic,
       DisplayMethod, EnterMethodList, DisplayOverload, LeaveMethodList, PassField,
       DisplayEnumerate, FinishType, ToNextField
  <2>3. CASE TagDefinition \/ TagMemberFunction \/ PassRecord
    BY <2>3 DEF TagDefinition, TagMemberFunction, PassRecord
  <2>4. CASE PassBuiltIn \/ TagThrough \/ Tag
    BY <2>4 DEF PassBuiltIn, TagThrough, Tag
  <2>5. CASE PrintRecords  BY <2>5 DEF PrintRecords
  <2> QED  BY <1>4, <2>1, <2>2, <2>3, <2>4, <2>5 DEF TypesExample, Next
<1> QED  BY <1>1, <1>2, <1>3, <1>4 DEF MainNext

\* The callback's own count and the walk's offset stay in step.
LEMMA CallbackStaysInStep ==
  ASSUME Walking, Callback
  PROVE  Walking' /\ typeIndex' = typeIndex + 1 /\ pc' = pc /\ stream' = stream
<1> DEFINE count == stream.typeIndexEnd - stream.typeIndexBegin
<1>1. /\ stream \in TPIStreams /\ pc = "walk" /\ offset < stream.size
      /\ offset = stream.start[typeIndex] /\ typeIndex \in 0 .. count
      /\ UNCHANGED <<stream, pc>> /\ typeIndex' = typeIndex + 1
      /\ offset' = offset + SizeOfRecordHeader + stream.recordSize[offset] - SizeOfUInt16
  BY DEF Walking, Callback, HeaderSize, GetTypeRecordCount, GetFirstTypeIndex, GetLastTypeIndex
<1>2. count \in Nat /\ stream.start \in [0 .. count -> Nat] /\ stream.size = stream.start[count]
  BY <1>1, TPIStreamShape
<1>3. typeIndex \in 0 .. (count - 1) /\ count \in Nat  BY <1>1, <1>2
<1>4. offset' = stream.start[typeIndex + 1] /\ offset < stream.start[typeIndex + 1]
  BY <1>1, <1>3, RecordInStream
<1>5. \A k, l \in 0 .. (typeIndex + 1) : k < l => stream.start[k] < stream.start[l]
  <2>1. \A k, l \in 0 .. typeIndex : k < l => stream.start[k] < stream.start[l]
    BY DEF Walking
  <2>2. SUFFICES ASSUME NEW k \in 0 .. (typeIndex + 1), NEW l \in 0 .. (typeIndex + 1), k < l
        PROVE  stream.start[k] < stream.start[l]
    OBVIOUS
  <2>3. CASE l \in 0 .. typeIndex  BY <1>1, <2>1, <2>2, <2>3
  <2>4. CASE l = typeIndex + 1 /\ k = typeIndex  BY <1>1, <1>4, <2>4
  <2>5. CASE l = typeIndex + 1 /\ k # typeIndex
    <3>1. k \in 0 .. typeIndex /\ k < typeIndex /\ k \in 0 .. count  BY <1>3, <2>2, <2>5
    <3>2. stream.start[k] < offset  BY <1>1, <2>1, <3>1
    <3>3. stream.start[k] \in Nat /\ offset \in Nat /\ stream.start[typeIndex + 1] \in Nat
      <4>1. typeIndex \in 0 .. count /\ typeIndex + 1 \in 0 .. count  BY <1>3
      <4> HIDE DEF count
      <4>2. stream.start[k] \in Nat  BY <1>2, <3>1
      <4>3. stream.start[typeIndex] \in Nat /\ stream.start[typeIndex + 1] \in Nat
        BY <1>2, <4>1
      <4>4. offset = stream.start[typeIndex]  BY <1>1
      <4> QED  BY <4>2, <4>3, <4>4
    <3>4. l = typeIndex + 1  BY <2>5
    <3>5. stream.start[k] < stream.start[typeIndex + 1]  BY <1>4, <3>2, <3>3
    <3> QED  BY <3>4, <3>5
  <2> QED  BY <1>3, <2>2, <2>3, <2>4, <2>5
<1>6. m_records' = [k \in 0 .. (count - 1) |->
                      IF k < typeIndex + 1 THEN stream.start[k] ELSE Unwritten]
  <2>1. m_records = [k \in 0 .. (count - 1) |->
                       IF k < typeIndex THEN stream.start[k] ELSE Unwritten]
    BY DEF Walking, GetTypeRecordCount, GetFirstTypeIndex, GetLastTypeIndex
  <2>2. m_records' = [k \in DOMAIN m_records \cup {typeIndex} |->
                        IF k = typeIndex THEN offset ELSE m_records[k]]
    BY DEF Callback
  <2>3. DOMAIN m_records \cup {typeIndex} = 0 .. (count - 1)  BY <1>3, <2>1
  <2>4. \A k \in 0 .. (count - 1) :
          (IF k = typeIndex THEN offset ELSE m_records[k])
            = IF k < typeIndex + 1 THEN stream.start[k] ELSE Unwritten
    BY <1>1, <1>3, <2>1
  <2> QED  BY <2>2, <2>3, <2>4
<1>7. typeIndex + 1 \in 0 .. count  BY <1>3
<1> QED
  BY <1>1, <1>4, <1>5, <1>6, <1>7
     DEF Walking, GetTypeRecordCount, GetFirstTypeIndex, GetLastTypeIndex

\* The walk ends when as many records are stored as the header counts.
LEMMA ConstructionIsComplete ==
  ASSUME Walking, FinishConstruction
  PROVE  Walking' /\ typeIndex = GetTypeRecordCount /\ pc' = "ready"
           /\ UNCHANGED <<stream, m_records>>
<1> DEFINE count == stream.typeIndexEnd - stream.typeIndexBegin
<1>1. /\ stream \in TPIStreams /\ offset >= stream.size
      /\ offset = stream.start[typeIndex] /\ typeIndex \in 0 .. count
  BY DEF Walking, FinishConstruction, GetTypeRecordCount, GetFirstTypeIndex, GetLastTypeIndex
<1>2. count \in Nat /\ stream.start \in [0 .. count -> Nat] /\ stream.size = stream.start[count]
  BY <1>1, TPIStreamShape
<1>3. ASSUME typeIndex # count PROVE FALSE
  <2>1. typeIndex \in 0 .. (count - 1)  BY <1>1, <1>2, <1>3
  <2>2. stream.start[typeIndex] < stream.start[typeIndex + 1]
          /\ stream.start[typeIndex + 1] <= stream.size
    BY <1>1, <2>1, RecordInStream
  <2>3. /\ stream.start[typeIndex] \in Nat /\ stream.start[typeIndex + 1] \in Nat
        /\ stream.size \in Nat
    BY <1>2, <2>1
  <2> QED  BY <1>1, <2>2, <2>3
<1>4. typeIndex = GetTypeRecordCount
  BY <1>3 DEF GetTypeRecordCount, GetFirstTypeIndex, GetLastTypeIndex
<1> QED
  BY <1>4 DEF Walking, FinishConstruction, GetTypeRecordCount, GetFirstTypeIndex, GetLastTypeIndex

LEMMA WalkingStep ==
  ASSUME Walking, [MainNext]_<<vars, ipiVars>>
  PROVE  Walking'
<1>1. CASE /\ UNCHANGED <<stream, offset, typeIndex, m_records>>
           /\ pc' = pc \/ (pc = "ready" /\ pc' = "printed")
  BY <1>1 DEF Walking, GetTypeRecordCount, GetFirstTypeIndex, GetLastTypeIndex
<1> QED  BY <1>1, TableSteps, CallbackStaysInStep, ConstructionIsComplete

\* The table is filled in step with the walk over the TPI stream.
THEOREM TableIsInStep == MainSpec => []Walking
  BY WalkingInit, WalkingStep, PTL DEF MainSpec

-----------------------------------------------------------------------------
(* Lists of fields.                                                        *)

\* The least element of a set of numbers, by which lists of any length are reasoned
\* about: intervals are ordered by inclusion like the numbers they end at.
LEMMA LeastNatural ==
  ASSUME NEW T \in SUBSET Nat, T # {}
  PROVE  \E m \in T : \A n \in T : m <= n
<1> DEFINE below == {0 .. (n - 1) : n \in T}
           order == StrictSubsetOrdering(Nat)
<1>1. IsWellFoundedOn(order, FiniteSubsetsOf(Nat))
  BY FS_StrictSubsetOrderingWellFounded
<1>2. below \subseteq FiniteSubsetsOf(Nat)
  <2>1. ASSUME NEW n \in T PROVE 0 .. (n - 1) \in FiniteSubsetsOf(Nat)
    <3>1. n \in Nat /\ n - 1 \in Int  OBVIOUS
    <3>2. IsFiniteSet(0 .. (n - 1))  BY <3>1, FS_Interval
    <3>3. 0 .. (n - 1) \subseteq Nat  BY <3>1
    <3> QED  BY <3>2, <3>3 DEF FiniteSubsetsOf
  <2> QED  BY <2>1
<1>3. below # {}  OBVIOUS
<1>4. PICK s \in below : \A t \in below : ~ (<<t, s>> \in order)
  <2> HIDE DEF below, order
  <2> QED  BY <1>1, <1>2, <1>3, WFMin
<1>5. PICK m \in T : s = 0 .. (m - 1)  BY <1>4
<1>6. ASSUME NEW n \in T, n < m PROVE FALSE
  <2>1. m \in Nat /\ n \in Nat  OBVIOUS
  <2>2. 0 .. (n - 1) \subseteq 0 .. (m - 1)  BY <1>6, <2>1
  <2>3. n \in 0 .. (m - 1) /\ n \notin 0 .. (n - 1)  BY <1>6, <2>1
  <2>4. 0 .. (n - 1) \subseteq Nat /\ 0 .. (m - 1) \subseteq Nat  BY <2>1
  <2>5. <<0 .. (n - 1), 0 .. (m - 1)>> \in order
    BY <2>2, <2>3, <2>4 DEF StrictSubsetOrdering
  <2> QED  BY <1>4, <1>5, <2>5
<1>7. ASSUME NEW n \in T PROVE m <= n
  <2>1. m \in Nat /\ n \in Nat  OBVIOUS
  <2> QED  BY <1>6, <2>1
<1> QED  BY <1>7

\* Sequences of the same things one behind the other.
LEMMA SequencesFlattened ==
  ASSUME NEW W, NEW texts, NEW n \in Nat, DOMAIN texts = 1 .. n, texts \in Seq(Range(texts)),
         \A k \in 1 .. n : texts[k] \in Seq(W)
  PROVE  FlattenSeq(texts) \in Seq(W)
<1> DEFINE With(f, k) == IF k = 1 THEN texts[k] ELSE f[k - 1] \o texts[k]
           Solves(f, m) == f = [k \in 1 .. m |-> With(f, k)]
           T == {m \in 0 .. n : ~ \E f : Solves(f, m)}
<1>1. Len(texts) = n  OBVIOUS
<1>2. ASSUME T # {} PROVE FALSE
  <2>1. T \in SUBSET Nat
    <3> HIDE DEF Solves
    <3> QED  OBVIOUS
  <2>2. PICK m \in T : \A l \in T : m <= l
    <3> HIDE DEF T
    <3> QED  BY <1>2, <2>1, LeastNatural
  <2>3. m \in 0 .. n /\ ~ \E f : Solves(f, m)  BY <2>2
  <2>4. m # 0
    <3>1. 1 .. 0 = {}  OBVIOUS
    <3>2. Solves([k \in {} |-> k], 0)  BY <3>1
    <3> QED  BY <2>3, <3>2
  <2>5. m - 1 \in 0 .. n /\ ~ (m <= m - 1) /\ m \in Nat /\ m - 1 \in Nat
    BY <2>3, <2>4
  <2>6. PICK f : Solves(f, m - 1)
    <3>1. m - 1 \notin T  BY <2>2, <2>5
    <3> QED  BY <2>5, <3>1
  <2> DEFINE g == [k \in 1 .. m |-> With(f, k)]
  <2>7. ASSUME NEW k \in 1 .. m PROVE g[k] = With(g, k)
    <3>1. CASE k = 1  BY <3>1
    <3>2. CASE k # 1
      <4>1. k - 1 \in 1 .. (m - 1) /\ k - 1 \in 1 .. m  BY <2>5, <3>2
      <4>2. f[k - 1] = With(f, k - 1)  BY <2>6, <4>1
      <4>3. g[k - 1] = f[k - 1]  BY <4>1, <4>2
      <4> QED  BY <3>2, <4>3
    <3> QED  BY <3>1, <3>2
  <2>8. Solves(g, m)
    <3>1. g = [k \in 1 .. m |-> g[k]]  OBVIOUS
    <3> HIDE DEF g, With
    <3> QED  BY <2>7, <3>1
  <2> QED  BY <2>3, <2>8
<1>3. \E f : Solves(f, n)
  <2>1. n \in 0 .. n  OBVIOUS
  <2> QED  BY <1>2, <2>1
<1> DEFINE flatten == CHOOSE f : Solves(f, n)
<1>4. Solves(flatten, n)  BY <1>3
<1>5. FlattenSeq(texts) = IF n = 0 THEN texts ELSE flatten[n]
  BY <1>1 DEF FlattenSeq
<1>6. CASE n = 0
  <2>1. texts = <<>>  BY <1>1, <1>6
  <2> QED  BY <1>5, <1>6, <2>1
<1>7. CASE n # 0
  <2> DEFINE U == {k \in 1 .. n : flatten[k] \notin Seq(W)}
  <2>1. ASSUME U # {} PROVE FALSE
    <3>1. U \in SUBSET Nat  OBVIOUS
    <3>2. PICK m \in U : \A l \in U : m <= l
      <4> HIDE DEF U
      <4> QED  BY <2>1, <3>1, LeastNatural
    <3>3. m \in 1 .. n /\ flatten[m] \notin Seq(W)  BY <3>2
    <3>4. flatten[m] = IF m = 1 THEN texts[m] ELSE flatten[m - 1] \o texts[m]
      <4> HIDE DEF flatten
      <4> QED  BY <1>4, <3>3
    <3>5. m # 1  BY <3>3, <3>4
    <3>6. m - 1 \in 1 .. n /\ ~ (m <= m - 1)  BY <3>3, <3>5
    <3>7. flatten[m - 1] \in Seq(W)
      <4> HIDE DEF flatten
      <4> QED  BY <3>2, <3>6
    <3> HIDE DEF flatten
    <3>8. (flatten[m - 1] \o texts[m]) \in Seq(W)  BY <3>3, <3>7
    <3> QED  BY <3>3, <3>4, <3>5, <3>8
  <2>2. n \in 1 .. n  BY <1>7
  <2> QED  BY <1>5, <1>7, <2>1, <2>2
<1> QED  BY <1>6, <1>7

\* If each starts in front of the next, each starts in front of all others.
LEMMA StartsInOrder ==
  ASSUME NEW n \in Nat, NEW at \in [1 .. n -> Nat],
         \A k \in 1 .. (n - 1) : at[k] < at[k + 1]
  PROVE  \A k, l \in 1 .. n : k < l => at[k] < at[l]
<1> SUFFICES ASSUME NEW k \in 1 .. n PROVE \A l \in 1 .. n : k < l => at[k] < at[l]
  OBVIOUS
<1> DEFINE T == {l \in 1 .. n : k < l /\ ~ (at[k] < at[l])}
<1>1. CASE T = {}
  BY <1>1
<1>2. CASE T # {}
  <2>1. T \in SUBSET Nat  OBVIOUS
  <2>2. PICK m \in T : \A l \in T : m <= l
    <3> HIDE DEF T
    <3> QED  BY <1>2, <2>1, LeastNatural
  <2>3. /\ m \in 1 .. n /\ k < m /\ ~ (at[k] < at[m]) /\ m - 1 \in 1 .. (n - 1)
        /\ k <= m - 1 /\ m - 1 + 1 = m /\ m - 1 \in 1 .. n
    BY <2>2
  <2>4. m - 1 \notin T
    <3> HIDE DEF T
    <3>1. ~ (m <= m - 1)  BY <2>3
    <3> QED  BY <2>2, <3>1
  <2>5. at[m - 1] < at[m]  BY <2>3
  <2>6. at[m - 1] \in Nat /\ at[m] \in Nat /\ at[k] \in Nat  BY <2>3
  <2>7. CASE k = m - 1
    BY <2>3, <2>5, <2>7
  <2>8. CASE k # m - 1
    <3>1. k < m - 1  BY <2>3, <2>8
    <3>2. at[k] < at[m - 1]  BY <2>3, <2>4, <3>1
    <3> QED  BY <2>3, <2>5, <2>6, <3>2
  <2> QED  BY <2>7, <2>8
<1> QED  BY <1>1, <1>2

LEMMA Padding ==
  ASSUME NEW n \in Nat
  PROVE  RoundUp4(n) \in Nat /\ n <= RoundUp4(n) /\ RoundUp4(n) % 4 = 0
  BY DEF RoundUp4

\* A multiple of four does not matter to the padding.
LEMMA PaddingFrom ==
  ASSUME NEW start \in Nat, start % 4 = 0, NEW n \in Nat
  PROVE  RoundUp4(start + n) = start + RoundUp4(n) /\ (start + RoundUp4(n)) % 4 = 0
<1>1. PICK q \in Nat : start = 4 * q
  <2>1. start \div 4 \in Nat  OBVIOUS
  <2>2. start = 4 * (start \div 4) + (start % 4)  OBVIOUS
  <2>3. start = 4 * (start \div 4)  BY <2>1, <2>2
  <2> QED  BY <2>1, <2>3
<1>2. (4 * q + n + 3) \div 4 = q + ((n + 3) \div 4)  OBVIOUS
<1>3. (n + 3) \div 4 \in Nat  OBVIOUS
<1> DEFINE r == (n + 3) \div 4
<1>4. RoundUp4(start + n) = (q + r) * 4 /\ RoundUp4(n) = r * 4
  BY <1>1, <1>2 DEF RoundUp4
<1>5. r \in Nat  BY <1>3
<1> HIDE DEF r
<1> QED  BY <1>1, <1>4, <1>5

\* What the loops and the compiler make of the length of a field.
IsField(field) ==
  /\ field.kind \in NamedFields \cup NamelessFields \cup {"LF_ENUMERATE"}
  /\ field.kind \in {"LF_MEMBER", "LF_BCLASS", "LF_ENUMERATE"} => field.leaf \in NumericLeaves
  /\ field.kind \in VirtualBases => {field.leaf, field.vbtableLeaf} \subseteq NumericLeaves
  /\ field.kind \notin NamelessFields => field.length \in Nat

LEMMA LeafSizes ==
  ASSUME NEW leaf \in NumericLeaves
  PROVE  NumberLength(leaf) = GetLeafSize(leaf) /\ GetLeafSize(leaf) \in 2 .. 10
<1> USE DEF SizeOfRecordKind
<1>1. NumberLength(leaf) =
        CASE leaf = "below LF_NUMERIC" -> 2 [] leaf = "LF_CHAR" -> 3
          [] leaf \in {"LF_SHORT", "LF_USHORT"} -> 4 [] leaf \in {"LF_LONG", "LF_ULONG"} -> 6
          [] OTHER -> 10
  BY DEF NumberLength
<1>2. CASE leaf = "below LF_NUMERIC"
  <2>1. NumberLength(leaf) = 2  BY <1>1, <1>2
  <2>2. GetLeafSize(leaf) = 2  BY <1>2 DEF GetLeafSize
  <2> QED  BY <2>1, <2>2
<1>3. CASE leaf = "LF_CHAR"
  <2>1. NumberLength(leaf) = 3  BY <1>1, <1>3
  <2>2. GetLeafSize(leaf) = 3  BY <1>3 DEF GetLeafSize
  <2> QED  BY <2>1, <2>2
<1>4. CASE leaf \in {"LF_SHORT", "LF_USHORT"}  BY <1>1, <1>4 DEF GetLeafSize
<1>5. CASE leaf \in {"LF_LONG", "LF_ULONG"}  BY <1>1, <1>5 DEF GetLeafSize
<1>6. CASE leaf \in {"LF_QUADWORD", "LF_UQUADWORD"}
  <2>1. CASE leaf = "LF_QUADWORD"
    <3>1. NumberLength(leaf) = 10  BY <1>1, <2>1
    <3>2. GetLeafSize(leaf) = 10  BY <2>1 DEF GetLeafSize
    <3> QED  BY <3>1, <3>2
  <2>2. CASE leaf = "LF_UQUADWORD"
    <3>1. NumberLength(leaf) = 10  BY <1>1, <2>2
    <3>2. GetLeafSize(leaf) = 10  BY <2>2 DEF GetLeafSize
    <3> QED  BY <3>1, <3>2
  <2> QED  BY <1>6, <2>1, <2>2
<1> QED  BY <1>2, <1>3, <1>4, <1>5, <1>6 DEF NumericLeaves

LEMMA FieldLengths ==
  ASSUME NEW field, IsField(field)
  PROVE  /\ FieldLength(field) \in Nat /\ FieldLength(field) > 0
         /\ field.kind \notin NamelessFields => field.length \in Nat
         /\ field.kind \notin NamelessFields =>
              /\ NameOffset(field) \in Nat
              /\ FieldLength(field) = NameOffset(field) + field.length + 1
         /\ field.kind = "LF_BCLASS" =>
              NameOffset(field) \in Nat /\ FieldLength(field) = NameOffset(field)
         /\ field.kind \in VirtualBases =>
              /\ GetLeafSize(field.leaf) \in 2 .. 10 /\ GetLeafSize(field.vbtableLeaf) \in 2 .. 10
              /\ FieldLength(field) = 12 + GetLeafSize(field.leaf) + GetLeafSize(field.vbtableLeaf)
         /\ field.kind \in {"LF_INDEX", "LF_VFUNCTAB"} => FieldLength(field) = 8
<1> USE DEF NamedFields, NamelessFields, VirtualBases
<1>1. CASE field.kind \in VirtualBases
  <2>1. field.leaf \in NumericLeaves /\ field.vbtableLeaf \in NumericLeaves
    BY <1>1 DEF IsField
  <2>2. /\ NumberLength(field.leaf) = GetLeafSize(field.leaf)
        /\ NumberLength(field.vbtableLeaf) = GetLeafSize(field.vbtableLeaf)
        /\ GetLeafSize(field.leaf) \in 2 .. 10 /\ GetLeafSize(field.vbtableLeaf) \in 2 .. 10
    BY <2>1, LeafSizes
  <2>3. FieldLength(field) = 12 + NumberLength(field.leaf) + NumberLength(field.vbtableLeaf)
    BY <1>1 DEF FieldLength
  <2>4. field.kind \in NamelessFields /\ field.kind \notin {"LF_BCLASS", "LF_INDEX", "LF_VFUNCTAB"}
    BY <1>1
  <2> QED  BY <2>2, <2>3, <2>4
<1>2. CASE field.kind \in {"LF_INDEX", "LF_VFUNCTAB"}
  BY <1>2 DEF FieldLength
<1>3. CASE field.kind = "LF_BCLASS"
  <2>1. NumberLength(field.leaf) = GetLeafSize(field.leaf) /\ GetLeafSize(field.leaf) \in Nat
    BY <1>3, LeafSizes DEF IsField
  <2> QED  BY <1>3, <2>1 DEF FieldLength, NameOffset
<1>4. CASE field.kind \in {"LF_MEMBER", "LF_ENUMERATE"}
  <2>1. NumberLength(field.leaf) = GetLeafSize(field.leaf) /\ GetLeafSize(field.leaf) \in Nat
    BY <1>4, LeafSizes DEF IsField
  <2>2. field.length \in Nat  BY <1>4 DEF IsField
  <2> QED  BY <1>4, <2>1, <2>2 DEF FieldLength, NameOffset
<1>5. CASE field.kind = "LF_ONEMETHOD"
  BY <1>5 DEF IsField, FieldLength, NameOffset
<1>6. CASE field.kind \in {"LF_NESTTYPE", "LF_STMEMBER", "LF_METHOD"}
  BY <1>6 DEF IsField, FieldLength, NameOffset
<1> QED  BY <1>1, <1>2, <1>3, <1>4, <1>5, <1>6 DEF IsField

FieldEnd(r, k) == IF k = Len(r.fields) THEN r.size ELSE r.at[k + 1]

\* The fields of a list lie one behind the other and end with the list.
LEMMA FieldsInOrder ==
  ASSUME NEW r, IsFieldList(r)
  PROVE  LET count == Len(r.fields)
         IN  /\ count \in Nat /\ DOMAIN r.fields = 1 .. count
             /\ r.at \in [1 .. count -> Nat] /\ r.size \in Nat
             /\ count = 0 => r.size = 0
             /\ count > 0 => r.at[1] = 0
             /\ \A k \in 1 .. count :
                  /\ IsField(r.fields[k])
                  /\ FieldLength(r.fields[k]) \in Nat
                  /\ FieldEnd(r, k) \in Nat
                  /\ FieldEnd(r, k) = r.at[k] + RoundUp4(FieldLength(r.fields[k]))
                  /\ r.at[k] + FieldLength(r.fields[k]) <= FieldEnd(r, k)
                  /\ r.at[k] < FieldEnd(r, k) /\ FieldEnd(r, k) <= r.size
             /\ \A k, l \in 1 .. count : k < l => r.at[k] < r.at[l]
<1> DEFINE count == Len(r.fields)
<1>1. /\ r.fields \in Seq(Range(r.fields))
      /\ r.at \in [1 .. count -> Nat] /\ r.size \in Nat
      /\ count = 0 => r.size = 0
      /\ count > 0 => r.at[1] = 0
  BY DEF IsFieldList
<1>2. count \in Nat /\ DOMAIN r.fields = 1 .. count  BY <1>1
<1>3. ASSUME NEW k \in 1 .. count
      PROVE  /\ FieldEnd(r, k) = r.at[k] + RoundUp4(FieldLength(r.fields[k]))
             /\ IsField(r.fields[k])
  BY DEF IsFieldList, FieldEnd, IsField
<1>5. ASSUME NEW k \in 1 .. count
      PROVE  /\ FieldLength(r.fields[k]) \in Nat /\ FieldEnd(r, k) \in Nat
             /\ r.at[k] + FieldLength(r.fields[k]) <= FieldEnd(r, k)
             /\ r.at[k] < FieldEnd(r, k)
  <2>1. FieldLength(r.fields[k]) \in Nat /\ FieldLength(r.fields[k]) > 0
    BY <1>3, FieldLengths
  <2>2. PICK n \in Nat : n = FieldLength(r.fields[k])  BY <2>1
  <2>3. RoundUp4(n) \in Nat /\ n <= RoundUp4(n)  BY Padding
  <2>4. r.at[k] \in Nat  BY <1>1
  <2>5. FieldEnd(r, k) = r.at[k] + RoundUp4(n)  BY <1>3, <2>2
  <2>6. n > 0  BY <2>1, <2>2
  <2> QED  BY <2>2, <2>3, <2>4, <2>5, <2>6
<1>6. \A k \in 1 .. (count - 1) : r.at[k] < r.at[k + 1]
  <2> SUFFICES ASSUME NEW k \in 1 .. (count - 1) PROVE r.at[k] < r.at[k + 1]  OBVIOUS
  <2>1. k \in 1 .. count /\ k # count  BY <1>2
  <2> QED  BY <1>5, <2>1 DEF FieldEnd
<1>7. \A k, l \in 1 .. count : k < l => r.at[k] < r.at[l]
  <2> HIDE DEF count
  <2> QED  BY <1>1, <1>2, <1>6, StartsInOrder
<1>8. ASSUME NEW k \in 1 .. count PROVE FieldEnd(r, k) <= r.size
  <2>1. CASE k = count  BY <1>1, <2>1 DEF FieldEnd
  <2>2. CASE k # count
    <3>1. k + 1 \in 1 .. count /\ count \in 1 .. count /\ (k + 1 < count \/ k + 1 = count)
      BY <1>2, <2>2
    <3>2. r.at[k + 1] \in Nat /\ r.at[count] \in Nat  BY <1>1, <3>1
    <3>3. r.at[k + 1] <= r.at[count]
      <4>1. CASE k + 1 < count  BY <1>7, <3>1, <3>2, <4>1
      <4>2. CASE k + 1 = count  BY <3>2, <4>2
      <4> QED  BY <3>1, <4>1, <4>2
    <3>4. r.at[count] < FieldEnd(r, count)  BY <1>5, <3>1
    <3>5. FieldEnd(r, k) = r.at[k + 1] /\ FieldEnd(r, count) = r.size
      BY <2>2 DEF FieldEnd
    <3> QED  BY <1>1, <3>2, <3>3, <3>4, <3>5
  <2> QED  BY <2>1, <2>2
<1> QED  BY <1>1, <1>2, <1>3, <1>5, <1>7, <1>8

LEMMA FieldIsFound ==
  ASSUME NEW r, IsFieldList(r), NEW k \in DOMAIN r.fields
  PROVE  FieldAt(r, r.at[k]) = r.fields[k]
<1>1. ASSUME NEW l \in DOMAIN r.fields, r.at[l] = r.at[k] PROVE l = k
  <2>1. /\ k \in 1 .. Len(r.fields) /\ l \in 1 .. Len(r.fields)
        /\ r.at \in [1 .. Len(r.fields) -> Nat]
    BY FieldsInOrder
  <2>2. ~ (l < k) /\ ~ (k < l)
    <3>1. r.at[l] \in Nat /\ r.at[k] \in Nat  BY <2>1
    <3> QED  BY <1>1, <2>1, <3>1, FieldsInOrder
  <2> QED  BY <2>1, <2>2
<1> QED  BY <1>1 DEF FieldAt

LEMMA MinOfTwo ==
  ASSUME NEW m \in Nat, NEW n \in Nat, m <= n
  PROVE  Min({m, n}) = m
<1>1. m \in {m, n} /\ \A y \in {m, n} : m <= y  OBVIOUS
<1>2. \A x \in {m, n} : (\A y \in {m, n} : x <= y) => x = m  OBVIOUS
<1> QED  BY <1>1, <1>2 DEF Min

\* From a field the loops go on at a place behind its start, be it a field's or not.
LEMMA NextIsBehind ==
  ASSUME NEW r, IsFieldList(r), NEW p \in Nat, FieldAt(r, p) # NoField
  PROVE  /\ FieldAt(r, p) \in Range(r.fields)
         /\ NextOffset(r, p) \in Nat /\ p < NextOffset(r, p)
<1>1. PICK k \in DOMAIN r.fields : r.at[k] = p /\ FieldAt(r, p) = r.fields[k]
  <2>1. PICK k \in DOMAIN r.fields : r.at[k] = p  BY DEF FieldAt
  <2> QED  BY <2>1, FieldIsFound
<1> DEFINE f == r.fields[k]
           length == FieldLength(f)
<1>2. /\ IsField(f) /\ FieldAt(r, p) = f
      /\ r.size \in Nat /\ length \in Nat /\ p + length <= r.size
  <2>1. k \in 1 .. Len(r.fields) /\ r.size \in Nat  BY FieldsInOrder
  <2>2. /\ IsField(f) /\ length \in Nat /\ FieldEnd(r, k) \in Nat
        /\ p + length <= FieldEnd(r, k) /\ FieldEnd(r, k) <= r.size
    BY <1>1, <2>1, FieldsInOrder
  <2> HIDE DEF f, length
  <2>3. p + length <= r.size  BY <2>1, <2>2
  <2> QED  BY <1>1, <2>1, <2>2, <2>3 DEF f
<1>3. FieldAt(r, p) \in Range(r.fields)  BY <1>1 DEF Range
<1> SUFFICES \E n \in Nat : n > 0 /\ NextOffset(r, p) = RoundUp4(p + n)
  <2>1. PICK n \in Nat : n > 0 /\ NextOffset(r, p) = RoundUp4(p + n)  OBVIOUS
  <2>2. PICK m \in Nat : m = p + n  OBVIOUS
  <2>3. RoundUp4(m) \in Nat /\ m <= RoundUp4(m)  BY Padding
  <2>4. p < RoundUp4(m)  BY <2>1, <2>2, <2>3
  <2> QED  BY <1>3, <2>1, <2>2, <2>3, <2>4
<1> HIDE DEF f
<1>4. CASE f.kind \in VirtualBases
  <2>1. PICK a \in Nat, b \in Nat : GetLeafSize(f.leaf) = a /\ GetLeafSize(f.vbtableLeaf) = b
    BY <1>2, <1>4, FieldLengths
  <2>2. NextOffset(r, p) = RoundUp4(p + 10 + a + b)
    BY <1>2, <1>4, <2>1 DEF NextOffset, VirtualBases
  <2>3. p + 10 + a + b = p + (10 + a + b) /\ 10 + a + b \in Nat /\ 10 + a + b > 0  OBVIOUS
  <2> QED  BY <2>2, <2>3
<1>5. CASE f.kind \in {"LF_INDEX", "LF_VFUNCTAB"}
  BY <1>2, <1>5 DEF NextOffset, VirtualBases
<1>6. CASE f.kind = "LF_BCLASS"
  <2>1. length = NameOffset(f) /\ length > 0  BY <1>2, <1>6, FieldLengths
  <2>2. NextOffset(r, p) = RoundUp4(p + NameOffset(f))
    BY <1>2, <1>6 DEF NextOffset, VirtualBases
  <2> QED  BY <1>2, <2>1, <2>2
<1>7. CASE f.kind \notin NamelessFields
  <2>1. /\ f.length \in Nat /\ NameOffset(f) \in Nat /\ length > 0
        /\ length = NameOffset(f) + f.length + 1
    BY <1>2, <1>7, FieldLengths
  <2>2. NextOffset(r, p) =
          RoundUp4(p + NameOffset(f) + Min({f.length, r.size - (p + NameOffset(f)) - 1}) + 1)
    BY <1>2, <1>7 DEF NextOffset, VirtualBases, NamelessFields
  <2>3. PICK n \in Nat, o \in Nat : n = f.length /\ o = NameOffset(f)  BY <2>1
  <2> HIDE DEF length
  <2>4. PICK rest \in Nat : rest = r.size - (p + o) - 1 /\ n <= rest
    BY <1>2, <2>1, <2>3
  <2>5. Min({n, rest}) = n  BY <2>4, MinOfTwo
  <2>6. p + o + n + 1 = p + length  BY <1>2, <2>1, <2>3
  <2>7. NextOffset(r, p) = RoundUp4(p + o + Min({n, rest}) + 1)
    BY <2>2, <2>3, <2>4
  <2> QED  BY <1>2, <2>1, <2>5, <2>6, <2>7
<1> QED  BY <1>4, <1>5, <1>6, <1>7 DEF NamelessFields

\* The loop over a field list meets nothing but its fields.
LEMMA FieldsAreReached ==
  ASSUME NEW r, IsFieldList(r)
  PROVE  ReachedFields(r) \in Seq(Range(r.fields))
<1> DEFINE Body(f, p) ==
             IF p >= r.size \/ FieldAt(r, p) = NoField THEN <<>>
             ELSE <<FieldAt(r, p)>> \o f[NextOffset(r, p)]
           Places(n) == {p \in Nat : p + n >= r.size}
           Solves(f, n) == f = [p \in Places(n) |-> Body(f, p)]
           T == {n \in Nat : ~ \E f : Solves(f, n)}
<1>1. r.size \in Nat  BY DEF IsFieldList
<1>2. ASSUME NEW n \in Nat, NEW p \in Places(n), p < r.size, FieldAt(r, p) # NoField
      PROVE  n # 0 /\ n - 1 \in Nat /\ NextOffset(r, p) \in Places(n - 1)
  <2>1. p \in Nat /\ p + n >= r.size  OBVIOUS
  <2>2. NextOffset(r, p) \in Nat /\ p < NextOffset(r, p)  BY <1>2, <2>1, NextIsBehind
  <2> QED  BY <1>1, <1>2, <2>1, <2>2
<1>3. ASSUME T # {} PROVE FALSE
  <2>1. T \in SUBSET Nat  OBVIOUS
  <2>2. PICK m \in T : \A n \in T : m <= n
    <3> HIDE DEF T
    <3> QED  BY <1>3, <2>1, LeastNatural
  <2>3. m \in Nat /\ ~ \E f : Solves(f, m)  BY <2>2
  <2>4. m # 0
    <3> DEFINE g == [p \in Places(0) |-> <<>>]
    <3>1. \A p \in Places(0) : Body(g, p) = <<>>  BY <1>1
    <3>2. Solves(g, 0)
      <4> HIDE DEF Body, Places
      <4> QED  BY <3>1
    <3> HIDE DEF g
    <3> QED  BY <2>3, <3>2
  <2>5. m - 1 \in Nat /\ ~ (m <= m - 1)  BY <2>3, <2>4
  <2>6. PICK f : Solves(f, m - 1)
    <3>1. m - 1 \notin T  BY <2>2, <2>5
    <3> QED  BY <2>5, <3>1
  <2> DEFINE g == [p \in Places(m) |-> Body(f, p)]
  <2>7. ASSUME NEW p \in Places(m) PROVE g[p] = Body(g, p)
    <3>1. CASE p >= r.size \/ FieldAt(r, p) = NoField  BY <3>1
    <3>2. CASE ~ (p >= r.size \/ FieldAt(r, p) = NoField)
      <4>1. p \in Nat /\ p < r.size  BY <1>1, <3>2
      <4>2. NextOffset(r, p) \in Places(m - 1)
        <5> HIDE DEF Places
        <5> QED  BY <1>2, <2>3, <3>2, <4>1
      <4>3. NextOffset(r, p) \in Places(m)  BY <1>1, <2>3, <4>2
      <4> DEFINE o == NextOffset(r, p)
      <4> HIDE DEF o
      <4>4. o \in Places(m - 1) /\ o \in Places(m)  BY <4>2, <4>3 DEF o
      <4> HIDE DEF Places
      <4>5. f[o] = Body(f, o)  BY <2>6, <4>4
      <4>6. g[o] = Body(f, o)  BY <4>4
      <4>7. g[p] = <<FieldAt(r, p)>> \o f[o]  BY <3>2 DEF o
      <4> HIDE DEF g
      <4>8. Body(g, p) = <<FieldAt(r, p)>> \o g[o]  BY <3>2 DEF o
      <4> QED  BY <4>5, <4>6, <4>7, <4>8
    <3> QED  BY <3>1, <3>2
  <2>8. Solves(g, m)
    <3>1. g = [p \in Places(m) |-> g[p]]  OBVIOUS
    <3> HIDE DEF g, Body, Places
    <3> QED  BY <2>7, <3>1
  <2> QED  BY <2>3, <2>8
<1>4. \E f : Solves(f, r.size)  BY <1>1, <1>3
<1>5. Places(r.size) = Nat  BY <1>1
<1> DEFINE from == CHOOSE f : f = [p \in Nat |-> Body(f, p)]
<1>6. from = [p \in Nat |-> Body(from, p)]
  <2> HIDE DEF Body, Places
  <2>1. \E f : f = [p \in Nat |-> Body(f, p)]  BY <1>4, <1>5
  <2> QED  BY <2>1
<1>7. ReachedFields(r) = from[0]  BY DEF ReachedFields
<1> DEFINE F == Range(r.fields)
           U == {n \in Nat : ~ \A p \in Places(n) : from[p] \in Seq(F)}
<1> HIDE DEF from, F
<1>8. ASSUME U # {} PROVE FALSE
  <2>1. U \in SUBSET Nat  OBVIOUS
  <2>2. PICK m \in U : \A n \in U : m <= n
    <3> HIDE DEF U
    <3> QED  BY <1>8, <2>1, LeastNatural
  <2>3. PICK p \in Places(m) : from[p] \notin Seq(F)  BY <2>2
  <2>4. p \in Nat /\ m \in Nat  BY <2>3
  <2>5. from[p] = Body(from, p)
    <3> HIDE DEF Body
    <3> QED  BY <1>6, <2>4
  <2>6. CASE p >= r.size \/ FieldAt(r, p) = NoField
    BY <2>3, <2>5, <2>6
  <2>7. CASE ~ (p >= r.size \/ FieldAt(r, p) = NoField)
    <3>1. p < r.size  BY <1>1, <2>4, <2>7
    <3>2. m - 1 \in Nat /\ NextOffset(r, p) \in Places(m - 1)
      <4> HIDE DEF Places
      <4> QED  BY <1>2, <2>3, <2>4, <2>7, <3>1
    <3>3. m - 1 \notin U /\ m - 1 \in Nat  
      <4>1. ~ (m <= m - 1)  BY <2>4
      <4> HIDE DEF U
      <4> QED  BY <2>2, <3>2, <4>1
    <3>4. from[NextOffset(r, p)] \in Seq(F)  BY <3>2, <3>3
    <3>5. FieldAt(r, p) \in F  BY <2>4, <2>7, NextIsBehind DEF F
    <3>6. <<FieldAt(r, p)>> \in Seq(F)  BY <3>5
    <3>7. from[p] = <<FieldAt(r, p)>> \o from[NextOffset(r, p)]  BY <2>5, <2>7
    <3> QED  BY <2>3, <3>4, <3>6, <3>7
  <2> QED  BY <2>6, <2>7
<1>9. r.size \notin U /\ 0 \in Places(r.size)  BY <1>1, <1>5, <1>8
<1> QED  BY <1>1, <1>7, <1>9 DEF F

-----------------------------------------------------------------------------
(* References among the records.                                           *)

\* The references of record k, all to records in front of it or to built-in types,
\* and those followed through to lists, which a list of overloads always is.
ReferencesInFront(s, k) ==
  {TagOf(t) : t \in {u \in 0 .. (s.typeIndexBegin + k - 1) : KindOf(s, u) # "LF_METHODLIST"}}
  \cup {ThroughOf(t) : t \in {u \in s.typeIndexBegin .. (s.typeIndexBegin + k - 1) :
                                KindOf(s, u) \in {"LF_FIELDLIST", "LF_METHODLIST"}}}

LEMMA ReferenceFields ==
  ASSUME NEW s \in TPIStreams, NEW k \in Nat, NEW r \in ReferencesInFront(s, k)
  PROVE  /\ r.to \in 0 .. (s.typeIndexBegin + k - 1)
         /\ r.through => /\ r.to \in s.typeIndexBegin .. (s.typeIndexBegin + k - 1)
                         /\ KindOf(s, r.to) \in {"LF_FIELDLIST", "LF_METHODLIST"}
         /\ ~ r.through => KindOf(s, r.to) # "LF_METHODLIST"
<1>1. s.typeIndexBegin \in Nat \ {0}  BY TPIStreamShape
<1>2. CASE r \in {TagOf(t) : t \in {u \in 0 .. (s.typeIndexBegin + k - 1) :
                                       KindOf(s, u) # "LF_METHODLIST"}}
  <2>1. PICK t \in 0 .. (s.typeIndexBegin + k - 1) :
          r = TagOf(t) /\ KindOf(s, t) # "LF_METHODLIST"
    BY <1>2
  <2>2. r.to = t /\ r.through = FALSE  BY <2>1 DEF TagOf
  <2> QED  BY <2>1, <2>2
<1>3. CASE r \in {ThroughOf(t) : t \in {u \in s.typeIndexBegin .. (s.typeIndexBegin + k - 1) :
                                   KindOf(s, u) \in {"LF_FIELDLIST", "LF_METHODLIST"}}}
  <2>1. PICK t \in s.typeIndexBegin .. (s.typeIndexBegin + k - 1) :
          r = ThroughOf(t) /\ KindOf(s, t) \in {"LF_FIELDLIST", "LF_METHODLIST"}
    BY <1>3
  <2>2. r.to = t /\ r.through = TRUE  BY <2>1 DEF ThroughOf
  <2>3. t \in 0 .. (s.typeIndexBegin + k - 1)  BY <1>1
  <2> QED  BY <2>1, <2>2, <2>3
<1> QED  BY <1>2, <1>3 DEF ReferencesInFront

LEMMA MoreInFront ==
  ASSUME NEW s \in TPIStreams, NEW k \in Nat, NEW l \in Nat, k <= l
  PROVE  /\ ReferencesInFront(s, k) \subseteq ReferencesInFront(s, l)
         /\ Seq(ReferencesInFront(s, k)) \subseteq Seq(ReferencesInFront(s, l))
<1>1. s.typeIndexBegin \in Nat \ {0}  BY TPIStreamShape
<1>2. /\ 0 .. (s.typeIndexBegin + k - 1) \subseteq 0 .. (s.typeIndexBegin + l - 1)
      /\ s.typeIndexBegin .. (s.typeIndexBegin + k - 1)
           \subseteq s.typeIndexBegin .. (s.typeIndexBegin + l - 1)
  BY <1>1
<1>3. ReferencesInFront(s, k) \subseteq ReferencesInFront(s, l)
  BY <1>2 DEF ReferencesInFront
<1> QED  BY <1>3

\* The overloads the loop over a method list meets, wherever it stands, are some of the
\* list, or none.
LEMMA EntriesAreOfList ==
  ASSUME NEW methods, NEW o
  PROVE  EntryAt(methods, o) \in Range(methods.entries) \cup {NoEntry}
  BY DEF EntryAt, Range

LEMMA FieldReferencesInFront ==
  ASSUME NEW s \in TPIStreams, NEW k \in DOMAIN s.content, s.content[k].kind = "LF_FIELDLIST",
         NEW f \in Range(s.content[k].fields)
  PROVE  FieldReferences(f) \in Seq(ReferencesInFront(s, k))
<1> DEFINE r == s.content[k]
           W == ReferencesInFront(s, k)
<1>1. s.typeIndexBegin \in Nat \ {0} /\ k \in Nat  BY TPIStreamShape
<1>2. /\ IndicesOf(r) \subseteq 0 .. (s.typeIndexBegin + k - 1)
      /\ ~ LeadsToOverloads(s, r)
      /\ f.kind = "LF_METHOD" => KindOf(s, f.index) = "LF_METHODLIST"
      /\ f.kind = "LF_INDEX" => KindOf(s, f.index) = "LF_FIELDLIST"
  BY ContentAssumption DEF IsContent
<1>3. CASE f.kind \in {"LF_BCLASS", "LF_ENUMERATE"}
  BY <1>3 DEF FieldReferences
<1> SUFFICES ASSUME f.kind \notin {"LF_BCLASS", "LF_ENUMERATE"}
      PROVE  FieldReferences(f) \in Seq(W)
  BY <1>3
<1>4. f.index \in 0 .. (s.typeIndexBegin + k - 1)
  <2>1. IndicesOf(r) = {g.index : g \in {g \in Range(r.fields) :
                                          g.kind \notin {"LF_BCLASS", "LF_ENUMERATE"}}}
    BY DEF IndicesOf, Definitions
  <2>2. f.index \in IndicesOf(r)  BY <2>1
  <2> QED  BY <1>2, <2>2
<1>5. CASE f.kind \in {"LF_METHOD", "LF_INDEX"}
  <2>1. KindOf(s, f.index) \in {"LF_FIELDLIST", "LF_METHODLIST"}  BY <1>2, <1>5
  <2>2. f.index >= s.typeIndexBegin
    <3>1. IsRecord(s, f.index)  BY <2>1 DEF KindOf
    <3> QED  BY <3>1, TPIStreamShape DEF IsRecord
  <2>3. f.index \in s.typeIndexBegin .. (s.typeIndexBegin + k - 1)
    BY <1>1, <1>4, <2>2
  <2>4. ThroughOf(f.index) \in W  BY <2>1, <2>3 DEF ReferencesInFront
  <2>5. FieldReferences(f) = <<ThroughOf(f.index)>>  BY <1>5 DEF FieldReferences
  <2> HIDE DEF W
  <2> QED  BY <2>4, <2>5
<1>6. CASE f.kind \notin {"LF_METHOD", "LF_INDEX"}
  <2>1. KindOf(s, f.index) # "LF_METHODLIST"  BY <1>2, <1>6 DEF LeadsToOverloads
  <2>2. TagOf(f.index) \in W  BY <1>4, <2>1 DEF ReferencesInFront
  <2>3. FieldReferences(f) = <<TagOf(f.index)>>  BY <1>6 DEF FieldReferences
  <2> HIDE DEF W
  <2> QED  BY <2>2, <2>3
<1> QED  BY <1>5, <1>6

LEMMA ReferencesStayInFront ==
  ASSUME NEW s \in TPIStreams, NEW k \in DOMAIN s.content
  PROVE  References(s.content[k]) \in Seq(ReferencesInFront(s, k))
<1> DEFINE r == s.content[k]
           Here == {u \in 0 .. (s.typeIndexBegin + k - 1) : KindOf(s, u) # "LF_METHODLIST"}
           Tags == {TagOf(t) : t \in Here}
<1>1. /\ IndicesOf(r) \subseteq 0 .. (s.typeIndexBegin + k - 1)
      /\ r.kind # "LF_FIELDLIST" => IndicesOf(r) \subseteq Here
      /\ r.kind = "LF_FIELDLIST" => IsFieldList(r)
      /\ r.kind = "LF_ARGLIST" => r.arg \in Seq(Nat)
      /\ r.kind = "LF_METHODLIST" => r.entries \in Seq(Range(r.entries))
  BY ContentAssumption DEF IsContent, IsMethodList, LeadsToOverloads
<1>2. s.typeIndexBegin \in Nat \ {0} /\ k \in Nat  BY TPIStreamShape
<1>3. Seq(Tags) \subseteq Seq(ReferencesInFront(s, k))
  BY DEF ReferencesInFront
<1> USE DEF Definitions, Functions
<1>4. CASE r.kind = "LF_FIELDLIST"
  <2> DEFINE reached == ReachedFields(r)
             texts == [n \in DOMAIN reached |-> FieldReferences(reached[n])]
             W == ReferencesInFront(s, k)
  <2>1. reached \in Seq(Range(r.fields))  BY <1>1, <1>4, FieldsAreReached
  <2>2. References(r) = FlattenSeq(texts)  BY <1>4 DEF References
  <2>3. DOMAIN reached = 1 .. Len(reached) /\ Len(reached) \in Nat
        /\ \A n \in 1 .. Len(reached) : reached[n] \in Range(r.fields)
    <3> HIDE DEF reached
    <3> QED  BY <2>1
  <2>4. \A n \in 1 .. Len(reached) : FieldReferences(reached[n]) \in Seq(W)
    BY <1>4, <2>3, FieldReferencesInFront
  <2>5. FlattenSeq(texts) \in Seq(W)
    <3> HIDE DEF reached, W
    <3>1. DOMAIN texts = 1 .. Len(reached)  BY <2>3
    <3>2. \A n \in 1 .. Len(reached) : texts[n] \in Seq(W)  BY <2>3, <2>4
    <3>3. texts = [n \in 1 .. Len(reached) |-> texts[n]]  BY <3>1
    <3> HIDE DEF texts
    <3>4. \A n \in 1 .. Len(reached) : texts[n] \in Range(texts)  BY <3>1 DEF Range
    <3>5. texts \in Seq(Range(texts))  BY <2>3, <3>3, <3>4
    <3> QED  BY <2>3, <3>1, <3>2, <3>5, SequencesFlattened
  <2> QED  BY <2>2, <2>5
<1> SUFFICES ASSUME r.kind # "LF_FIELDLIST" PROVE References(r) \in Seq(Tags)
  BY <1>3, <1>4
<1>5. CASE r.kind = "LF_ARRAY"
  <2>1. r.elemtype \in Here /\ r.idxtype \in Here  BY <1>1, <1>5 DEF IndicesOf
  <2>2. References(r) = <<TagOf(r.elemtype), TagOf(r.idxtype)>>  BY <1>5 DEF References
  <2>3. TagOf(r.elemtype) \in Tags /\ TagOf(r.idxtype) \in Tags  BY <2>1
  <2> QED  BY <2>2, <2>3
<1>6. CASE r.kind \in {"LF_POINTER", "LF_MODIFIER"} \cup Definitions
  <2>1. PICK t \in Here : References(r) = <<TagOf(t)>>
    BY <1>1, <1>6 DEF IndicesOf, References
  <2>2. TagOf(t) \in Tags  OBVIOUS
  <2> QED  BY <2>1, <2>2
<1>7. CASE r.kind = "LF_PROCEDURE"
  <2>1. r.rvtype \in Here /\ r.arglist \in Here  BY <1>1, <1>7 DEF IndicesOf
  <2>2. References(r) = <<TagOf(r.rvtype), TagOf(r.arglist)>>  BY <1>7 DEF References
  <2>3. TagOf(r.rvtype) \in Tags /\ TagOf(r.arglist) \in Tags  BY <2>1
  <2> QED  BY <2>2, <2>3
<1>8. CASE r.kind = "LF_MFUNCTION"
  <2>1. r.rvtype \in Here /\ r.arglist \in Here /\ r.thistype \in Here
    BY <1>1, <1>8 DEF IndicesOf
  <2>2. References(r) = <<TagOf(r.rvtype), TagOf(r.arglist), TagOf(r.thistype)>>
    BY <1>8 DEF References
  <2>3. TagOf(r.rvtype) \in Tags /\ TagOf(r.arglist) \in Tags /\ TagOf(r.thistype) \in Tags
    BY <2>1
  <2> QED  BY <2>2, <2>3
<1>9. CASE r.kind = "LF_ARGLIST"
  <2>1. Range(r.arg) \subseteq Here  BY <1>1, <1>9 DEF IndicesOf
  <2>2. References(r) = [n \in DOMAIN r.arg |-> TagOf(r.arg[n])]  BY <1>9 DEF References
  <2>3. r.arg \in Seq(Nat)  BY <1>1, <1>9
  <2>4. \A n \in 1 .. Len(r.arg) : TagOf(r.arg[n]) \in Tags  BY <2>1, <2>3 DEF Range
  <2>5. References(r) = [n \in 1 .. Len(r.arg) |-> TagOf(r.arg[n])]  BY <2>2, <2>3
  <2>6. Len(r.arg) \in Nat  BY <2>3
  <2> QED  BY <2>4, <2>5, <2>6
<1>10. CASE r.kind = "LF_METHODLIST"
  <2>1. {e.index : e \in Range(r.entries)} \subseteq Here  BY <1>1, <1>10 DEF IndicesOf
  <2>2. References(r) = [n \in DOMAIN r.entries |-> TagOf(ReachedEntries(r)[n].index)]
    BY <1>10 DEF References
  <2>3. r.entries \in Seq(Range(r.entries))  BY <1>1, <1>10
  <2>4. ASSUME NEW n \in DOMAIN r.entries
        PROVE  TagOf(ReachedEntries(r)[n].index) \in Tags
    <3>1. ReachedEntries(r)[n] \in Range(r.entries) \cup {NoEntry}
      BY <2>4, EntriesAreOfList DEF ReachedEntries
    <3>2. NoEntry.index \in Here  BY <1>2 DEF NoEntry, KindOf, IsRecord
    <3> QED  BY <2>1, <3>1, <3>2
  <2>5. DOMAIN r.entries = 1 .. Len(r.entries) /\ Len(r.entries) \in Nat  BY <2>3
  <2> HIDE DEF Tags, r
  <2>6. References(r) = [n \in 1 .. Len(r.entries) |-> TagOf(ReachedEntries(r)[n].index)]
    BY <2>2, <2>5
  <2>7. \A n \in 1 .. Len(r.entries) : TagOf(ReachedEntries(r)[n].index) \in Tags
    BY <2>4, <2>5
  <2> QED  BY <2>5, <2>6, <2>7
<1>11. CASE r.kind \notin {"LF_ARRAY", "LF_POINTER", "LF_MODIFIER", "LF_PROCEDURE", "LF_MFUNCTION",
                         "LF_ARGLIST", "LF_METHODLIST"} \cup Definitions
  BY <1>11 DEF References
<1> QED  BY <1>5, <1>6, <1>7, <1>8, <1>9, <1>10, <1>11

-----------------------------------------------------------------------------
(* Look-ups in the table.                                                  *)

\* What a look-up finds once the table is complete.
LEMMA LookupFinds ==
  ASSUME Walking, pc # "walk", NEW t \in Nat, t # stream.typeIndexEnd
  PROVE  Lookup(t) = IF t \in stream.typeIndexBegin .. (stream.typeIndexEnd - 1)
                       THEN stream.start[t - stream.typeIndexBegin]
                       ELSE nullptr
<1> DEFINE begin == stream.typeIndexBegin
           end == stream.typeIndexEnd
<1>1. stream \in TPIStreams  BY DEF Walking
<1>2. begin \in Nat \ {0} /\ end \in Nat /\ end - begin \in Nat  BY <1>1, TPIStreamShape
<1>3. m_records = [k \in 0 .. (end - begin - 1) |->
                     IF k < end - begin THEN stream.start[k] ELSE Unwritten]
  BY DEF Walking, GetTypeRecordCount, GetFirstTypeIndex, GetLastTypeIndex
<1>4. CASE t \in begin .. (end - 1)
  <2>1. t - begin \in 0 .. (end - begin - 1) /\ t - begin < end - begin  BY <1>2, <1>4
  <2>2. RecordAt(t - begin) = stream.start[t - begin]  BY <1>3, <2>1 DEF RecordAt
  <2>3. ~ (t < begin) /\ ~ (t > end)  BY <1>2, <1>4
  <2> QED  BY <1>4, <2>2, <2>3 DEF Lookup, GetFirstTypeIndex, GetLastTypeIndex
<1>5. CASE t \notin begin .. (end - 1)
  <2>1. t < begin \/ t > end  BY <1>2, <1>5
  <2> QED  BY <1>5, <2>1 DEF Lookup, GetFirstTypeIndex, GetLastTypeIndex
<1> QED  BY <1>4, <1>5

\* The record a pointer out of the table leads to.
LEMMA PointerLeadsToRecord ==
  ASSUME Walking, pc # "walk", NEW k \in 0 .. (GetTypeRecordCount - 1)
  PROVE  /\ k \in DOMAIN stream.content
         /\ m_records[k] = stream.start[k]
         /\ At(stream.start[k]) = stream.content[k]
         /\ Lookup(GetFirstTypeIndex + k) = stream.start[k]
         /\ stream.start[k] # nullptr
<1> DEFINE begin == stream.typeIndexBegin
           end == stream.typeIndexEnd
<1>1. stream \in TPIStreams  BY DEF Walking
<1>2. /\ begin \in Nat \ {0} /\ end \in Nat /\ end - begin \in Nat
      /\ DOMAIN stream.content = 0 .. (end - begin - 1)
      /\ stream.start \in [0 .. (end - begin) -> Nat]
  BY <1>1, TPIStreamShape
<1>3. k \in 0 .. (end - begin - 1)
  BY DEF GetTypeRecordCount, GetFirstTypeIndex, GetLastTypeIndex
<1>4. \A i1, i2 \in 0 .. (end - begin) : i1 < i2 => stream.start[i1] < stream.start[i2]
  BY DEF Walking, GetTypeRecordCount, GetFirstTypeIndex, GetLastTypeIndex
<1>5. m_records[k] = stream.start[k]
  <2>1. m_records = [l \in 0 .. (end - begin - 1) |->
                       IF l < end - begin THEN stream.start[l] ELSE Unwritten]
    BY DEF Walking, GetTypeRecordCount, GetFirstTypeIndex, GetLastTypeIndex
  <2> QED  BY <1>2, <1>3, <2>1
<1>6. ASSUME NEW l \in 0 .. (end - begin - 1), stream.start[l] = stream.start[k]
      PROVE  l = k
  <2>1. l \in 0 .. (end - begin) /\ k \in 0 .. (end - begin)  BY <1>2, <1>3
  <2>2. stream.start[l] \in Nat /\ stream.start[k] \in Nat  BY <1>2, <2>1
  <2>3. ~ (l < k) /\ ~ (k < l)  BY <1>4, <1>6, <2>1, <2>2
  <2> QED  BY <1>2, <1>3, <2>3
<1>7. (CHOOSE l \in DOMAIN stream.content : stream.start[l] = stream.start[k]) = k
  BY <1>2, <1>3, <1>6
<1>8. PICK t \in Nat : t = begin + k
  BY <1>2, <1>3
<1>9. Lookup(begin + k) = stream.start[k]
  <2>1. begin \in Nat /\ end \in Nat /\ k \in Nat /\ k < end - begin  BY <1>2, <1>3
  <2>2. t \in begin .. (end - 1) /\ t - begin = k /\ t # end
    <3> HIDE DEF begin, end
    <3> QED  BY <1>8, <2>1
  <2>3. Lookup(t) = stream.start[t - begin]  BY <2>2, LookupFinds
  <2> QED  BY <1>8, <2>2, <2>3
<1>10. stream.start[k] \in Nat  BY <1>2, <1>3
<1>11. stream.start[k] # nullptr  BY <1>10 DEF nullptr
<1> QED  BY <1>2, <1>3, <1>5, <1>7, <1>9, <1>11 DEF At, GetFirstTypeIndex

-----------------------------------------------------------------------------
(* What is asked of the table.                                             *)

\* ExampleTypes is at a record.
ListIsWalked ==
  pc # "walk" /\ record < GetTypeRecordCount /\ example = "ExampleTypes"

\* The loops over the records, and the references still to go through: all of them
\* are to records in front of the one the loop is at, or to built-in types.
Pending ==
  /\ record \in 0 .. GetTypeRecordCount
  /\ list # NoList => ListIsWalked
  /\ pc = "walk" => pending = <<>>
  /\ pending \in Seq(ReferencesInFront(stream, record))

\* The last call of GetTypeRecord, with a complete table.
Asked ==
  asked # NotAsked => pc # "walk" /\ asked \in Nat /\ answer = Lookup(asked)

LEMMA CountIsNatural ==
  ASSUME Walking
  PROVE  /\ GetTypeRecordCount \in Nat
         /\ GetTypeRecordCount = stream.typeIndexEnd - stream.typeIndexBegin
         /\ GetFirstTypeIndex = stream.typeIndexBegin /\ GetFirstTypeIndex \in Nat \ {0}
         /\ stream.typeIndexEnd \in Nat
         /\ stream \in TPIStreams /\ DOMAIN stream.content = 0 .. (GetTypeRecordCount - 1)
  BY TPIStreamShape DEF Walking, GetTypeRecordCount, GetFirstTypeIndex, GetLastTypeIndex

\* The record a loop over the records is at.
LEMMA RecordAtHand ==
  ASSUME Walking, pc # "walk", record \in 0 .. (GetTypeRecordCount - 1)
  PROVE  /\ Record = stream.content[record]
         /\ References(Record) \in Seq(ReferencesInFront(stream, record))
         /\ Record.kind \in Definitions => Record.field \in Nat
         /\ Record.kind = "LF_MFUNCTION" => Record.classtype \in Nat
<1>1. /\ record \in DOMAIN stream.content /\ stream \in TPIStreams
      /\ Record = stream.content[record]
  BY PointerLeadsToRecord, CountIsNatural DEF Record
<1>2. IndicesOf(stream.content[record]) \subseteq 0 .. (stream.typeIndexBegin + record - 1)
  BY <1>1, ContentAssumption DEF IsContent
<1>3. Record.kind \in Definitions => Record.field \in Nat
  <2>1. SUFFICES ASSUME Record.kind \in Definitions PROVE Record.field \in Nat  OBVIOUS
  <2>2. Record.field \in IndicesOf(Record)
    BY <2>1 DEF IndicesOf, Definitions, Functions
  <2> QED  BY <1>1, <1>2, <2>2
<1>4. Record.kind = "LF_MFUNCTION" => Record.classtype \in Nat
  <2>1. SUFFICES ASSUME Record.kind = "LF_MFUNCTION" PROVE Record.classtype \in Nat  OBVIOUS
  <2>2. Record.classtype \in IndicesOf(Record)
    BY <2>1 DEF IndicesOf, Definitions, Functions
  <2> QED  BY <1>1, <1>2, <2>2
<1> QED  BY <1>1, <1>3, <1>4, ReferencesStayInFront

\* The reference that is gone through next.
LEMMA NextReference ==
  ASSUME Walking, Pending, pending # <<>>
  PROVE  /\ pc # "walk" /\ Head(pending).to \in Nat
         /\ Head(pending).to < GetFirstTypeIndex + record
         /\ Head(pending).through => Head(pending).to >= GetFirstTypeIndex
         /\ Tail(pending) \in Seq(ReferencesInFront(stream, record))
<1>1. /\ pending \in Seq(ReferencesInFront(stream, record)) /\ pc # "walk"
      /\ record \in Nat /\ stream \in TPIStreams /\ GetFirstTypeIndex = stream.typeIndexBegin
      /\ GetFirstTypeIndex \in Nat
  BY CountIsNatural DEF Pending
<1>2. /\ Head(pending) \in ReferencesInFront(stream, record)
      /\ Tail(pending) \in Seq(ReferencesInFront(stream, record))
  BY <1>1
<1>3. /\ Head(pending).to \in 0 .. (stream.typeIndexBegin + record - 1)
      /\ Head(pending).through =>
           Head(pending).to \in stream.typeIndexBegin .. (stream.typeIndexBegin + record - 1)
  BY <1>1, <1>2, ReferenceFields
<1>4. Head(pending).to \in Nat /\ Head(pending).to < GetFirstTypeIndex + record
  BY <1>1, <1>3
<1>5. Head(pending).through => Head(pending).to >= GetFirstTypeIndex
  <2>1. SUFFICES ASSUME Head(pending).through PROVE Head(pending).to >= GetFirstTypeIndex
    OBVIOUS
  <2>2. Head(pending).to \in stream.typeIndexBegin .. (stream.typeIndexBegin + record - 1)
    BY <1>3, <2>1
  <2> QED  BY <1>1, <2>2
<1> QED  BY <1>1, <1>2, <1>4, <1>5

\* The record that has a reference to it, and what it refers to in turn.
LEMMA ReferencedRecord ==
  ASSUME Walking, Pending, pending # <<>>, Head(pending).to >= GetFirstTypeIndex
  PROVE  LET k == Head(pending).to - GetFirstTypeIndex
         IN  /\ k \in 0 .. (GetTypeRecordCount - 1) /\ k < record
             /\ At(Lookup(Head(pending).to)) = stream.content[k]
             /\ References(At(Lookup(Head(pending).to))) \in Seq(ReferencesInFront(stream, record))
<1> DEFINE k == Head(pending).to - GetFirstTypeIndex
<1>1. /\ pc # "walk" /\ Head(pending).to \in Nat
      /\ Head(pending).to < GetFirstTypeIndex + record
      /\ record \in 0 .. GetTypeRecordCount
  BY NextReference DEF Pending
<1>2. GetTypeRecordCount \in Nat /\ GetFirstTypeIndex \in Nat /\ stream \in TPIStreams
  BY CountIsNatural
<1>3. k \in 0 .. (GetTypeRecordCount - 1) /\ k < record /\ k \in Nat
        /\ Head(pending).to = GetFirstTypeIndex + k
  BY <1>1, <1>2
<1> HIDE DEF k
<1>4. At(Lookup(GetFirstTypeIndex + k)) = stream.content[k] /\ k \in DOMAIN stream.content
  BY <1>1, <1>3, PointerLeadsToRecord
<1>5. References(stream.content[k]) \in Seq(ReferencesInFront(stream, record))
  BY <1>1, <1>2, <1>3, <1>4, ReferencesStayInFront, MoreInFront
<1> QED  BY <1>3, <1>4, <1>5 DEF k

LEMMA PendingInit == MainInit => Pending
<1> SUFFICES ASSUME MainInit PROVE Pending  OBVIOUS
<1>1. /\ stream \in TPIStreams /\ record = 0 /\ list = NoList /\ pending = <<>>
  BY FilesAssumption DEF MainInit, Init, DisplayInit
<1>2. GetTypeRecordCount \in Nat  BY WalkingInit, CountIsNatural
<1> QED  BY <1>1, <1>2 DEF Pending

\* The loops go on by one record, and none of the references before gets lost.
LEMMA NextRecordPending ==
  ASSUME Walking, Pending, record < GetTypeRecordCount, record' = record + 1,
         UNCHANGED <<stream, pc>>, pc # "walk", list' = NoList,
         pending' \in Seq(ReferencesInFront(stream, record + 1))
  PROVE  Pending'
<1>1. record \in 0 .. GetTypeRecordCount  BY DEF Pending
<1>2. record + 1 \in 0 .. GetTypeRecordCount  BY <1>1, CountIsNatural
<1>3. GetTypeRecordCount' = GetTypeRecordCount
  BY DEF GetTypeRecordCount, GetFirstTypeIndex, GetLastTypeIndex
<1>4. ReferencesInFront(stream, record)' = ReferencesInFront(stream, record + 1)
  BY DEF ReferencesInFront
<1> QED  BY <1>2, <1>3, <1>4 DEF Pending

\* The loops stay where they are.
LEMMA SameRecordPending ==
  ASSUME Pending, UNCHANGED <<stream, record>>,
         list' # NoList => pc' # "walk" /\ record < GetTypeRecordCount /\ example' = "ExampleTypes",
         pc' = "walk" => pending' = <<>>,
         pending' \in Seq(ReferencesInFront(stream, record))
  PROVE  Pending'
<1>1. GetTypeRecordCount' = GetTypeRecordCount
  BY DEF GetTypeRecordCount, GetFirstTypeIndex, GetLastTypeIndex
<1>2. ReferencesInFront(stream, record)' = ReferencesInFront(stream, record)
  BY DEF ReferencesInFront
<1> QED  BY <1>1, <1>2 DEF Pending, ListIsWalked

LEMMA PendingStep ==
  ASSUME Walking, Pending, [MainNext]_<<vars, ipiVars>>
  PROVE  Pending'
<1> USE DEF tableVars, displayVars, vars, typeVars, sizeVars
<1>1. /\ stream \in TPIStreams /\ record \in 0 .. GetTypeRecordCount /\ GetTypeRecordCount \in Nat
      /\ pending \in Seq(ReferencesInFront(stream, record))
      /\ list # NoList =>
           pc # "walk" /\ record < GetTypeRecordCount /\ example = "ExampleTypes"
      /\ pc = "walk" => pending = <<>>
  BY CountIsNatural DEF Pending, ListIsWalked
<1>2. Seq(ReferencesInFront(stream, record)) \subseteq Seq(ReferencesInFront(stream, record + 1))
  BY <1>1, MoreInFront
<1>3. CASE CreateIPIStream \/ IPIExample \/ UNCHANGED <<vars, ipiVars>>
  <2>1. UNCHANGED <<stream, record, list, pc, pending, example>>
    BY <1>3 DEF CreateIPIStream, IPIExample
  <2> QED  BY <1>1, <2>1, SameRecordPending
<1>4. CASE Construct
  <2>1. UNCHANGED <<stream, record, list, pending, example>> /\ (pc' = pc \/ pc' = "ready")
    BY <1>4 DEF Construct, ConstructorStep, Callback, FinishConstruction
  <2> QED  BY <1>1, <2>1, SameRecordPending
<1>5. CASE Display
  <2>1. UNCHANGED <<stream, pc, pending, example>> /\ example = "ExampleTypes"
    BY <1>5 DEF Display, DisplayStep, PassType, DisplayType, DisplayMember,
       DisplayNestedOrStatic, DisplayMethod, EnterMethodList, DisplayOverload, LeaveMethodList,
       PassField, DisplayEnumerate, FinishType, ToNextField
  <2>2. CASE PassType
    <3>1. pc # "walk" /\ record < GetTypeRecordCount /\ record' = record + 1 /\ list' = NoList
      BY <2>2 DEF PassType, AtNextType
    <3> QED  BY <1>1, <1>2, <2>1, <3>1, NextRecordPending
  <2>3. CASE DisplayType
    <3>1. pc # "walk" /\ record < GetTypeRecordCount /\ list = NoList
            /\ \/ record' = record + 1 /\ list' = list
               \/ record' = record
      BY <2>3 DEF DisplayType, AtNextType
    <3> QED  BY <1>1, <1>2, <2>1, <3>1, NextRecordPending, SameRecordPending
  <2>4. CASE FinishType
    <3>1. list # NoList /\ record' = record + 1 /\ list' = NoList
      BY <2>4 DEF FinishType
    <3> QED  BY <1>1, <1>2, <2>1, <3>1, NextRecordPending
  <2>5. CASE ~ (PassType \/ DisplayType \/ FinishType)
    <3>1. UNCHANGED <<record, list>>
      BY <1>5, <2>5 DEF Display, DisplayStep, DisplayMember,
         DisplayNestedOrStatic, DisplayMethod, EnterMethodList, DisplayOverload, LeaveMethodList,
         PassField, DisplayEnumerate, ToNextField
    <3> QED  BY <1>1, <2>1, <3>1, SameRecordPending
  <2> QED  BY <2>2, <2>3, <2>4, <2>5
<1>6. CASE TagDefinition \/ TagMemberFunction \/ PassRecord
  <2>1. /\ pc # "walk" /\ record < GetTypeRecordCount /\ pending = <<>> /\ record' = record + 1
        /\ UNCHANGED <<stream, pc, list, example>> /\ example = "ExampleTPISize"
    BY <1>6 DEF TagDefinition, TagMemberFunction, PassRecord, AtNextRecord
  <2>2. record \in 0 .. (GetTypeRecordCount - 1) /\ list' = NoList  BY <1>1, <2>1
  <2>3. CASE TagDefinition
    <3>1. pending' = References(Record)  BY <2>3 DEF TagDefinition
    <3>2. pending' \in Seq(ReferencesInFront(stream, record + 1))
      BY <1>2, <2>1, <2>2, <3>1, RecordAtHand
    <3> QED  BY <2>1, <2>2, <3>2, NextRecordPending
  <2>4. CASE TagMemberFunction
    <3>1. pending' = <<TagOf(GetFirstTypeIndex + record)>>
      BY <2>4 DEF TagMemberFunction, TagOf
    <3>2. /\ GetFirstTypeIndex + record \in 0 .. (stream.typeIndexBegin + (record + 1) - 1)
          /\ GetFirstTypeIndex = stream.typeIndexBegin
          /\ IsRecord(stream, GetFirstTypeIndex + record)
      BY <1>1, <2>1, CountIsNatural DEF IsRecord
    <3>3. stream.content[record].kind = "LF_MFUNCTION"
      BY <1>1, <2>1, <2>2, <2>4, RecordAtHand DEF TagMemberFunction
    <3>4. (GetFirstTypeIndex + record) - stream.typeIndexBegin = record
      BY <1>1, CountIsNatural
    <3>5. RecordOf(stream, GetFirstTypeIndex + record) = stream.content[record]
      BY <3>4, Zenon DEF RecordOf
    <3>6. KindOf(stream, GetFirstTypeIndex + record) = "LF_MFUNCTION"
      BY <3>2, <3>3, <3>5 DEF KindOf
    <3>7. TagOf(GetFirstTypeIndex + record) \in ReferencesInFront(stream, record + 1)
      BY <3>2, <3>6 DEF ReferencesInFront
    <3>8. pending' \in Seq(ReferencesInFront(stream, record + 1))
      BY <3>1, <3>7
    <3> QED  BY <2>1, <2>2, <3>8, NextRecordPending
  <2>5. CASE PassRecord
    <3>1. pending' \in Seq(ReferencesInFront(stream, record + 1))
      BY <1>1, <1>2, <2>5 DEF PassRecord
    <3> QED  BY <2>1, <2>2, <3>1, NextRecordPending
  <2> QED  BY <1>6, <2>3, <2>4, <2>5
<1>7. CASE PassBuiltIn \/ TagThrough \/ Tag
  <2>1. pending # <<>> /\ UNCHANGED <<stream, record, list, pc, example>>
    BY <1>7 DEF PassBuiltIn, TagThrough, Tag
  <2>2. /\ pc # "walk" /\ Tail(pending) \in Seq(ReferencesInFront(stream, record))
        /\ Head(pending).through => Head(pending).to >= GetFirstTypeIndex
    BY <2>1, NextReference
  <2>3. CASE pending' = Tail(pending)
    BY <1>1, <2>1, <2>2, <2>3, SameRecordPending
  <2>4. CASE TagThrough \/ (Tag /\ pending' # Tail(pending))
    <3>1. Head(pending).to >= GetFirstTypeIndex
      BY <2>2, <2>4 DEF TagThrough, Tag
    <3>2. \/ pending' = References(At(Lookup(Head(pending).to))) \o Tail(pending)
          \/ pending' = <<>> \o Tail(pending)
      <4>1. CASE TagThrough  BY <4>1 DEF TagThrough, GetTypeRecord
      <4>2. CASE Tag /\ pending' # Tail(pending)
        <5>1. /\ GetTypeRecord(Head(pending).to)
              /\ pending' = (IF At(answer').kind \in Followed THEN References(At(answer')) ELSE <<>>)
                              \o Tail(pending)
          BY <4>2 DEF Tag
        <5>2. answer' = Lookup(Head(pending).to)  BY <5>1 DEF GetTypeRecord
        <5> QED  BY <5>1, <5>2
      <4> QED  BY <2>4, <4>1, <4>2
    <3>3. References(At(Lookup(Head(pending).to))) \in Seq(ReferencesInFront(stream, record))
      BY <2>1, <3>1, ReferencedRecord
    <3>4. pending' \in Seq(ReferencesInFront(stream, record))
      <4>1. /\ Tail(pending) \in Seq(ReferencesInFront(stream, record))
            /\ <<>> \in Seq(ReferencesInFront(stream, record))
        BY <2>2
      <4>2. \A s1, s2 \in Seq(ReferencesInFront(stream, record)) :
              s1 \o s2 \in Seq(ReferencesInFront(stream, record))
        OBVIOUS
      <4> QED  BY <3>2, <3>3, <4>1, <4>2, Zenon
    <3> QED  BY <1>1, <2>1, <2>2, <3>4, SameRecordPending
  <2> QED
    BY <1>7, <2>3, <2>4 DEF PassBuiltIn
<1>8. CASE PrintRecords
  <2>1. UNCHANGED <<stream, record, list, pending, example>> /\ pc' # "walk"
    BY <1>8 DEF PrintRecords
  <2>2. list' = NoList
    BY <1>8, <2>1 DEF PrintRecords
  <2> QED  BY <1>1, <2>1, <2>2, SameRecordPending
<1> QED
  BY <1>3, <1>4, <1>5, <1>6, <1>7, <1>8 DEF MainNext, TypesExample, Next

\* What is asked for, if anything is asked in a step.
LEMMA AskingSteps ==
  ASSUME Walking, Pending, [MainNext]_<<vars, ipiVars>>
  PROVE  \/ UNCHANGED <<asked, answer>>
         \/ /\ pc # "walk" /\ UNCHANGED <<stream, pc, m_records>>
            /\ \E t \in Nat : GetTypeRecord(t)
<1> USE DEF tableVars, displayVars, vars, typeVars, sizeVars
<1>1. /\ record \in 0 .. GetTypeRecordCount /\ GetTypeRecordCount \in Nat
  BY CountIsNatural DEF Pending
<1>2. CASE CreateIPIStream \/ IPIExample \/ UNCHANGED <<vars, ipiVars>>
  BY <1>2 DEF CreateIPIStream, IPIExample
<1>3. CASE Construct
  BY <1>3 DEF Construct, ConstructorStep, Callback, FinishConstruction
<1>4. CASE Display /\ ~ DisplayType
  BY <1>4 DEF Display, DisplayStep, PassType, DisplayMember,
     DisplayNestedOrStatic, DisplayMethod, EnterMethodList, DisplayOverload, LeaveMethodList,
     PassField, DisplayEnumerate, FinishType, ToNextField
<1>5. CASE DisplayType
  <2>1. pc # "walk" /\ record < GetTypeRecordCount /\ UNCHANGED <<stream, pc, m_records>>
          /\ Record.kind \in Definitions /\ GetTypeRecord(Record.field)
    BY <1>5 DEF DisplayType, AtNextType, IsDisplayed
  <2>2. Record.field \in Nat  BY <1>1, <2>1, RecordAtHand
  <2> QED  BY <2>1, <2>2
<1>6. CASE TagMemberFunction
  <2>1. pc # "walk" /\ record < GetTypeRecordCount /\ Record.kind = "LF_MFUNCTION"
    BY <1>6 DEF TagMemberFunction, AtNextRecord
  <2>2. Record.classtype \in Nat  BY <1>1, <2>1, RecordAtHand
  <2> QED  BY <1>6, <2>1, <2>2 DEF TagMemberFunction
<1>7. CASE TagDefinition \/ PassRecord \/ PassBuiltIn \/ PrintRecords
  BY <1>7 DEF TagDefinition, PassRecord, PassBuiltIn, PrintRecords
<1>8. CASE TagThrough \/ Tag
  <2>1. pending # <<>> /\ UNCHANGED <<stream, pc, m_records>>
    BY <1>8 DEF TagThrough, Tag
  <2>2. pc # "walk" /\ Head(pending).to \in Nat  BY <2>1, NextReference
  <2>3. UNCHANGED <<asked, answer>> \/ GetTypeRecord(Head(pending).to)
    BY <1>8 DEF TagThrough, Tag
  <2> QED  BY <2>1, <2>2, <2>3
<1> QED
  BY <1>2, <1>3, <1>4, <1>5, <1>6, <1>7, <1>8 DEF MainNext, TypesExample, Next, Display

LEMMA AskedStep ==
  ASSUME Walking, Pending, Asked, [MainNext]_<<vars, ipiVars>>
  PROVE  Asked'
<1> USE DEF Asked, Lookup, RecordAt, GetFirstTypeIndex, GetLastTypeIndex
<1>1. CASE UNCHANGED <<asked, answer>>
  <2>1. CASE Callback \/ FinishConstruction
    BY <1>1, <2>1 DEF Callback, FinishConstruction
  <2>2. CASE /\ UNCHANGED <<stream, offset, typeIndex, m_records>>
             /\ pc' = pc \/ (pc = "ready" /\ pc' = "printed")
    BY <1>1, <2>2
  <2> QED  BY <2>1, <2>2, TableSteps
<1>2. CASE /\ pc # "walk" /\ UNCHANGED <<stream, pc, m_records>>
           /\ \E t \in Nat : GetTypeRecord(t)
  BY <1>2 DEF GetTypeRecord
<1> QED  BY <1>1, <1>2, AskingSteps

LEMMA AskedInit == MainInit => Asked
  BY DEF MainInit, Init, TableInit, Asked

\* The references that are gone through lead to records in front of those they were
\* found in, so that every one of them has a record or is to a built-in type.
THEOREM ReferencesLeadToRecords == MainSpec => [](Pending /\ Asked)
  BY PendingInit, PendingStep, AskedInit, AskedStep, TableIsInStep, PTL DEF MainSpec

\* Whichever example asks, and in whatever record it found the type index, the table
\* gives the record the linker wrote with that index.
THEOREM TypeIndicesNameRecords == MainSpec => []TypeIndexNamesRecord
<1>1. Walking /\ Asked => TypeIndexNamesRecord
  <2>1. SUFFICES ASSUME Walking, Asked, asked \notin {NotAsked, stream.typeIndexEnd}
                 PROVE  answer = IF asked \in stream.typeIndexBegin .. (stream.typeIndexEnd - 1)
                                   THEN stream.start[asked - stream.typeIndexBegin]
                                   ELSE nullptr
    BY DEF TypeIndexNamesRecord
  <2>2. pc # "walk" /\ asked \in Nat /\ answer = Lookup(asked)  BY <2>1 DEF Asked
  <2> QED  BY <2>1, <2>2, LookupFinds
<1> QED  BY <1>1, TableIsInStep, ReferencesLeadToRecords, PTL

-----------------------------------------------------------------------------
(* How often references are followed.                                      *)

\* What a record's name says of the number of times it was followed: a first change
\* gives it a name, a second one the mark.  Behind the loop no record has either.
FollowedAsNamed ==
  /\ DOMAIN names = 0 .. (GetTypeRecordCount - 1)
  /\ followed \in [0 .. (GetTypeRecordCount - 1) -> Nat]
  /\ \A k \in 0 .. (GetTypeRecordCount - 1) :
       /\ followed[k] <= 2
       /\ names[k] # MultipleReferences => followed[k] <= 1
       /\ names[k] = NoName => followed[k] = 0
       /\ record <= k => names[k] = NoName

LEMMA FollowedInit == MainInit => FollowedAsNamed
  BY DEF MainInit, Init, FollowedAsNamed, GetTypeRecordCount, MultipleReferences, NoName

LEMMA FollowedStep ==
  ASSUME Walking, Pending, FollowedAsNamed, [MainNext]_<<vars, ipiVars>>
  PROVE  FollowedAsNamed'
<1> USE DEF tableVars, displayVars, vars, typeVars, sizeVars
<1>1. /\ record \in 0 .. GetTypeRecordCount /\ GetTypeRecordCount \in Nat
  BY CountIsNatural DEF Pending
<1>2. stream' = stream /\ GetTypeRecordCount' = GetTypeRecordCount
  BY TableSteps DEF Callback, FinishConstruction, GetTypeRecordCount, GetFirstTypeIndex,
                    GetLastTypeIndex
<1>3. CASE UNCHANGED <<names, followed>> /\ record' \in {record, record + 1}
  BY <1>1, <1>2, <1>3 DEF FollowedAsNamed
<1>4. CASE TagDefinition
  <2>1. record < GetTypeRecordCount /\ record' = record + 1 /\ followed' = followed
          /\ names' = [names EXCEPT ![record] = TypeTitle]
    BY <1>4 DEF TagDefinition, AtNextRecord
  <2>2. followed[record] = 0  BY <1>1, <2>1 DEF FollowedAsNamed
  <2> QED  BY <1>1, <1>2, <2>1, <2>2 DEF FollowedAsNamed
<1>5. CASE TagThrough \/ Tag
  <2> DEFINE k == Head(pending).to - GetFirstTypeIndex
  <2>1. pending # <<>> /\ record' = record
    BY <1>5 DEF TagThrough, Tag
  <2>2. Head(pending).to >= GetFirstTypeIndex
    BY <1>5, <2>1, NextReference DEF TagThrough, Tag
  <2>3. k \in 0 .. (GetTypeRecordCount - 1) /\ k < record
    BY <2>1, <2>2, ReferencedRecord
  <2>4. names' = [names EXCEPT ![k] = IF @ = NoName THEN name ELSE MultipleReferences]
    BY <1>5 DEF TagThrough, Tag, SetName
  <2>5. \/ followed' = followed
        \/ names'[k] # names[k] /\ followed' = [followed EXCEPT ![k] = @ + 1]
    BY <1>5 DEF TagThrough, Tag, Changed
  <2> HIDE DEF k
  <2>6. /\ DOMAIN names' = 0 .. (GetTypeRecordCount - 1)
        /\ followed' \in [0 .. (GetTypeRecordCount - 1) -> Nat]
    BY <2>3, <2>4, <2>5 DEF FollowedAsNamed
  <2>7. ASSUME NEW l \in 0 .. (GetTypeRecordCount - 1), l # k
        PROVE  names'[l] = names[l] /\ followed'[l] = followed[l]
    BY <2>4, <2>5, <2>7 DEF FollowedAsNamed
  <2>8. /\ followed'[k] <= 2
        /\ names'[k] # MultipleReferences => followed'[k] <= 1
        /\ names'[k] = NoName => followed'[k] = 0
    <3>1. /\ followed[k] \in Nat /\ followed[k] <= 2
          /\ names[k] # MultipleReferences => followed[k] <= 1
          /\ names[k] = NoName => followed[k] = 0
      BY <2>3 DEF FollowedAsNamed
    <3>2. names'[k] = IF names[k] = NoName THEN name ELSE MultipleReferences
      BY <2>3, <2>4 DEF FollowedAsNamed
    <3>3. \/ followed'[k] = followed[k]
          \/ names'[k] # names[k] /\ followed'[k] = followed[k] + 1
      BY <2>3, <2>5 DEF FollowedAsNamed
    <3>4. MultipleReferences # NoName  BY DEF MultipleReferences, NoName
    <3> QED  BY <3>1, <3>2, <3>3, <3>4
  <2>9. ASSUME NEW l \in 0 .. (GetTypeRecordCount - 1)
        PROVE  /\ followed'[l] <= 2
               /\ names'[l] # MultipleReferences => followed'[l] <= 1
               /\ names'[l] = NoName => followed'[l] = 0
               /\ record' <= l => names'[l] = NoName
    <3>1. CASE l = k
      <4>1. ~ (record' <= k)  BY <1>1, <2>1, <2>3
      <4> QED  BY <2>8, <3>1, <4>1
    <3>2. CASE l # k
      <4>1. names'[l] = names[l] /\ followed'[l] = followed[l]  BY <2>7, <3>2
      <4> QED  BY <2>1, <4>1 DEF FollowedAsNamed
    <3> QED  BY <3>1, <3>2
  <2> QED  BY <1>2, <2>6, <2>9 DEF FollowedAsNamed
<1>6. CASE /\ [MainNext]_<<vars, ipiVars>>
           /\ ~ (TagDefinition \/ TagThrough \/ Tag)
  <2>1. UNCHANGED <<names, followed>>
    BY <1>6 DEF CreateIPIStream, IPIExample, MainNext, TypesExample, Next, Construct, Display,
                TagMemberFunction, PassRecord, PassBuiltIn, PrintRecords
  <2>2. record' \in {record, record + 1}
    <3>1. CASE Display
      BY <3>1 DEF Display, DisplayStep,
         PassType, DisplayType, DisplayMember, DisplayNestedOrStatic, DisplayMethod,
         EnterMethodList, DisplayOverload, LeaveMethodList, PassField, DisplayEnumerate,
         FinishType, ToNextField
    <3>2. CASE Construct \/ TagMemberFunction \/ PassRecord \/ PassBuiltIn \/ PrintRecords
      BY <3>2 DEF Construct, TagMemberFunction, PassRecord, PassBuiltIn, PrintRecords
    <3>3. CASE CreateIPIStream \/ IPIExample \/ UNCHANGED <<vars, ipiVars>>
      BY <3>3 DEF CreateIPIStream, IPIExample
    <3> QED  BY <1>6, <3>1, <3>2, <3>3 DEF MainNext, TypesExample, Next
  <2> QED  BY <1>3, <2>1, <2>2
<1> QED  BY <1>4, <1>5, <1>6

\* No record is followed because its name changed more than twice, however many paths
\* lead to it: setNameGlobal reports a change only for the first two.
THEOREM FollowedTwice == MainSpec => []FollowedTwiceAtMost
<1>1. FollowedAsNamed => FollowedTwiceAtMost
  BY DEF FollowedAsNamed, FollowedTwiceAtMost
<1> QED
  BY <1>1, FollowedInit, FollowedStep, TableIsInStep, ReferencesLeadToRecords, PTL DEF MainSpec

-----------------------------------------------------------------------------
(* The walk over a list of fields.                                         *)

\* The numbers in virtual bases have no kind in front of them.
IsNear(field) ==
  field.kind \in VirtualBases =>
    field.leaf = "below LF_NUMERIC" /\ field.vbtableLeaf = "below LF_NUMERIC"

\* From the start of a field a loop goes on at the field's end.
LEMMA NextIsEnd ==
  ASSUME NEW r, IsFieldList(r), \A f \in Range(r.fields) : IsNear(f), NEW k \in DOMAIN r.fields,
         r.at[k] % 4 = 0
  PROVE  NextOffset(r, r.at[k]) = FieldEnd(r, k) /\ FieldEnd(r, k) % 4 = 0
<1> DEFINE f == r.fields[k]
           start == r.at[k]
           size == r.size
           length == FieldLength(f)
<1>0. IsNear(f)
  <2>1. f \in Range(r.fields)  BY DEF Range
  <2> QED  BY <2>1
<1>1. /\ IsField(f) /\ IsNear(f) /\ FieldAt(r, start) = f
      /\ start \in Nat /\ size \in Nat /\ length \in Nat
      /\ FieldEnd(r, k) = start + RoundUp4(length)
      /\ start + length <= size
  <2>1. k \in 1 .. Len(r.fields) /\ r.at \in [1 .. Len(r.fields) -> Nat]  BY FieldsInOrder
  <2>2. /\ start \in Nat /\ size \in Nat /\ length \in Nat /\ FieldEnd(r, k) \in Nat
        /\ start + length <= FieldEnd(r, k) /\ FieldEnd(r, k) <= size
    BY <2>1, FieldsInOrder
  <2>3. start + length <= size
    <3> HIDE DEF start, size, length
    <3> QED  BY <2>2
  <2> QED  BY <1>0, <2>1, <2>2, <2>3, FieldsInOrder, FieldIsFound
<1>2. start % 4 = 0  OBVIOUS
<1>3. FieldAt(r, r.at[k]) = f  BY <1>1
<1> HIDE DEF f, start, size, length
<1>4. FieldEnd(r, k) = RoundUp4(start + length) /\ FieldEnd(r, k) % 4 = 0
  BY <1>1, <1>2, PaddingFrom
<1>5. CASE f.kind \in VirtualBases
  <2>1. GetLeafSize(f.leaf) = 2 /\ GetLeafSize(f.vbtableLeaf) = 2
    <3>1. f.leaf = "below LF_NUMERIC" /\ f.vbtableLeaf = "below LF_NUMERIC"
      BY <1>1, <1>5 DEF IsNear
    <3>2. GetLeafSize("below LF_NUMERIC") = 2  BY DEF GetLeafSize, SizeOfRecordKind
    <3> QED  BY <3>1, <3>2, Zenon
  <2>2. NextOffset(r, start) = RoundUp4(start + 10 + GetLeafSize(f.leaf) + GetLeafSize(f.vbtableLeaf))
    BY <1>1, <1>5 DEF NextOffset, VirtualBases
  <2>3. length = 16  BY <1>1, <1>5, <2>1, FieldLengths DEF length
  <2>4. start + 10 + 2 + 2 = start + 14  BY <1>1
  <2>5. RoundUp4(start + 14) = start + 16
    <3>1. RoundUp4(start + 14) = start + RoundUp4(14)  BY <1>1, <1>2, PaddingFrom
    <3> QED  BY <3>1 DEF RoundUp4
  <2>6. RoundUp4(start + 16) = start + 16
    <3>1. RoundUp4(start + 16) = start + RoundUp4(16)  BY <1>1, <1>2, PaddingFrom
    <3> QED  BY <3>1 DEF RoundUp4
  <2>7. NextOffset(r, start) = start + 16  BY <2>1, <2>2, <2>4, <2>5
  <2> QED  BY <1>4, <2>3, <2>6, <2>7 DEF start
<1>6. CASE f.kind \in {"LF_INDEX", "LF_VFUNCTAB"}
  <2>1. length = 8  BY <1>1, <1>6, FieldLengths DEF length
  <2>2. NextOffset(r, start) = RoundUp4(start + 6)
    BY <1>1, <1>6 DEF NextOffset, VirtualBases
  <2>3. RoundUp4(start + 6) = RoundUp4(start + 8)
    <3>1. RoundUp4(start + 6) = start + RoundUp4(6) /\ RoundUp4(start + 8) = start + RoundUp4(8)
      BY <1>1, <1>2, PaddingFrom
    <3>2. RoundUp4(6) = 8 /\ RoundUp4(8) = 8  BY DEF RoundUp4
    <3> QED  BY <3>1, <3>2
  <2> QED  BY <1>4, <2>1, <2>2, <2>3 DEF start
<1>7. CASE f.kind = "LF_BCLASS"
  <2>1. length = NameOffset(f)  BY <1>1, <1>7, FieldLengths DEF length
  <2>2. NextOffset(r, start) = RoundUp4(start + NameOffset(f))
    BY <1>1, <1>7 DEF NextOffset, VirtualBases
  <2> QED  BY <1>4, <2>1, <2>2 DEF start
<1>8. CASE f.kind \notin NamelessFields
  <2>1. /\ f.length \in Nat /\ NameOffset(f) \in Nat
        /\ length = NameOffset(f) + f.length + 1
    BY <1>1, <1>8, FieldLengths DEF length
  <2>2. NextOffset(r, start) =
          RoundUp4(start + NameOffset(f) + Min({f.length, size - (start + NameOffset(f)) - 1}) + 1)
    BY <1>1, <1>8 DEF NextOffset, VirtualBases, NamelessFields, size
  <2>3. PICK n \in Nat, o \in Nat : n = f.length /\ o = NameOffset(f)  BY <2>1
  <2>4. PICK rest \in Nat : rest = size - (start + o) - 1 /\ n <= rest
    BY <1>1, <2>1, <2>3
  <2>5. Min({n, rest}) = n  BY <2>4, MinOfTwo
  <2>6. start + o + n + 1 = start + length  BY <1>1, <2>1, <2>3
  <2>7. NextOffset(r, start) = RoundUp4(start + o + Min({n, rest}) + 1)
    BY <2>2, <2>3, <2>4
  <2> QED  BY <1>4, <2>5, <2>6, <2>7 DEF start
<1> QED  BY <1>1, <1>5, <1>6, <1>7, <1>8 DEF NamelessFields

\* In a list of enumerators it makes no difference that the loop looks at no kind.
LEMMA EnumerateIsNext ==
  ASSUME NEW r, IsFieldList(r), NEW k \in DOMAIN r.fields, r.at[k] % 4 = 0,
         IsEnumerated(r.fields[k])
  PROVE  NextEnumerate(r, r.at[k]) = NextOffset(r, r.at[k])
<1> DEFINE f == r.fields[k]
           start == r.at[k]
           size == r.size
<1>1. /\ IsField(f) /\ FieldAt(r, start) = f /\ start \in Nat /\ size \in Nat
      /\ FieldLength(f) \in Nat /\ start + FieldLength(f) <= size
  <2>1. k \in 1 .. Len(r.fields) /\ r.at \in [1 .. Len(r.fields) -> Nat]  BY FieldsInOrder
  <2>2. /\ IsField(f) /\ start \in Nat /\ size \in Nat /\ FieldLength(f) \in Nat
        /\ FieldEnd(r, k) \in Nat
        /\ start + FieldLength(f) <= FieldEnd(r, k) /\ FieldEnd(r, k) <= size
    BY <2>1, FieldsInOrder
  <2>3. start + FieldLength(f) <= size
    <3> HIDE DEF start, size, f
    <3> QED  BY <2>2
  <2> QED  BY <2>2, <2>3, FieldIsFound
<1>2. start % 4 = 0  OBVIOUS
<1> HIDE DEF f, start, size
<1>3. CASE f.kind = "LF_ENUMERATE"
  <2>1. PICK g \in Nat : g = GetLeafSize(f.leaf)
    <3>1. f.leaf \in NumericLeaves  BY <1>1, <1>3 DEF IsField
    <3> QED  BY <3>1, LeafSizes
  <2>2. NextEnumerate(r, start) =
          RoundUp4(start + 4 + g + Min({f.length, size - (start + 4 + g) - 1}) + 1)
    BY <1>1, <1>3, <2>1 DEF NextEnumerate, AsEnumerate, size
  <2>3. NextOffset(r, start) =
          RoundUp4(start + (4 + g) + Min({f.length, size - (start + (4 + g)) - 1}) + 1)
    BY <1>1, <1>3, <2>1 DEF NextOffset, NameOffset, VirtualBases, size
  <2>4. start + 4 + g = start + (4 + g)  BY <1>1
  <2> QED  BY <2>2, <2>3, <2>4 DEF start
<1>4. CASE f.kind = "LF_INDEX"
  <2>1. GetLeafSize("below LF_NUMERIC") = 2  BY DEF GetLeafSize, SizeOfRecordKind
  <2>2. NextEnumerate(r, start) =
          RoundUp4(start + 4 + 2 + Min({0, size - (start + 4 + 2) - 1}) + 1)
    BY <1>1, <1>4, <2>1 DEF NextEnumerate, AsEnumerate, size
  <2>3. PICK rest \in Nat : rest = size - (start + 4 + 2) - 1
    <3>1. FieldLength(f) = 8  BY <1>1, <1>4, FieldLengths
    <3>2. size - (start + 4 + 2) - 1 \in Nat  BY <1>1, <3>1
    <3> QED  BY <3>2
  <2>4. Min({0, rest}) = 0  BY <2>3, MinOfTwo
  <2>5. start + 4 + 2 + 0 + 1 = start + 7  BY <1>1
  <2>6. NextEnumerate(r, start) = RoundUp4(start + 7)  BY <2>2, <2>3, <2>4, <2>5
  <2>7. NextOffset(r, start) = RoundUp4(start + 6)
    BY <1>1, <1>4 DEF NextOffset, VirtualBases
  <2>8. RoundUp4(start + 6) = RoundUp4(start + 7)
    <3>1. RoundUp4(start + 6) = start + RoundUp4(6) /\ RoundUp4(start + 7) = start + RoundUp4(7)
      BY <1>1, <1>2, PaddingFrom
    <3>2. RoundUp4(6) = 8 /\ RoundUp4(7) = 8  BY DEF RoundUp4
    <3> QED  BY <3>1, <3>2
  <2> QED  BY <2>6, <2>7, <2>8 DEF start
<1> QED  BY <1>3, <1>4 DEF IsEnumerated, f

\* The overloads of a list lie one behind the other.
LEMMA EntryIsFound ==
  ASSUME NEW r, IsMethodList(r), NEW k \in DOMAIN r.entries
  PROVE  /\ Len(r.entries) \in Nat /\ DOMAIN r.entries = 1 .. Len(r.entries)
         /\ r.at[1] = 0
         /\ EntryAt(r, r.at[k]) = r.entries[k]
         /\ k < Len(r.entries) => r.at[k + 1] = r.at[k] + EntrySize(r.entries[k])
<1> DEFINE count == Len(r.entries)
<1>1. /\ r.entries \in Seq(Range(r.entries)) /\ r.at \in [1 .. count -> Nat]
      /\ count > 0 => r.at[1] = 0
  BY DEF IsMethodList
<1>2. count \in Nat /\ DOMAIN r.entries = 1 .. count  BY <1>1
<1>3. k \in 1 .. count /\ count > 0  BY <1>2
<1>4. \A l \in 1 .. (count - 1) : r.at[l + 1] = r.at[l] + EntrySize(r.entries[l])
  <2> SUFFICES ASSUME NEW l \in 1 .. (count - 1)
               PROVE  r.at[l + 1] = r.at[l] + EntrySize(r.entries[l])
    OBVIOUS
  <2>1. r.at[l + 1] = r.at[l] + (8 + (IF r.entries[l].mprop \in Intro THEN 4 ELSE 0))
    BY DEF IsMethodList
  <2>2. EntrySize(r.entries[l]) = 8 + (IF r.entries[l].mprop \in Intro THEN 4 ELSE 0)
    BY DEF EntrySize
  <2> QED  BY <2>1, <2>2
<1>5. \A l \in 1 .. (count - 1) : r.at[l] < r.at[l + 1]
  <2> SUFFICES ASSUME NEW l \in 1 .. (count - 1) PROVE r.at[l] < r.at[l + 1]  OBVIOUS
  <2>1. EntrySize(r.entries[l]) \in {8, 12}  BY DEF EntrySize
  <2>2. r.at[l] \in Nat  BY <1>1, <1>2
  <2>3. PICK n \in Nat : n = EntrySize(r.entries[l]) /\ n > 0  BY <2>1
  <2>4. r.at[l + 1] = r.at[l] + n  BY <1>4, <2>3
  <2> QED  BY <2>2, <2>3, <2>4
<1>6. \A l, m \in 1 .. count : l < m => r.at[l] < r.at[m]
  <2> HIDE DEF count
  <2> QED  BY <1>1, <1>2, <1>5, StartsInOrder
<1>7. ASSUME NEW l \in DOMAIN r.entries, r.at[l] = r.at[k] PROVE l = k
  <2>1. l \in 1 .. count /\ r.at[l] \in Nat /\ r.at[k] \in Nat  BY <1>1, <1>2, <1>3
  <2>2. ~ (l < k) /\ ~ (k < l)  BY <1>3, <1>6, <1>7, <2>1
  <2> QED  BY <1>2, <1>3, <2>1, <2>2
<1>8. EntryAt(r, r.at[k]) = r.entries[k]  BY <1>7 DEF EntryAt
<1>9. k < count => k \in 1 .. (count - 1)  BY <1>2, <1>3
<1> QED  BY <1>1, <1>2, <1>3, <1>4, <1>8, <1>9

\* No virtual base is 32 KiB or more into its object: a number with a kind in front of
\* it would be one the loops do not get over.
VirtualBasesAreNear ==
  \A s \in TPIStreams : \A k \in DOMAIN s.content :
    s.content[k].kind = "LF_FIELDLIST" => \A f \in Range(s.content[k].fields) : IsNear(f)

\* The list displayed is one of fields, the loop is at the start of one or at the end of
\* the list, and the loop in it is at the start of an overload or at their end.
FieldsFit ==
  \A f \in Range(Fields.fields) :
    IF InEnumeration THEN IsEnumerated(f) ELSE f.kind # "LF_ENUMERATE"

Displaying ==
  /\ list # NoList =>
       /\ KindOf(stream, list) = "LF_FIELDLIST"
       /\ i % 4 = 0
       /\ i = Fields.size \/ \E k \in DOMAIN Fields.fields : i = Fields.at[k]
       /\ FieldsFit
  /\ j # NotInMethod =>
       /\ list # NoList /\ ~ InEnumeration
       /\ \E k \in DOMAIN Fields.fields : i = Fields.at[k] /\ Fields.fields[k].kind = "LF_METHOD"
       /\ j \in 0 .. Len(MethodList.entries)
       /\ j < Len(MethodList.entries) => offsetInMethodList = MethodList.at[j + 1]

LEMMA RecordOfKind ==
  ASSUME NEW s \in TPIStreams, NEW t, KindOf(s, t) # "built-in"
  PROVE  /\ t \in s.typeIndexBegin .. (s.typeIndexEnd - 1)
         /\ t - s.typeIndexBegin \in DOMAIN s.content
         /\ RecordOf(s, t) = s.content[t - s.typeIndexBegin]
         /\ RecordOf(s, t).kind = KindOf(s, t)
<1>1. t \in s.typeIndexBegin .. (s.typeIndexEnd - 1) /\ RecordOf(s, t).kind = KindOf(s, t)
  BY DEF KindOf, IsRecord
<1>2. t - s.typeIndexBegin \in 0 .. (s.typeIndexEnd - s.typeIndexBegin - 1)
  BY <1>1, TPIStreamShape
<1> QED  BY <1>1, <1>2, TPIStreamShape DEF RecordOf

\* The list displayed, its size and those of the overloads it leads to.
LEMMA ListAtHand ==
  ASSUME VirtualBasesAreNear, Walking, KindOf(stream, list) = "LF_FIELDLIST"
  PROVE  /\ IsFieldList(Fields) /\ \A f \in Range(Fields.fields) : IsNear(f)
         /\ MaximumSize = Fields.size
         /\ \A k \in DOMAIN Fields.fields :
              Fields.fields[k].kind = "LF_METHOD" =>
                IsMethodList(RecordOf(stream, Fields.fields[k].index))
<1> DEFINE k == list - stream.typeIndexBegin
<1>1. stream \in TPIStreams /\ GetFirstTypeIndex = stream.typeIndexBegin
  BY CountIsNatural
<1>2. /\ k \in DOMAIN stream.content /\ Fields = stream.content[k]
      /\ stream.content[k].kind = "LF_FIELDLIST"
  BY <1>1, RecordOfKind DEF Fields
<1>3. IsContent(stream)  BY <1>1, ContentAssumption
<1>4. /\ IsFieldList(stream.content[k])
      /\ stream.recordSize[stream.start[k]] = SizeOfRecordKind + stream.content[k].size
      /\ \A f \in Range(stream.content[k].fields) :
           f.kind = "LF_METHOD" => KindOf(stream, f.index) = "LF_METHODLIST"
  BY <1>2, <1>3 DEF IsContent
<1>5. \A f \in Range(Fields.fields) : IsNear(f)
  BY <1>1, <1>2 DEF VirtualBasesAreNear
<1>6. MaximumSize = Fields.size
  <2>1. stream.content[k].size \in Nat  BY <1>4 DEF IsFieldList
  <2>2. MaximumSize = stream.recordSize[stream.start[k]] - 2
    BY <1>1 DEF MaximumSize, HeaderSize, SizeOfUInt16
  <2>3. stream.recordSize[stream.start[k]] = 2 + stream.content[k].size
    BY <1>4 DEF SizeOfRecordKind
  <2> QED  BY <1>2, <2>1, <2>2, <2>3
<1>7. ASSUME NEW m \in DOMAIN Fields.fields, Fields.fields[m].kind = "LF_METHOD"
      PROVE  IsMethodList(RecordOf(stream, Fields.fields[m].index))
  <2> DEFINE t == Fields.fields[m].index
  <2>1. Fields.fields[m] \in Range(Fields.fields)  BY DEF Range
  <2>2. KindOf(stream, t) = "LF_METHODLIST"  BY <1>2, <1>4, <1>7, <2>1
  <2>3. /\ t - stream.typeIndexBegin \in DOMAIN stream.content
        /\ RecordOf(stream, t) = stream.content[t - stream.typeIndexBegin]
        /\ RecordOf(stream, t).kind = "LF_METHODLIST"
    BY <1>1, <2>2, RecordOfKind
  <2> HIDE DEF t
  <2>4. IsMethodList(stream.content[t - stream.typeIndexBegin])
    BY <1>3, <2>3 DEF IsContent
  <2> QED  BY <2>3, <2>4 DEF t
<1> QED  BY <1>2, <1>4, <1>5, <1>6, <1>7

\* The field the loop is at.
LEMMA FieldAtHand ==
  ASSUME VirtualBasesAreNear, Walking, KindOf(stream, list) = "LF_FIELDLIST",
         NEW k \in DOMAIN Fields.fields, i = Fields.at[k]
  PROVE  /\ Field = Fields.fields[k] /\ i < MaximumSize
         /\ Field.kind \in KnownKinds \cup {"LF_ENUMERATE"}
         /\ Field.kind = "LF_METHOD" => IsMethodList(MethodList)
<1>1. /\ IsFieldList(Fields) /\ \A f \in Range(Fields.fields) : IsNear(f)
      /\ MaximumSize = Fields.size
      /\ Fields.fields[k].kind = "LF_METHOD" =>
           IsMethodList(RecordOf(stream, Fields.fields[k].index))
  BY ListAtHand
<1>2. Field = Fields.fields[k]  BY <1>1, FieldIsFound DEF Field
<1>3. /\ k \in 1 .. Len(Fields.fields) /\ Fields.at \in [1 .. Len(Fields.fields) -> Nat]
      /\ Fields.size \in Nat
  BY <1>1, FieldsInOrder
<1>4. /\ IsField(Fields.fields[k]) /\ Fields.at[k] < FieldEnd(Fields, k)
      /\ FieldEnd(Fields, k) <= Fields.size /\ FieldEnd(Fields, k) \in Nat
  BY <1>1, <1>3, FieldsInOrder
<1>5. i < MaximumSize
  <2>1. Fields.at[k] \in Nat  BY <1>3
  <2> QED  BY <1>1, <1>3, <1>4, <2>1
<1> QED  BY <1>1, <1>2, <1>4, <1>5 DEF IsField, KnownKinds, MethodList

LEMMA DisplayingInit == MainInit => Displaying
  BY DEF MainInit, Init, DisplayInit, Displaying

\* What FieldsInTurn says of a step.
InTurn ==
  /\ list' = list /\ i' # i =>
       \E k \in DOMAIN Fields.fields :
         /\ i = Fields.at[k]
         /\ i' = IF k = Len(Fields.fields) THEN Fields.size ELSE Fields.at[k + 1]
  /\ list # NoList /\ list' = NoList => i = Fields.size
  /\ j' # j /\ j' # NotInMethod /\ j # NotInMethod =>
       offsetInMethodList = MethodList.at[j']

LEMMA SameList ==
  ASSUME UNCHANGED <<stream, m_records, record, list>>
  PROVE  /\ Fields' = Fields /\ InEnumeration' = InEnumeration
         /\ KindOf(stream, list)' = KindOf(stream, list)
         /\ UNCHANGED i => MethodList' = MethodList
<1>1. Fields' = Fields  BY DEF Fields, RecordOf
<1>2. InEnumeration' = InEnumeration  BY DEF InEnumeration, Record, At
<1>3. KindOf(stream, list)' = KindOf(stream, list)  BY DEF KindOf, IsRecord, RecordOf
<1>4. ASSUME UNCHANGED i PROVE MethodList' = MethodList
  BY <1>1, <1>4 DEF MethodList, Field, FieldAt, RecordOf
<1> QED  BY <1>1, <1>2, <1>3, <1>4

\* The loop over the fields goes on, from a field without overloads or behind them all.
LEMMA GoesOn ==
  ASSUME VirtualBasesAreNear, Walking, Displaying, list # NoList, i < MaximumSize,
         UNCHANGED <<stream, m_records, record, list>>,
         i' = NextOffset(Fields, i), j' = NotInMethod
  PROVE  Displaying' /\ InTurn
<1>1. /\ IsFieldList(Fields) /\ \A f \in Range(Fields.fields) : IsNear(f)
      /\ MaximumSize = Fields.size
      /\ KindOf(stream, list) = "LF_FIELDLIST"
  BY ListAtHand DEF Displaying
<1>2. /\ Fields.size \in Nat /\ DOMAIN Fields.fields = 1 .. Len(Fields.fields)
      /\ Len(Fields.fields) \in Nat
  BY <1>1, FieldsInOrder
<1>3. PICK k \in DOMAIN Fields.fields : i = Fields.at[k]
  <2>1. i # Fields.size  BY <1>1, <1>2
  <2> QED  BY <2>1 DEF Displaying
<1>4. i % 4 = 0  BY DEF Displaying
<1>5. i' = FieldEnd(Fields, k) /\ i' % 4 = 0
  BY <1>1, <1>3, <1>4, NextIsEnd
<1>6. i' = Fields.size \/ \E l \in DOMAIN Fields.fields : i' = Fields.at[l]
  <2>1. CASE k = Len(Fields.fields)  BY <1>5, <2>1 DEF FieldEnd
  <2>2. CASE k # Len(Fields.fields)
    <3>1. k + 1 \in DOMAIN Fields.fields  BY <1>2, <2>2
    <3>2. i' = Fields.at[k + 1]  BY <1>5, <2>2 DEF FieldEnd
    <3> QED  BY <3>1, <3>2
  <2> QED  BY <2>1, <2>2
<1>7. FieldsFit  BY DEF Displaying
<1>8. Displaying'
  BY <1>1, <1>5, <1>6, <1>7, SameList DEF Displaying, FieldsFit
<1>9. InTurn
  BY <1>3, <1>5 DEF InTurn, FieldEnd
<1> QED  BY <1>8, <1>9

\* The loop over the overloads starts, at the first.
LEMMA EntersList ==
  ASSUME VirtualBasesAreNear, Walking, Displaying, EnterMethodList,
         UNCHANGED <<stream, m_records>>
  PROVE  Displaying' /\ InTurn
<1>1. /\ list # NoList /\ j = NotInMethod /\ ~ InEnumeration /\ i < MaximumSize
      /\ Field.kind = "LF_METHOD" /\ j' = 0 /\ offsetInMethodList' = 0
      /\ UNCHANGED <<stream, m_records, record, list, i>>
  BY DEF EnterMethodList, AtField, tableVars
<1>2. /\ IsFieldList(Fields) /\ MaximumSize = Fields.size
      /\ KindOf(stream, list) = "LF_FIELDLIST"
      /\ \A f \in Range(Fields.fields) : IsNear(f)
  BY <1>1, ListAtHand DEF Displaying
<1>3. PICK k \in DOMAIN Fields.fields : i = Fields.at[k]
  <2>1. i # Fields.size  BY <1>1, <1>2 DEF IsFieldList
  <2> QED  BY <1>1, <2>1 DEF Displaying
<1>4. Field = Fields.fields[k] /\ IsMethodList(MethodList)
  BY <1>1, <1>2, <1>3, FieldAtHand
<1>5. /\ Len(MethodList.entries) \in Nat
      /\ Len(MethodList.entries) > 0 => MethodList.at[1] = 0
  BY <1>4 DEF IsMethodList
<1>6. /\ 0 \in 0 .. Len(MethodList.entries)
      /\ 0 < Len(MethodList.entries) => 0 = MethodList.at[0 + 1]
  BY <1>5
<1>7. /\ Fields' = Fields /\ InEnumeration' = InEnumeration /\ MethodList' = MethodList
      /\ KindOf(stream, list)' = KindOf(stream, list)
  BY <1>1, SameList
<1>8. (list # NoList =>
         /\ KindOf(stream, list) = "LF_FIELDLIST"
         /\ i % 4 = 0
         /\ i = Fields.size \/ \E l \in DOMAIN Fields.fields : i = Fields.at[l]
         /\ FieldsFit)'
  BY <1>1, <1>7 DEF Displaying, FieldsFit
<1>9. (\E l \in DOMAIN Fields.fields : i = Fields.at[l] /\ Fields.fields[l].kind = "LF_METHOD")'
  BY <1>1, <1>3, <1>4, <1>7
<1>10. Displaying'
  BY <1>1, <1>6, <1>7, <1>8, <1>9 DEF Displaying
<1>11. InTurn  BY <1>1 DEF InTurn
<1> QED  BY <1>10, <1>11

\* The loop over the overloads goes on by one.
LEMMA GoesOnInList ==
  ASSUME VirtualBasesAreNear, Walking, Displaying, DisplayOverload,
         UNCHANGED <<stream, m_records>>
  PROVE  Displaying' /\ InTurn
<1>1. /\ j # NotInMethod /\ j < Len(MethodList.entries)
      /\ j' = j + 1 /\ offsetInMethodList' = offsetInMethodList + EntrySize(Overload)
      /\ UNCHANGED <<stream, m_records, record, list, i>>
  BY DEF DisplayOverload, tableVars
<1>2. PICK k \in DOMAIN Fields.fields : i = Fields.at[k] /\ Fields.fields[k].kind = "LF_METHOD"
  BY <1>1 DEF Displaying
<1>3. /\ KindOf(stream, list) = "LF_FIELDLIST"
      /\ j \in 0 .. Len(MethodList.entries) /\ offsetInMethodList = MethodList.at[j + 1]
  BY <1>1 DEF Displaying
<1>4. IsMethodList(MethodList)
  BY <1>2, <1>3, FieldAtHand
<1>5. Len(MethodList.entries) \in Nat /\ DOMAIN MethodList.entries = 1 .. Len(MethodList.entries)
  BY <1>4 DEF IsMethodList
<1>6. j + 1 \in DOMAIN MethodList.entries /\ j + 1 \in 0 .. Len(MethodList.entries)
  BY <1>1, <1>3, <1>5
<1>7. /\ EntryAt(MethodList, offsetInMethodList) = MethodList.entries[j + 1]
      /\ j + 1 < Len(MethodList.entries) =>
           MethodList.at[(j + 1) + 1] = MethodList.at[j + 1] + EntrySize(MethodList.entries[j + 1])
  BY <1>3, <1>4, <1>6, EntryIsFound
<1>8. j + 1 < Len(MethodList.entries) => offsetInMethodList' = MethodList.at[(j + 1) + 1]
  BY <1>1, <1>3, <1>7 DEF Overload
<1>9. /\ Fields' = Fields /\ InEnumeration' = InEnumeration /\ MethodList' = MethodList
      /\ KindOf(stream, list)' = KindOf(stream, list)
  BY <1>1, SameList
<1>10. (list # NoList =>
          /\ KindOf(stream, list) = "LF_FIELDLIST"
          /\ i % 4 = 0
          /\ i = Fields.size \/ \E l \in DOMAIN Fields.fields : i = Fields.at[l]
          /\ FieldsFit)'
  BY <1>1, <1>9 DEF Displaying, FieldsFit
<1>11. (/\ list # NoList /\ ~ InEnumeration
        /\ \E l \in DOMAIN Fields.fields : i = Fields.at[l] /\ Fields.fields[l].kind = "LF_METHOD")'
  BY <1>1, <1>2, <1>9 DEF Displaying
<1>12. /\ j' \in 0 .. Len(MethodList'.entries)
       /\ j' < Len(MethodList'.entries) => offsetInMethodList' = MethodList'.at[j' + 1]
  BY <1>1, <1>6, <1>8, <1>9
<1>13. Displaying'
  BY <1>10, <1>11, <1>12 DEF Displaying
<1>14. InTurn
  BY <1>1, <1>3 DEF InTurn
<1> QED  BY <1>13, <1>14

\* A list is gone into, at its start.
LEMMA StartsList ==
  ASSUME VirtualBasesAreNear, Walking, Pending, Displaying, DisplayType
  PROVE  Displaying' /\ InTurn
<1>1. /\ pc # "walk" /\ list = NoList /\ record < GetTypeRecordCount
      /\ Record.kind \in Definitions /\ ~ Record.fwdref
      /\ answer' = Lookup(Record.field)
      /\ UNCHANGED <<stream, m_records, j>>
      /\ \/ UNCHANGED <<list, i>>
         \/ answer' # nullptr /\ list' = Record.field /\ i' = 0 /\ UNCHANGED record
  BY DEF DisplayType, AtNextType, IsDisplayed, GetTypeRecord
<1>2. j = NotInMethod  BY <1>1 DEF Displaying
<1>3. CASE UNCHANGED <<list, i>>
  BY <1>1, <1>2, <1>3 DEF Displaying, InTurn
<1>4. CASE answer' # nullptr /\ list' = Record.field /\ i' = 0 /\ UNCHANGED record
  <2> DEFINE field == Record.field
             r == RecordOf(stream, field)
  <2>1. /\ record \in 0 .. (GetTypeRecordCount - 1) /\ GetTypeRecordCount \in Nat
        /\ stream \in TPIStreams /\ GetFirstTypeIndex = stream.typeIndexBegin
        /\ stream.typeIndexBegin \in Nat /\ stream.typeIndexEnd \in Nat
        /\ GetTypeRecordCount = stream.typeIndexEnd - stream.typeIndexBegin
    BY <1>1, CountIsNatural DEF Pending
  <2>2. /\ Record = stream.content[record] /\ record \in DOMAIN stream.content
        /\ field \in Nat
    BY <1>1, <2>1, RecordAtHand, CountIsNatural
  <2>3. IsContent(stream)  BY <2>1, ContentAssumption
  <2>4. field \in 0 .. (stream.typeIndexBegin + record - 1)
    <3>1. field \in IndicesOf(Record)  BY <1>1 DEF IndicesOf, Definitions, Functions
    <3> QED  BY <2>2, <2>3, <3>1 DEF IsContent
  <2>5. field >= stream.typeIndexBegin
    <3>1. ~ (field < GetFirstTypeIndex)
      BY <1>1, <1>4 DEF Lookup
    <3> QED  BY <2>1, <2>2, <3>1
  <2>6. /\ field \in stream.typeIndexBegin .. (stream.typeIndexEnd - 1)
        /\ field - stream.typeIndexBegin \in DOMAIN stream.content
    <3> HIDE DEF field
    <3> QED  BY <2>1, <2>4, <2>5, TPIStreamShape
  <2>7. r = stream.content[field - stream.typeIndexBegin] /\ KindOf(stream, field) = r.kind
    BY <2>6 DEF RecordOf, KindOf, IsRecord
  <2>8. r.kind # "built-in"  BY <2>3, <2>6, <2>7 DEF IsContent
  <2>9. /\ KindOf(stream, field) \in {"LF_FIELDLIST", "built-in"}
        /\ KindOf(stream, field) = "LF_FIELDLIST" =>
             \A f \in Range(r.fields) :
               IF Record.kind = "LF_ENUM" THEN IsEnumerated(f) ELSE f.kind # "LF_ENUMERATE"
    BY <1>1, <2>2, <2>3 DEF IsContent
  <2>10. KindOf(stream, field) = "LF_FIELDLIST"  BY <2>7, <2>8, <2>9
  <2>11. IsFieldList(r)
    BY <2>3, <2>6, <2>7, <2>10 DEF IsContent
  <2>12. 0 = r.size \/ \E k \in DOMAIN r.fields : 0 = r.at[k]
    <3>1. Len(r.fields) \in Nat /\ DOMAIN r.fields = 1 .. Len(r.fields)
      BY <2>11 DEF IsFieldList
    <3>2. CASE Len(r.fields) = 0  BY <2>11, <3>2 DEF IsFieldList
    <3>3. CASE Len(r.fields) > 0
      <4>1. 1 \in DOMAIN r.fields /\ r.at[1] = 0  BY <2>11, <3>1, <3>3 DEF IsFieldList
      <4> QED  BY <4>1
    <3> QED  BY <3>1, <3>2, <3>3
  <2>13. Fields' = r /\ KindOf(stream, list)' = KindOf(stream, field)
    BY <1>1, <1>4 DEF Fields, RecordOf, KindOf, IsRecord
  <2>14. InEnumeration' = InEnumeration
    BY <1>1, <1>4 DEF InEnumeration, Record, At
  <2>15. j' = NotInMethod /\ list' # list
    <3>1. field # NoList  BY <2>2 DEF NoList, NoRecord
    <3> QED  BY <1>1, <1>2, <1>4, <3>1
  <2>16. InTurn  BY <1>1, <1>4, <2>15 DEF InTurn
  <2>17. (/\ KindOf(stream, list) = "LF_FIELDLIST"
          /\ i % 4 = 0
          /\ i = Fields.size \/ \E k \in DOMAIN Fields.fields : i = Fields.at[k])'
    <3> HIDE DEF field, r
    <3>1. i' % 4 = 0  BY <1>4
    <3> QED  BY <1>4, <2>10, <2>12, <2>13, <3>1
  <2>18. FieldsFit'
    <3> HIDE DEF field, r
    <3>1. InEnumeration' <=> Record.kind = "LF_ENUM"  BY <2>14 DEF InEnumeration
    <3> QED  BY <2>9, <2>10, <2>13, <3>1 DEF FieldsFit
  <2> QED  BY <2>15, <2>16, <2>17, <2>18 DEF Displaying
<1> QED  BY <1>1, <1>3, <1>4

\* The loop over enumerators goes on where that over fields would.
LEMMA EnumeratesInTurn ==
  ASSUME VirtualBasesAreNear, Walking, Displaying, list # NoList, InEnumeration, i < MaximumSize
  PROVE  NextEnumerate(Fields, i) = NextOffset(Fields, i)
<1>1. IsFieldList(Fields) /\ MaximumSize = Fields.size
  BY ListAtHand DEF Displaying
<1>2. PICK k \in DOMAIN Fields.fields : i = Fields.at[k]
  <2>1. i # Fields.size  BY <1>1 DEF IsFieldList
  <2> QED  BY <2>1 DEF Displaying
<1>3. IsEnumerated(Fields.fields[k])
  <2>1. Fields.fields[k] \in Range(Fields.fields)  BY DEF Range
  <2> QED  BY <2>1 DEF Displaying, FieldsFit
<1>4. i % 4 = 0  BY DEF Displaying
<1> QED  BY <1>1, <1>2, <1>3, <1>4, EnumerateIsNext

\* A list is left, at its end.
LEMMA EndsList ==
  ASSUME VirtualBasesAreNear, Walking, Displaying, FinishType
  PROVE  Displaying' /\ InTurn
<1>1. /\ list # NoList /\ j = NotInMethod
      /\ i >= MaximumSize \/ (~ InEnumeration /\ Field.kind \notin KnownKinds)
      /\ list' = NoList /\ UNCHANGED <<i, j>>
  BY DEF FinishType
<1>2. /\ KindOf(stream, list) = "LF_FIELDLIST"
      /\ i = Fields.size \/ \E k \in DOMAIN Fields.fields : i = Fields.at[k]
      /\ FieldsFit
  BY <1>1 DEF Displaying
<1>3. ASSUME NEW k \in DOMAIN Fields.fields, i = Fields.at[k] PROVE FALSE
  <2>1. /\ Field = Fields.fields[k] /\ i < MaximumSize
        /\ Field.kind \in KnownKinds \cup {"LF_ENUMERATE"}
    BY <1>2, <1>3, FieldAtHand
  <2>2. i \in Nat /\ MaximumSize \in Nat
    BY <1>2, <1>3, ListAtHand, FieldsInOrder
  <2>3. ~ InEnumeration /\ Field.kind \notin KnownKinds
    BY <1>1, <2>1, <2>2
  <2>4. Field \in Range(Fields.fields)  BY <2>1 DEF Range
  <2> QED  BY <1>2, <2>1, <2>3, <2>4 DEF FieldsFit
<1>4. i = Fields.size  BY <1>2, <1>3
<1> QED  BY <1>1, <1>4 DEF Displaying, InTurn

LEMMA DisplayingStep ==
  ASSUME VirtualBasesAreNear, Walking, Pending, Displaying, [MainNext]_<<vars, ipiVars>>
  PROVE  Displaying' /\ InTurn
<1> USE DEF tableVars, displayVars, vars, typeVars, sizeVars
<1>1. ASSUME list = NoList, list' = NoList, UNCHANGED <<i, j>> PROVE Displaying' /\ InTurn
  BY <1>1 DEF Displaying, InTurn
<1>2. ASSUME UNCHANGED <<stream, m_records, displayVars>> PROVE Displaying' /\ InTurn
  <2>1. InTurn  BY <1>2 DEF InTurn
  <2>2. /\ Fields' = Fields /\ InEnumeration' = InEnumeration /\ MethodList' = MethodList
        /\ KindOf(stream, list)' = KindOf(stream, list)
    BY <1>2, SameList
  <2>3. Displaying'  BY <1>2, <2>2 DEF Displaying, FieldsFit
  <2> QED  BY <2>1, <2>3
<1>3. list # NoList => pc # "walk" /\ example = "ExampleTypes"
  BY DEF Pending, ListIsWalked
<1>4. CASE CreateIPIStream \/ IPIExample \/ UNCHANGED <<vars, ipiVars>>
  BY <1>2, <1>4 DEF CreateIPIStream, IPIExample
<1>5. CASE Construct
  BY <1>1, <1>3, <1>5 DEF Construct, ConstructorStep, Callback, FinishConstruction
<1>6. CASE TagDefinition \/ TagMemberFunction \/ PassRecord
  <2>1. example = "ExampleTPISize" /\ UNCHANGED <<list, i, j>>
    BY <1>6 DEF TagDefinition, TagMemberFunction, PassRecord, AtNextRecord
  <2> QED  BY <1>1, <1>3, <2>1
<1>7. CASE PassBuiltIn \/ TagThrough \/ Tag \/ PrintRecords
  BY <1>2, <1>7 DEF PassBuiltIn, TagThrough, Tag, PrintRecords
<1>8. CASE Display
  <2>1. UNCHANGED <<stream, m_records>>
    BY <1>8 DEF Display, DisplayStep, PassType, DisplayType, DisplayMember,
       DisplayNestedOrStatic, DisplayMethod, EnterMethodList, DisplayOverload, LeaveMethodList,
       PassField, DisplayEnumerate, FinishType, ToNextField
  <2>2. CASE PassType
    BY <1>1, <2>2 DEF PassType, AtNextType
  <2>3. CASE DisplayType \/ FinishType
    BY <2>3, StartsList, EndsList
  <2>4. CASE EnterMethodList \/ DisplayOverload
    BY <2>1, <2>4, EntersList, GoesOnInList
  <2>5. CASE DisplayMember \/ DisplayNestedOrStatic \/ DisplayMethod \/ PassField
    <3>1. /\ list # NoList /\ j = NotInMethod /\ i < MaximumSize
          /\ i' = NextOffset(Fields, i) /\ UNCHANGED <<record, list, j>>
      BY <2>5 DEF DisplayMember, DisplayNestedOrStatic, DisplayMethod, PassField, AtField, ToNextField
    <3> QED  BY <2>1, <3>1, GoesOn
  <2>6. CASE DisplayEnumerate
    <3>1. /\ list # NoList /\ InEnumeration /\ i < MaximumSize
          /\ i' = NextEnumerate(Fields, i) /\ UNCHANGED <<record, list, j>>
      BY <2>6 DEF DisplayEnumerate
    <3>2. j = NotInMethod  BY <3>1 DEF Displaying
    <3>3. NextEnumerate(Fields, i) = NextOffset(Fields, i)
      BY <3>1, EnumeratesInTurn
    <3> QED  BY <2>1, <3>1, <3>2, <3>3, GoesOn
  <2>7. CASE LeaveMethodList
    <3>1. /\ j # NotInMethod /\ j' = NotInMethod
          /\ i' = NextOffset(Fields, i) /\ UNCHANGED <<record, list>>
      BY <2>7 DEF LeaveMethodList
    <3>2. /\ list # NoList /\ KindOf(stream, list) = "LF_FIELDLIST"
          /\ \E k \in DOMAIN Fields.fields : i = Fields.at[k]
      BY <3>1 DEF Displaying
    <3>3. i < MaximumSize  BY <3>2, FieldAtHand
    <3> QED  BY <2>1, <3>1, <3>2, <3>3, GoesOn
  <2> QED
    BY <1>8, <2>2, <2>3, <2>4, <2>5, <2>6, <2>7 DEF Display, DisplayStep
<1> QED
  BY <1>4, <1>5, <1>6, <1>7, <1>8 DEF MainNext, TypesExample, Next

\* If no virtual base is far into its object, the loops over the fields of a type and
\* over the overloads of a method meet every entry, one after the other, and leave the
\* list at its end, whatever the entries are and however many of them there are.
THEOREM FieldsAreInTurn ==
  ASSUME VirtualBasesAreNear
  PROVE  MainSpec => FieldsInTurn
<1>1. MainInit => Displaying  BY DisplayingInit
<1>2. Walking /\ Pending /\ Displaying /\ [MainNext]_<<vars, ipiVars>> => Displaying' /\ InTurn
  BY DisplayingStep
<1>3. Walking /\ Pending /\ Displaying /\ [MainNext]_<<vars, ipiVars>> => [InTurn]_displayVars
  BY <1>2
<1>4. MainSpec => [][InTurn]_displayVars
  BY <1>1, <1>2, <1>3, TableIsInStep, ReferencesLeadToRecords, PTL DEF MainSpec
<1> QED  BY <1>4 DEF FieldsInTurn, InTurn

-----------------------------------------------------------------------------
(* The names of types.                                                     *)

\* Records name types in front of them.
LEMMA RecordsInFront ==
  ASSUME NEW s \in TPIStreams, NEW t, IsRecord(s, t)
  PROVE  IndicesOf(RecordOf(s, t)) \subseteq 0 .. (t - 1) /\ t \in Nat
<1>1. s.typeIndexBegin \in Nat /\ s.typeIndexEnd \in Nat
      /\ DOMAIN s.content = 0 .. (s.typeIndexEnd - s.typeIndexBegin - 1)
  BY TPIStreamShape
<1> DEFINE k == t - s.typeIndexBegin
<1>2. k \in DOMAIN s.content /\ s.typeIndexBegin + k - 1 = t - 1 /\ t \in Nat  BY <1>1 DEF IsRecord
<1>3. IndicesOf(s.content[k]) \subseteq 0 .. (s.typeIndexBegin + k - 1)
  BY <1>2, ContentAssumption DEF IsContent
<1> QED  BY <1>2, <1>3 DEF RecordOf

\* What a name depends on: the names of types in front.
LEMMA NameOfTypesInFront ==
  ASSUME NEW s \in TPIStreams, NEW t \in 0 .. (s.typeIndexEnd - 1), NEW f, NEW g,
         \A u \in 0 .. (t - 1) : f[u] = g[u]
  PROVE  ResolvedWith(s, f, t) = ResolvedWith(s, g, t)
<1>1. CASE ~ IsRecord(s, t)
  BY <1>1 DEF ResolvedWith
<1>2. CASE IsRecord(s, t)
  <2> DEFINE r == RecordOf(s, t)
  <2>1. IndicesOf(r) \subseteq 0 .. (t - 1)
    BY <1>2, RecordsInFront
  <2>2. CASE r.kind = "LF_MODIFIER"
    <3>1. r.type \in 0 .. (t - 1)  BY <2>1, <2>2 DEF IndicesOf, Definitions
    <3> QED  BY <1>2, <2>2, <3>1 DEF ResolvedWith
  <2>3. CASE r.kind = "LF_POINTER"
    <3>1. r.utype \in 0 .. (t - 1)  BY <2>1, <2>3 DEF IndicesOf, Definitions
    <3>2. f[r.utype] = g[r.utype]  BY <3>1
    <3>3. CASE KindOf(s, r.utype) = "LF_MODIFIER"
      <4>1. RecordOf(s, r.utype).kind = "LF_MODIFIER" /\ IsRecord(s, r.utype)
        BY <3>3 DEF KindOf
      <4>2. IndicesOf(RecordOf(s, r.utype)) \subseteq 0 .. (r.utype - 1)
        BY <4>1, RecordsInFront
      <4>3. RecordOf(s, r.utype).type \in 0 .. (r.utype - 1)
        BY <4>1, <4>2 DEF IndicesOf, Definitions
      <4>4. RecordOf(s, r.utype).type \in 0 .. (t - 1)  BY <3>1, <4>3
      <4> QED  BY <1>2, <2>3, <3>3, <4>4 DEF ResolvedWith, Functions
    <3>4. CASE KindOf(s, r.utype) # "LF_MODIFIER"
      BY <1>2, <2>3, <3>2, <3>4 DEF ResolvedWith, Functions
    <3> QED  BY <3>3, <3>4
  <2>4. CASE r.kind = "LF_BITFIELD"
    <3>1. r.type \in 0 .. (t - 1)  BY <2>1, <2>4 DEF IndicesOf, Definitions
    <3> QED  BY <1>2, <2>4, <3>1 DEF ResolvedWith, Functions
  <2>5. CASE r.kind = "LF_ARRAY"
    <3>1. r.elemtype \in 0 .. (t - 1)  BY <2>1, <2>5 DEF IndicesOf, Definitions
    <3> QED  BY <1>2, <2>5, <3>1 DEF ResolvedWith, Functions
  <2>6. CASE r.kind \notin {"LF_MODIFIER", "LF_POINTER", "LF_BITFIELD", "LF_ARRAY"}
    BY <1>2, <2>6 DEF ResolvedWith
  <2> QED  BY <2>2, <2>3, <2>4, <2>5, <2>6
<1> QED  BY <1>1, <1>2

\* The recursion of GetTypeName ends.
LEMMA NamesAreFound ==
  ASSUME NEW s \in TPIStreams
  PROVE  Resolve(s) = [t \in 0 .. (s.typeIndexEnd - 1) |-> ResolvedWith(s, Resolve(s), t)]
<1> DEFINE Solves(f, n) == f = [t \in 0 .. (n - 1) |-> ResolvedWith(s, f, t)]
           T == {n \in 0 .. s.typeIndexEnd : ~ \E f : Solves(f, n)}
<1>1. s.typeIndexEnd \in Nat  BY TPIStreamShape
<1>2. ASSUME T # {} PROVE FALSE
  <2>1. T \in SUBSET Nat  BY <1>1
  <2>2. PICK m \in T : \A n \in T : m <= n
    <3> HIDE DEF T
    <3> QED  BY <1>2, <2>1, LeastNatural
  <2>3. m \in 0 .. s.typeIndexEnd /\ ~ \E f : Solves(f, m)  BY <2>2
  <2>4. m # 0
    <3>1. 0 .. (0 - 1) = {}  OBVIOUS
    <3>2. Solves([t \in {} |-> t], 0)  BY <3>1
    <3> QED  BY <2>3, <3>2
  <2>5. m - 1 \in 0 .. s.typeIndexEnd /\ ~ (m <= m - 1) /\ m \in Nat /\ m - 1 \in Nat
    BY <1>1, <2>3, <2>4
  <2>6. PICK f : Solves(f, m - 1)  
    <3>1. m - 1 \notin T  BY <2>2, <2>5
    <3> QED  BY <2>5, <3>1
  <2> DEFINE g == [t \in 0 .. (m - 1) |-> ResolvedWith(s, f, t)]
  <2>7. ASSUME NEW t \in 0 .. (m - 1) PROVE g[t] = ResolvedWith(s, g, t)
    <3>1. ASSUME NEW u \in 0 .. (t - 1) PROVE f[u] = g[u]
      <4>1. u \in 0 .. (m - 1 - 1) /\ u \in 0 .. (m - 1)  BY <2>5
      <4>2. f[u] = ResolvedWith(s, f, u)  BY <2>6, <4>1
      <4> QED  BY <4>1, <4>2
    <3>2. t \in 0 .. (s.typeIndexEnd - 1)  BY <1>1, <2>3, <2>5
    <3> HIDE DEF g
    <3>3. ResolvedWith(s, f, t) = ResolvedWith(s, g, t)
      BY <3>1, <3>2, NameOfTypesInFront
    <3> QED  BY <3>3 DEF g
  <2>8. Solves(g, m)
    <3>1. g = [t \in 0 .. (m - 1) |-> g[t]]  OBVIOUS
    <3> HIDE DEF g
    <3> QED  BY <2>7, <3>1
  <2> QED  BY <2>3, <2>8
<1>3. \E f : Solves(f, s.typeIndexEnd)
  <2>1. s.typeIndexEnd \in 0 .. s.typeIndexEnd  BY <1>1
  <2> QED  BY <1>2, <2>1
<1>4. Resolve(s) = CHOOSE f : Solves(f, s.typeIndexEnd)
  BY DEF Resolve
<1> QED  BY <1>3, <1>4

-----------------------------------------------------------------------------
\* A type is made of one in front.
LEMMA MadeOfTypesInFront ==
  ASSUME stream \in TPIStreams, NEW t \in TypeIndices
  PROVE  /\ t \in Nat /\ RecordOf(stream, t).kind # "built-in" /\ IsRecord(stream, t)
         /\ RecordOf(stream, t).kind \in {"LF_MODIFIER", "LF_POINTER", "LF_ARRAY"} =>
              MadeOf(t) \in 0 .. (t - 1)
         /\ RecordOf(stream, t).kind \notin {"LF_MODIFIER", "LF_POINTER", "LF_ARRAY"} =>
              MadeOf(t) = t
<1> DEFINE r == RecordOf(stream, t)
<1>1. IsRecord(stream, t)  BY DEF TypeIndices, IsRecord
<1>2. IndicesOf(r) \subseteq 0 .. (t - 1) /\ t \in Nat  BY <1>1, RecordsInFront
<1>3. r.kind # "built-in"
  <2>1. t - stream.typeIndexBegin \in DOMAIN stream.content
    BY TPIStreamShape DEF TypeIndices
  <2> QED  BY <2>1, ContentAssumption DEF IsContent, RecordOf
<1>4. CASE r.kind = "LF_MODIFIER"
  <2>1. MadeOf(t) = r.type  BY <1>4 DEF MadeOf
  <2>2. r.type \in 0 .. (t - 1)  BY <1>2, <1>4 DEF IndicesOf, Definitions
  <2> QED  BY <1>1, <1>2, <1>3, <1>4, <2>1, <2>2
<1>5. CASE r.kind = "LF_POINTER"
  <2>1. MadeOf(t) = r.utype  BY <1>5 DEF MadeOf
  <2>2. r.utype \in 0 .. (t - 1)  BY <1>2, <1>5 DEF IndicesOf, Definitions
  <2> QED  BY <1>1, <1>2, <1>3, <1>5, <2>1, <2>2
<1>6. CASE r.kind = "LF_ARRAY"
  <2>1. MadeOf(t) = r.elemtype  BY <1>6 DEF MadeOf
  <2>2. r.elemtype \in 0 .. (t - 1)  BY <1>2, <1>6 DEF IndicesOf, Definitions
  <2> QED  BY <1>1, <1>2, <1>3, <1>6, <2>1, <2>2
<1>7. CASE r.kind \notin {"LF_MODIFIER", "LF_POINTER", "LF_ARRAY"}
  <2>1. MadeOf(t) = t  BY <1>7 DEF MadeOf
  <2> QED  BY <1>1, <1>2, <1>3, <1>7, <2>1
<1> QED  BY <1>4, <1>5, <1>6, <1>7

\* A route depends on the routes of types in front only.
LEMMA RouteOfTypesInFront ==
  ASSUME stream \in TPIStreams, NEW t \in TypeIndices, NEW f, NEW g,
         \A u \in TypeIndices : u < t => f[u] = g[u]
  PROVE  RouteWith(f, t) = RouteWith(g, t)
<1>1. CASE MadeOf(t) = t
  BY <1>1 DEF RouteWith
<1>2. CASE MadeOf(t) # t
  <2>1. MadeOf(t) \in 0 .. (t - 1) /\ t \in Nat  BY <1>2, MadeOfTypesInFront
  <2>2. MadeOf(t) < t  BY <2>1
  <2>3. CASE MadeOf(t) \in TypeIndices
    <3>1. f[MadeOf(t)] = g[MadeOf(t)]  BY <2>2, <2>3
    <3> QED  BY <1>2, <2>3, <3>1 DEF RouteWith
  <2>4. CASE MadeOf(t) \notin TypeIndices
    BY <1>2, <2>4 DEF RouteWith
  <2> QED  BY <2>3, <2>4
<1> QED  BY <1>1, <1>2

\* The recursion behind Route has a solution.
LEMMA RoutesAreFound ==
  ASSUME stream \in TPIStreams
  PROVE  Route = [t \in TypeIndices |-> RouteWith(Route, t)]
<1> DEFINE begin == stream.typeIndexBegin
           end == stream.typeIndexEnd
           Solves(f, n) == f = [t \in begin .. (n - 1) |-> RouteWith(f, t)]
           T == {n \in begin .. end : ~ \E f : Solves(f, n)}
<1>1. begin \in Nat /\ end \in Nat /\ begin <= end
  BY TPIStreamShape
<1>2. ASSUME T # {} PROVE FALSE
  <2>1. T \in SUBSET Nat  BY <1>1
  <2>2. PICK m \in T : \A n \in T : m <= n
    <3> HIDE DEF T
    <3> QED  BY <1>2, <2>1, LeastNatural
  <2>3. m \in begin .. end /\ ~ \E f : Solves(f, m)  BY <2>2
  <2>4. m # begin
    <3>1. begin .. (begin - 1) = {}  BY <1>1
    <3>2. Solves([t \in {} |-> t], begin)  BY <3>1
    <3> QED  BY <2>3, <3>2
  <2>5. m - 1 \in begin .. end /\ ~ (m <= m - 1) /\ m \in Nat /\ m - 1 \in Nat
    BY <1>1, <2>3, <2>4
  <2>6. PICK f : Solves(f, m - 1)
    <3>1. m - 1 \notin T  BY <2>2, <2>5
    <3> QED  BY <2>5, <3>1
  <2> DEFINE g == [t \in begin .. (m - 1) |-> RouteWith(f, t)]
  <2>7. ASSUME NEW t \in begin .. (m - 1) PROVE g[t] = RouteWith(g, t)
    <3>1. ASSUME NEW u \in TypeIndices, u < t PROVE f[u] = g[u]
      <4>1. u \in begin .. (m - 1 - 1) /\ u \in begin .. (m - 1)
        BY <1>1, <2>5, <3>1 DEF TypeIndices
      <4>2. f[u] = RouteWith(f, u)  BY <2>6, <4>1
      <4> QED  BY <4>1, <4>2
    <3>2. t \in TypeIndices  BY <1>1, <2>3, <2>5 DEF TypeIndices
    <3> HIDE DEF g
    <3>3. RouteWith(f, t) = RouteWith(g, t)
      BY <3>1, <3>2, RouteOfTypesInFront
    <3> QED  BY <3>3 DEF g
  <2>8. Solves(g, m)
    <3>1. g = [t \in begin .. (m - 1) |-> g[t]]  OBVIOUS
    <3> HIDE DEF g
    <3> QED  BY <2>7, <3>1
  <2> QED  BY <2>3, <2>8
<1>3. \E f : Solves(f, end)
  <2>1. end \in begin .. end  BY <1>1
  <2> QED  BY <1>2, <2>1
<1>4. Route = CHOOSE f : Solves(f, end)
  BY DEF Route, TypeIndices
<1> QED  BY <1>3, <1>4 DEF TypeIndices

-----------------------------------------------------------------------------
Pointers(route) == Cardinality({n \in DOMAIN route : KindOf(stream, route[n]) = "LF_POINTER"})

\* The pointers on a route of which the first type is t.
LEMMA PointersBehind ==
  ASSUME NEW S, NEW r \in Seq(S), NEW t \in S
  PROVE  /\ Pointers(r) \in Nat
         /\ KindOf(stream, t) = "LF_POINTER" => Pointers(<<t>> \o r) = Pointers(r) + 1
         /\ KindOf(stream, t) # "LF_POINTER" => Pointers(<<t>> \o r) = Pointers(r)
<1> DEFINE q == <<t>> \o r
           IsPointer(u) == KindOf(stream, u) = "LF_POINTER"
           A == {n \in DOMAIN r : IsPointer(r[n])}
           B == {n \in 2 .. (Len(r) + 1) : IsPointer(r[n - 1])}
           C == {n \in DOMAIN q : IsPointer(q[n])}
<1> HIDE DEF IsPointer
<1>1. Len(r) \in Nat /\ DOMAIN r = 1 .. Len(r)  OBVIOUS
<1>2. /\ DOMAIN q = 1 .. (Len(r) + 1) /\ q[1] = t
      /\ \A n \in 2 .. (Len(r) + 1) : q[n] = r[n - 1]
  <2>1. q \in Seq(S) /\ Len(q) = Len(r) + 1  OBVIOUS
  <2> QED  BY <1>1, <2>1
<1>3. IsFiniteSet(A) /\ Cardinality(A) \in Nat
  <2>1. IsFiniteSet(1 .. Len(r)) /\ A \subseteq 1 .. Len(r)  BY <1>1, FS_Interval
  <2>2. IsFiniteSet(A)  BY <2>1, FS_Subset
  <2> QED  BY <2>2, FS_CardinalityType
<1>4. IsFiniteSet(B) /\ Cardinality(B) = Cardinality(A)
  <2> DEFINE up == [n \in A |-> n + 1]
  <2>1. \A n \in A : n \in 1 .. Len(r) /\ IsPointer(r[n])  BY <1>1
  <2>2. \A n \in A : n + 1 \in B /\ n + 1 - 1 = n
    <3>1. ASSUME NEW n \in A PROVE n + 1 \in B /\ n + 1 - 1 = n
      <4>1. n \in 1 .. Len(r) /\ IsPointer(r[n])  BY <2>1
      <4>2. n + 1 \in 2 .. (Len(r) + 1) /\ n + 1 - 1 = n  BY <1>1, <4>1
      <4> QED  BY <4>1, <4>2
    <3> QED  BY <3>1
  <2>3. \A m \in B : m - 1 \in A /\ m - 1 + 1 = m
    <3>1. ASSUME NEW m \in B PROVE m - 1 \in A /\ m - 1 + 1 = m
      <4>1. m \in 2 .. (Len(r) + 1) /\ IsPointer(r[m - 1])  OBVIOUS
      <4>2. m - 1 \in 1 .. Len(r) /\ m - 1 + 1 = m  BY <1>1, <4>1
      <4> QED  BY <1>1, <4>1, <4>2
    <3> QED  BY <3>1
  <2> HIDE DEF A, B
  <2>4. up \in Bijection(A, B)
    <3>1. up \in [A -> B]  BY <2>2
    <3>2. ASSUME NEW m \in A, NEW n \in A, up[m] = up[n] PROVE m = n
      <4>1. m \in 1 .. Len(r) /\ n \in 1 .. Len(r)  BY <2>1
      <4>2. m + 1 = n + 1  BY <3>2
      <4> QED  BY <4>1, <4>2
    <3>3. \A m \in B : \E n \in A : up[n] = m  BY <2>3
    <3> QED  BY <3>1, <3>2, <3>3 DEF Bijection, Injection, Surjection, IsInjective
  <2> HIDE DEF up
  <2>5. ExistsBijection(A, B)  BY <2>4 DEF ExistsBijection
  <2> QED  BY <1>3, <2>5, FS_Bijection
<1>5. 1 \notin B  BY <1>1
<1>6. CASE IsPointer(t)
  <2>1. C = B \cup {1}
    <3>1. \A n : n \in 1 .. (Len(r) + 1) <=> n \in 2 .. (Len(r) + 1) \/ n = 1  BY <1>1
    <3> HIDE DEF q
    <3> QED  BY <1>2, <1>6, <3>1
  <2> HIDE DEF A, B, C
  <2>2. Cardinality(B \cup {1}) = Cardinality(B) + 1  BY <1>4, <1>5, FS_AddElement
  <2> QED  BY <1>3, <1>4, <1>6, <2>1, <2>2 DEF Pointers, A, C, IsPointer
<1>7. CASE ~ IsPointer(t)
  <2>1. C = B
    <3>1. \A n : n \in 1 .. (Len(r) + 1) <=> n \in 2 .. (Len(r) + 1) \/ n = 1  BY <1>1
    <3> HIDE DEF q
    <3> QED  BY <1>1, <1>2, <1>5, <1>7, <3>1
  <2> HIDE DEF B
  <2> QED  BY <1>3, <1>4, <1>7, <2>1 DEF Pointers, IsPointer
<1> QED  BY <1>6, <1>7 DEF IsPointer

-----------------------------------------------------------------------------
RouteOf(t) == IF t \in TypeIndices THEN Route[t] ELSE <<t>>

\* A route of more than one type goes on with that of the type t is made of.
LEMMA RouteGoesOn ==
  ASSUME stream \in TPIStreams, NEW t \in TypeIndices
  PROVE  /\ RecordOf(stream, t).kind \in {"LF_MODIFIER", "LF_POINTER", "LF_ARRAY"} =>
              RouteOf(t) = <<t>> \o RouteOf(MadeOf(t))
         /\ RecordOf(stream, t).kind \notin {"LF_MODIFIER", "LF_POINTER", "LF_ARRAY"} =>
              RouteOf(t) = <<t>>
<1>1. RouteOf(t) = RouteWith(Route, t)
  <2>1. Route[t] = RouteWith(Route, t)  BY RoutesAreFound
  <2> QED  BY <2>1 DEF RouteOf
<1>2. CASE RecordOf(stream, t).kind \in {"LF_MODIFIER", "LF_POINTER", "LF_ARRAY"}
  <2>1. MadeOf(t) \in 0 .. (t - 1) /\ t \in Nat  BY <1>2, MadeOfTypesInFront
  <2>2. MadeOf(t) # t  BY <2>1
  <2>3. CASE MadeOf(t) \in TypeIndices
    BY <1>1, <1>2, <2>2, <2>3 DEF RouteWith, RouteOf
  <2>4. CASE MadeOf(t) \notin TypeIndices
    <3>1. RouteOf(t) = <<t, MadeOf(t)>> /\ RouteOf(MadeOf(t)) = <<MadeOf(t)>>
      BY <1>1, <2>2, <2>4 DEF RouteWith, RouteOf
    <3>2. <<t, MadeOf(t)>> = <<t>> \o <<MadeOf(t)>>  OBVIOUS
    <3> QED  BY <1>2, <3>1, <3>2
  <2> QED  BY <2>3, <2>4
<1>3. CASE RecordOf(stream, t).kind \notin {"LF_MODIFIER", "LF_POINTER", "LF_ARRAY"}
  BY <1>1, <1>3, MadeOfTypesInFront DEF RouteWith
<1> QED  BY <1>2, <1>3

\* No type is 32 KiB or more in size.
TypesAreSmall ==
  \A s \in TPIStreams : \A k \in DOMAIN s.content :
    s.content[k].kind \in (Definitions \ {"LF_ENUM"}) \cup LargeClasses =>
      s.content[k].leaf = "below LF_NUMERIC"

IsName(n) ==
  n = [name |-> n.name, level |-> n.level, referenced |-> n.referenced, modifier |-> n.modifier]

NameAt(last) ==
  CASE KindOf(stream, last) = "built-in" -> BuiltInName(last)
    [] KindOf(stream, last) \in Functions -> NullName
    [] OTHER -> RecordOf(stream, last).name

IsNamed(t) ==
  LET name_t == Resolve(stream)[t]
      last == Last(RouteOf(t))
  IN  /\ IsName(name_t)
      /\ RouteOf(t) \in Seq(Nat) /\ Len(RouteOf(t)) > 0
      /\ KindOf(stream, last) \in Definitions \cup LargeClasses \cup Functions \cup {"built-in"} =>
           name_t.name = NameAt(last) /\ name_t.level = Pointers(RouteOf(t))

\* A type that is the last of its route has its own name.
LEMMA NameOfLast ==
  ASSUME stream \in TPIStreams, TypesAreSmall,
         NEW t \in 0 .. (stream.typeIndexEnd - 1),
         \A u \in 0 .. (t - 1) : IsNamed(u),
         RouteOf(t) = <<t>>
  PROVE  IsNamed(t)
<1> DEFINE n == Resolve(stream)[t]
           r == RecordOf(stream, t)
<1>1. n = ResolvedWith(stream, Resolve(stream), t)
  BY NamesAreFound
<1>2. /\ RouteOf(t) \in Seq(Nat) /\ Len(RouteOf(t)) > 0 /\ Last(RouteOf(t)) = t
  <2>1. t \in Nat  BY TPIStreamShape
  <2> QED  BY <2>1 DEF Last
<1>3. KindOf(stream, t) # "LF_POINTER" => Pointers(RouteOf(t)) = 0
  <2>1. <<>> \in Seq(Nat) /\ t \in Nat /\ <<t>> = <<t>> \o <<>>  BY TPIStreamShape
  <2>2. Pointers(<<>>) = 0
    <3>1. {k \in DOMAIN <<>> : KindOf(stream, <<>>[k]) = "LF_POINTER"} = {}  OBVIOUS
    <3> QED  BY <3>1, FS_EmptySet DEF Pointers
  <2>3. KindOf(stream, t) # "LF_POINTER" => Pointers(<<t>> \o <<>>) = Pointers(<<>>)
    BY <2>1, PointersBehind
  <2>4. RouteOf(t) = <<t>> \o <<>>  BY <2>1
  <2> QED  BY <2>2, <2>3, <2>4
<1> HIDE DEF n
<1> SUFFICES /\ IsName(n)
             /\ KindOf(stream, t) \in Definitions \cup LargeClasses \cup Functions \cup {"built-in"} =>
                  n.name = NameAt(t) /\ n.level = Pointers(RouteOf(t))
  BY <1>2 DEF IsNamed, n
<1>4. ASSUME NEW name_t, n = Named(name_t) PROVE IsName(n) /\ n.name = name_t /\ n.level = 0
  BY <1>4 DEF Named, IsName
<1>5. CASE ~ IsRecord(stream, t)
  <2>1. n = Named(BuiltInName(t))  BY <1>1, <1>5 DEF ResolvedWith
  <2>2. KindOf(stream, t) = "built-in"  BY <1>5 DEF KindOf
  <2>3. NameAt(t) = BuiltInName(t)  BY <2>2 DEF NameAt, Functions
  <2> QED  BY <1>3, <1>4, <2>1, <2>2, <2>3
<1>6. CASE IsRecord(stream, t)
  <2>1. /\ KindOf(stream, t) = r.kind /\ t \in TypeIndices
    BY <1>6 DEF KindOf, TypeIndices, IsRecord
  <2>2. r.kind # "built-in"  BY <2>1, MadeOfTypesInFront
  <2>3. CASE r.kind \in {"LF_CLASS", "LF_STRUCTURE", "LF_CLASS2", "LF_STRUCTURE2", "LF_UNION"}
    <3>1. n = Named(LeafNameUnderTwoBytes(r))
      BY <1>1, <1>6, <2>3 DEF ResolvedWith, Functions
    <3>2. r.leaf = "below LF_NUMERIC"
      <4>1. t - stream.typeIndexBegin \in DOMAIN stream.content
        BY <2>1, TPIStreamShape DEF TypeIndices
      <4> QED  BY <2>3, <4>1 DEF TypesAreSmall, RecordOf, Definitions, LargeClasses
    <3>3. NameAt(t) = r.name  BY <2>1, <2>3 DEF NameAt, Functions
    <3> QED  BY <1>3, <1>4, <2>1, <2>3, <3>1, <3>2, <3>3 DEF LeafNameUnderTwoBytes
  <2>4. CASE r.kind = "LF_ENUM"
    <3>1. n = Named(r.name)
      BY <1>1, <1>6, <2>4 DEF ResolvedWith, Functions
    <3>2. NameAt(t) = r.name  BY <2>1, <2>4 DEF NameAt, Functions
    <3> QED  BY <1>3, <1>4, <2>1, <2>4, <3>1, <3>2
  <2>5. CASE r.kind \in Functions
    <3>1. n = Unnamable(t)
      BY <1>1, <1>6, <2>5 DEF ResolvedWith, Functions
    <3>2. IsName(n) /\ n.name = NullName /\ n.level = 0
      BY <3>1 DEF Unnamable, Named, IsName
    <3>3. NameAt(t) = NullName  BY <2>1, <2>5 DEF NameAt, Functions
    <3> QED  BY <1>3, <2>1, <2>5, <3>2, <3>3 DEF Functions
  <2>6. CASE r.kind = "LF_BITFIELD"
    <3>1. r.kind \notin Definitions \cup LargeClasses \cup Functions \cup {"built-in"}
      BY <2>6 DEF Definitions, LargeClasses, Functions
    <3>2. CASE IsRecord(stream, r.type)
      <4>1. n = Unnamable(t)
        BY <1>1, <1>6, <2>6, <3>2 DEF ResolvedWith, Functions
      <4> QED  BY <2>1, <3>1, <4>1 DEF Unnamable, Named, IsName
    <3>3. CASE ~ IsRecord(stream, r.type)
      <4>1. r.type \in 0 .. (t - 1)
        <5>1. IndicesOf(r) \subseteq 0 .. (t - 1)  BY <1>6, RecordsInFront
        <5> QED  BY <2>6, <5>1 DEF IndicesOf, Definitions
      <4>2. IsName(Resolve(stream)[r.type])  BY <4>1 DEF IsNamed
      <4>3. n = [Resolve(stream)[r.type] EXCEPT !.referenced = t]
        BY <1>1, <1>6, <2>6, <3>3 DEF ResolvedWith, Functions
      <4>4. IsName(n)  BY <4>2, <4>3 DEF IsName
      <4> QED  BY <2>1, <3>1, <4>4
    <3> QED  BY <3>2, <3>3
  <2>7. CASE r.kind \in {"LF_MODIFIER", "LF_POINTER", "LF_ARRAY"}
    <3>1. RouteOf(t) = <<t>> \o RouteOf(MadeOf(t)) /\ MadeOf(t) \in 0 .. (t - 1)
      BY <2>1, <2>7, RouteGoesOn, MadeOfTypesInFront
    <3>2. RouteOf(MadeOf(t)) \in Seq(Nat) /\ Len(RouteOf(MadeOf(t))) > 0
      BY <3>1 DEF IsNamed
    <3>3. Len(<<t>> \o RouteOf(MadeOf(t))) = 1 + Len(RouteOf(MadeOf(t)))
      BY <3>2
    <3>4. Len(RouteOf(t)) = 1  BY <1>2
    <3>5. Len(RouteOf(t)) = 1 + Len(RouteOf(MadeOf(t)))  BY <3>1, <3>3
    <3> HIDE DEF r
    <3> QED  BY <3>2, <3>4, <3>5
  <2>8. CASE r.kind \notin {"LF_MODIFIER", "LF_POINTER", "LF_ARRAY", "LF_BITFIELD"}
                             \cup Functions \cup Definitions \cup LargeClasses
    <3>1. n = Named("unknown_type")
      BY <1>1, <1>6, <2>8 DEF ResolvedWith, Functions, Definitions, LargeClasses
    <3> QED  BY <1>4, <2>1, <2>2, <2>8, <3>1
  <2> QED  BY <2>3, <2>4, <2>5, <2>6, <2>7, <2>8 DEF Definitions, LargeClasses
<1> QED  BY <1>5, <1>6

\* Any other has the name of the type it is made of.
LEMMA NameGoesOn ==
  ASSUME stream \in TPIStreams, NEW t \in TypeIndices,
         \A u \in 0 .. (t - 1) : IsNamed(u),
         RecordOf(stream, t).kind \in {"LF_MODIFIER", "LF_POINTER", "LF_ARRAY"}
  PROVE  IsNamed(t)
<1> DEFINE n == Resolve(stream)[t]
           r == RecordOf(stream, t)
           u == MadeOf(t)
           behind == Resolve(stream)[u]
           last == Last(RouteOf(u))
           IsLast == KindOf(stream, last) \in
                       Definitions \cup LargeClasses \cup Functions \cup {"built-in"}
<1>1. n = ResolvedWith(stream, Resolve(stream), t)
  <2>1. t \in 0 .. (stream.typeIndexEnd - 1)  BY TPIStreamShape DEF TypeIndices
  <2> QED  BY <2>1, NamesAreFound
<1>2. IsRecord(stream, t) /\ KindOf(stream, t) = r.kind /\ t \in Nat
  BY MadeOfTypesInFront DEF KindOf
<1>3. u \in 0 .. (t - 1)  BY MadeOfTypesInFront
<1>4. IsNamed(u)  BY <1>3
<1>5. RouteOf(u) \in Seq(Nat) /\ Len(RouteOf(u)) > 0 /\ RouteOf(t) = <<t>> \o RouteOf(u)
  BY <1>4, RouteGoesOn DEF IsNamed
<1>6. RouteOf(t) \in Seq(Nat) /\ Len(RouteOf(t)) > 0 /\ Last(RouteOf(t)) = last
  <2>1. Len(RouteOf(u)) \in Nat  BY <1>5
  <2>2. RouteOf(t) \in Seq(Nat) /\ Len(RouteOf(t)) = 1 + Len(RouteOf(u))  BY <1>2, <1>5
  <2>3. RouteOf(t)[1 + Len(RouteOf(u))] = RouteOf(u)[Len(RouteOf(u))]
    BY <1>2, <1>5, <2>1
  <2> QED  BY <1>5, <2>1, <2>2, <2>3 DEF Last
<1>7. IsName(behind)  BY <1>4 DEF IsNamed
<1>8. IsLast => behind.name = NameAt(last) /\ behind.level = Pointers(RouteOf(u))
  BY <1>4 DEF IsNamed
<1>9. /\ Pointers(RouteOf(u)) \in Nat
      /\ r.kind = "LF_POINTER" => Pointers(RouteOf(t)) = Pointers(RouteOf(u)) + 1
      /\ r.kind # "LF_POINTER" => Pointers(RouteOf(t)) = Pointers(RouteOf(u))
  BY <1>2, <1>5, PointersBehind
<1> HIDE DEF n, behind, u, last
<1> SUFFICES /\ IsName(n) /\ n.name = behind.name
             /\ r.kind = "LF_POINTER" => n.level = behind.level + 1
             /\ r.kind # "LF_POINTER" => n.level = behind.level
  <2>1. CASE r.kind = "LF_POINTER"
    <3>1. IsLast => n.name = NameAt(last) /\ n.level = Pointers(RouteOf(t))
      BY <1>8, <1>9, <2>1
    <3> QED  BY <1>6, <3>1 DEF IsNamed, n
  <2>2. CASE r.kind # "LF_POINTER"
    <3>1. IsLast => n.name = NameAt(last) /\ n.level = Pointers(RouteOf(t))
      BY <1>8, <1>9, <2>2
    <3> QED  BY <1>6, <3>1 DEF IsNamed, n
  <2> QED  BY <2>1, <2>2
<1>10. CASE r.kind = "LF_MODIFIER"
  <2>1. n = [behind EXCEPT !.modifier = t]
    BY <1>1, <1>2, <1>10 DEF ResolvedWith, Functions, MadeOf, behind, u
  <2> QED  BY <1>7, <1>10, <2>1 DEF IsName
<1>11. CASE r.kind = "LF_ARRAY"
  <2>1. n = [behind EXCEPT !.referenced = t]
    BY <1>1, <1>2, <1>11 DEF ResolvedWith, Functions, MadeOf, behind, u
  <2> QED  BY <1>7, <1>11, <2>1 DEF IsName
<1>12. CASE r.kind = "LF_POINTER"
  <2>1. u = r.utype  BY <1>12 DEF MadeOf, u
  <2>2. CASE KindOf(stream, u) = "LF_POINTER"
    <3>1. n = [behind EXCEPT !.level = @ + 1]
      BY <1>1, <1>2, <1>12, <2>1, <2>2 DEF ResolvedWith, Functions, behind
    <3> QED  BY <1>7, <1>12, <3>1 DEF IsName
  <2>3. CASE KindOf(stream, u) = "LF_MODIFIER"
    <3> DEFINE v == RecordOf(stream, u).type
               target == Resolve(stream)[v]
    <3>1. n = [target EXCEPT !.level = @ + 1, !.modifier = u]
      BY <1>1, <1>2, <1>12, <2>1, <2>3 DEF ResolvedWith, Functions, ThroughModifiedPointer
    <3>2. RecordOf(stream, u).kind = "LF_MODIFIER" /\ IsRecord(stream, u)
      BY <2>3 DEF KindOf
    <3>3. behind = [target EXCEPT !.modifier = u]
      <4>1. u \in 0 .. (stream.typeIndexEnd - 1)
        BY <1>2, <1>3, <3>2, TPIStreamShape DEF IsRecord
      <4>2. behind = ResolvedWith(stream, Resolve(stream), u)
        BY <4>1, NamesAreFound DEF behind
      <4> QED  BY <3>2, <4>2 DEF ResolvedWith, Functions
    <3>4. IsName(target)
      <4>1. IndicesOf(RecordOf(stream, u)) \subseteq 0 .. (u - 1)
        BY <3>2, RecordsInFront
      <4>2. v \in 0 .. (u - 1)  BY <3>2, <4>1 DEF IndicesOf, Definitions
      <4>3. v \in 0 .. (t - 1)  BY <1>2, <1>3, <4>2 DEF u
      <4> QED  BY <4>3 DEF IsNamed
    <3> HIDE DEF target
    <3> QED  BY <1>12, <3>1, <3>3, <3>4 DEF IsName
  <2>4. CASE KindOf(stream, u) \notin {"LF_POINTER", "LF_MODIFIER"}
    <3>1. n = [behind EXCEPT !.level = @ + 1, !.referenced = t]
      BY <1>1, <1>2, <1>12, <2>1, <2>4 DEF ResolvedWith, Functions, behind
    <3> QED  BY <1>7, <1>12, <3>1 DEF IsName
  <2> QED  BY <2>2, <2>3, <2>4
<1> QED  BY <1>10, <1>11, <1>12

\* Type by type.
LEMMA EveryTypeIsNamed ==
  ASSUME stream \in TPIStreams, TypesAreSmall
  PROVE  \A t \in 0 .. (stream.typeIndexEnd - 1) : IsNamed(t)
<1> DEFINE All_t == 0 .. (stream.typeIndexEnd - 1)
           T == {t \in All_t : ~ IsNamed(t)}
<1>1. stream.typeIndexEnd \in Nat  BY TPIStreamShape
<1>2. ASSUME T # {} PROVE FALSE
  <2>1. T \in SUBSET Nat  BY <1>1
  <2>2. PICK m \in T : \A n \in T : m <= n
    <3> HIDE DEF T
    <3> QED  BY <1>2, <2>1, LeastNatural
  <2>3. m \in All_t /\ ~ IsNamed(m)  BY <2>2
  <2>4. ASSUME NEW u \in 0 .. (m - 1) PROVE IsNamed(u)
    <3>1. u \in All_t /\ ~ (m <= u)  BY <1>1, <2>3
    <3> QED  BY <2>2, <3>1
  <2>5. CASE RouteOf(m) = <<m>>
    BY <2>3, <2>4, <2>5, NameOfLast
  <2>6. CASE RouteOf(m) # <<m>>
    <3>1. m \in TypeIndices  BY <2>6 DEF RouteOf
    <3>2. RecordOf(stream, m).kind \in {"LF_MODIFIER", "LF_POINTER", "LF_ARRAY"}
      BY <2>6, <3>1, RouteGoesOn
    <3> QED  BY <2>3, <2>4, <3>1, <3>2, NameGoesOn
  <2> QED  BY <2>5, <2>6
<1> QED  BY <1>2

\* A name is that of the type all the pointers, modifiers and arrays lead to, and every
\* pointer on the way is counted, in every stream without types of 32 KiB and more.
THEOREM NamesAlwaysResolve ==
  ASSUME TypesAreSmall
  PROVE  MainSpec => []NamesResolve
<1>1. ASSUME Walking PROVE NamesResolve
  <2>1. stream \in TPIStreams  BY <1>1 DEF Walking
  <2>2. ASSUME NEW t \in TypeIndices PROVE IsNamed(t) /\ RouteOf(t) = Route[t]
    <3>1. t \in 0 .. (stream.typeIndexEnd - 1)  BY <2>1, TPIStreamShape DEF TypeIndices
    <3> QED  BY <2>1, <3>1, EveryTypeIsNamed DEF RouteOf
  <2> QED  BY <2>2 DEF NamesResolve, IsNamed, NameAt, Pointers
<1> QED  BY <1>1, TableIsInStep, PTL

-----------------------------------------------------------------------------
(* The texts of types.                                                     *)

\* The names of built-in types are told from the marker and from a missing name.
LEMMA BuiltInNames ==
  ASSUME NEW t
  PROVE  BuiltInName(t) \notin NoIdentifiers
<1> USE DEF NoIdentifiers, Marker, NullName, NoName
<1>1. ASSUME NEW type, NEW called, NEW pointer, NEW modes
      PROVE  /\ BuiltIn(type, called, pointer, modes).name = called
             /\ BuiltIn(type, called, pointer, modes).pointer = pointer
  BY DEF BuiltIn
<1>2. \A b \in BuiltIns : b.name \notin NoIdentifiers /\ b.pointer \notin NoIdentifiers
  <2>1. \A b \in BuiltInCharacters : b.name \notin NoIdentifiers
    BY <1>1 DEF BuiltInCharacters
  <2>2. \A b \in BuiltInCharacters : b.pointer \notin NoIdentifiers
    BY <1>1 DEF BuiltInCharacters
  <2>3. \A b \in BuiltInNumbers : b.name \notin NoIdentifiers /\ b.pointer \notin NoIdentifiers
    BY <1>1 DEF BuiltInNumbers
  <2> QED  BY <2>1, <2>2, <2>3 DEF BuiltIns
<1> DEFINE known == {b \in BuiltIns : b.type = t % 256 /\ t \div 256 \in b.modes}
           builtIn == CHOOSE b \in known : TRUE
<1>3. known # {} => builtIn \in BuiltIns  OBVIOUS
<1>4. known # {} => builtIn.name \notin NoIdentifiers /\ builtIn.pointer \notin NoIdentifiers
  BY <1>2, <1>3
<1> HIDE DEF builtIn
<1>5. BuiltInName(t) \in {"void", "UNKNOWN_0x0600", Unhandled}
                         \cup (IF known # {} THEN {builtIn.name, builtIn.pointer} ELSE {})
  <2> HIDE DEF known
  <2> QED  BY DEF BuiltInName, known, builtIn
<1> QED  BY <1>4, <1>5 DEF Unhandled

\* What GetTypeName leaves in its parameters for a type t.
IsSound(s, t, n) ==
  /\ IsName(n) /\ n.level \in Nat
  /\ n.name # Marker
  /\ n.name = NullName => n.referenced # NoRecord
  /\ n.referenced # NoRecord => IsRecord(s, n.referenced) /\ n.referenced <= t
  /\ n.modifier # NoRecord =>
       IsRecord(s, n.modifier) /\ RecordOf(s, n.modifier).kind = "LF_MODIFIER"

\* Each of the ways GetTypeName goes on from a name keeps what it leaves sound.
LEMMA SoundNames ==
  ASSUME NEW s \in TPIStreams, NEW t \in Nat
  PROVE  /\ \A called : called \notin NoIdentifiers => IsSound(s, t, Named(called))
         /\ IsRecord(s, t) => IsSound(s, t, Unnamable(t))
         /\ \A n : \A u \in Nat : u <= t /\ IsSound(s, u, n) =>
              /\ IsSound(s, t, n)
              /\ IsSound(s, t, [n EXCEPT !.level = @ + 1])
              /\ IsRecord(s, t) => IsSound(s, t, [n EXCEPT !.referenced = t])
              /\ \A m : IsRecord(s, m) /\ RecordOf(s, m).kind = "LF_MODIFIER" =>
                   IsSound(s, t, [n EXCEPT !.modifier = m])
<1>1. ASSUME NEW called, called \notin NoIdentifiers PROVE IsSound(s, t, Named(called))
  BY <1>1 DEF IsSound, Named, IsName, NoIdentifiers, NoRecord
<1>2. ASSUME IsRecord(s, t) PROVE IsSound(s, t, Unnamable(t))
  <2>1. NullName # Marker  BY DEF NullName, Marker
  <2>2. Unnamable(t) = [name |-> NullName, level |-> 0, referenced |-> t, modifier |-> NoRecord]
    BY DEF Unnamable, Named
  <2>3. t # NoRecord  BY DEF NoRecord
  <2> QED  BY <1>2, <2>1, <2>2, <2>3 DEF IsSound, IsName
<1>3. ASSUME NEW u \in Nat, NEW n, u <= t, IsSound(s, u, n)
      PROVE  /\ IsSound(s, t, n)
             /\ IsSound(s, t, [n EXCEPT !.level = @ + 1])
             /\ IsRecord(s, t) => IsSound(s, t, [n EXCEPT !.referenced = t])
             /\ \A m : IsRecord(s, m) /\ RecordOf(s, m).kind = "LF_MODIFIER" =>
                  IsSound(s, t, [n EXCEPT !.modifier = m])
  <2>1. IsName(n) /\ n.level \in Nat /\ n.level + 1 \in Nat  BY <1>3 DEF IsSound
  <2>2. n.referenced # NoRecord => n.referenced <= t
    <3>1. n.referenced # NoRecord => IsRecord(s, n.referenced) /\ n.referenced <= u
      BY <1>3 DEF IsSound
    <3>2. n.referenced # NoRecord => n.referenced \in Nat
      BY <3>1, TPIStreamShape DEF IsRecord
    <3> QED  BY <1>3, <3>1, <3>2
  <2>3. t # NoRecord /\ t <= t  BY DEF NoRecord
  <2>4. IsSound(s, t, n)  BY <1>3, <2>2 DEF IsSound
  <2>5. IsSound(s, t, [n EXCEPT !.level = @ + 1])
    <3>1. /\ [n EXCEPT !.level = @ + 1]
               = [name |-> n.name, level |-> n.level + 1, referenced |-> n.referenced,
                  modifier |-> n.modifier]
      BY <2>1 DEF IsName
    <3> QED  BY <2>1, <2>4, <3>1 DEF IsSound, IsName
  <2>6. ASSUME IsRecord(s, t) PROVE IsSound(s, t, [n EXCEPT !.referenced = t])
    <3>1. /\ [n EXCEPT !.referenced = t]
               = [name |-> n.name, level |-> n.level, referenced |-> t,
                  modifier |-> n.modifier]
      BY <2>1 DEF IsName
    <3> QED  BY <2>3, <2>4, <2>6, <3>1 DEF IsSound, IsName
  <2>7. ASSUME NEW m, IsRecord(s, m), RecordOf(s, m).kind = "LF_MODIFIER"
        PROVE  IsSound(s, t, [n EXCEPT !.modifier = m])
    <3>1. /\ [n EXCEPT !.modifier = m]
               = [name |-> n.name, level |-> n.level, referenced |-> n.referenced,
                  modifier |-> m]
      BY <2>1 DEF IsName
    <3> QED  BY <2>4, <2>7, <3>1 DEF IsSound, IsName
  <2> QED  BY <2>4, <2>5, <2>6, <2>7
<1> QED  BY <1>1, <1>2, <1>3

\* One type, given those in front.
LEMMA NameIsSound ==
  ASSUME NEW s \in TPIStreams, NEW t \in 0 .. (s.typeIndexEnd - 1),
         \A u \in 0 .. (t - 1) : IsSound(s, u, Resolve(s)[u])
  PROVE  IsSound(s, t, Resolve(s)[t])
<1> DEFINE n == Resolve(s)[t]
           r == RecordOf(s, t)
           Earlier == 0 .. (t - 1)
<1>1. n = ResolvedWith(s, Resolve(s), t)  BY NamesAreFound
<1>2. t \in Nat  BY TPIStreamShape
<1>3. ASSUME NEW called, called \notin NoIdentifiers PROVE IsSound(s, t, Named(called))
  BY <1>2, <1>3, SoundNames
<1>4. \A u \in Earlier : u \in Nat /\ u <= t /\ IsSound(s, u, Resolve(s)[u])
  BY <1>2
<1> HIDE DEF n
<1>5. CASE ~ IsRecord(s, t)
  <2>1. n = Named(BuiltInName(t))  BY <1>1, <1>5 DEF ResolvedWith
  <2> QED  BY <1>3, <2>1, BuiltInNames DEF n
<1>6. CASE IsRecord(s, t)
  <2>1. IndicesOf(r) \subseteq Earlier  BY <1>6, RecordsInFront
  <2>2. r.kind \in Definitions \cup LargeClasses => r.name \notin NoIdentifiers
    <3>1. t - s.typeIndexBegin \in DOMAIN s.content  BY <1>6, TPIStreamShape DEF IsRecord
    <3> QED  BY <3>1, ContentAssumption DEF IsContent, RecordOf
  <2>3. IsSound(s, t, Unnamable(t))  BY <1>2, <1>6, SoundNames
  <2>4. CASE r.kind = "LF_MODIFIER"
    <3>1. r.type \in Earlier  BY <2>1, <2>4 DEF IndicesOf, Definitions
    <3>2. n = [Resolve(s)[r.type] EXCEPT !.modifier = t]
      BY <1>1, <1>6, <2>4 DEF ResolvedWith, Functions
    <3>3. r.type \in Nat /\ r.type <= t /\ IsSound(s, r.type, Resolve(s)[r.type])
      BY <1>4, <3>1
    <3>4. IsSound(s, t, [Resolve(s)[r.type] EXCEPT !.modifier = t])
      BY <1>2, <1>6, <2>4, <3>3, SoundNames
    <3> QED  BY <3>2, <3>4 DEF n
  <2>5. CASE r.kind = "LF_POINTER"
    <3> DEFINE u == r.utype
    <3>1. u \in Earlier  BY <2>1, <2>5 DEF IndicesOf, Definitions
    <3> HIDE DEF u
    <3>2. CASE KindOf(s, u) = "LF_POINTER"
      <4>1. n = [Resolve(s)[u] EXCEPT !.level = @ + 1]
        BY <1>1, <1>6, <2>5, <3>2 DEF ResolvedWith, Functions, u
      <4> QED  BY <1>2, <1>4, <3>1, <4>1, SoundNames DEF n
    <3>3. CASE KindOf(s, u) = "LF_MODIFIER"
      <4> DEFINE v == RecordOf(s, u).type
                 counted == [Resolve(s)[v] EXCEPT !.level = @ + 1]
      <4>1. RecordOf(s, u).kind = "LF_MODIFIER" /\ IsRecord(s, u)  BY <3>3 DEF KindOf
      <4>2. v \in 0 .. (u - 1)  BY <4>1, RecordsInFront DEF IndicesOf, Definitions
      <4>3. v \in Earlier  BY <1>2, <3>1, <4>2
      <4> HIDE DEF v
      <4>4. n = [Resolve(s)[v] EXCEPT !.level = @ + 1, !.modifier = u]
        BY <1>1, <1>6, <2>5, <3>3 DEF ResolvedWith, ThroughModifiedPointer, Functions, u, v
      <4>5. n = [counted EXCEPT !.modifier = u]  BY <4>4
      <4>6. IsSound(s, t, counted)  BY <1>2, <1>4, <4>3, SoundNames
      <4> HIDE DEF counted
      <4>7. IsSound(s, t, [counted EXCEPT !.modifier = u])
        <5>1. t <= t  BY <1>2
        <5> QED  BY <1>2, <4>1, <4>6, <5>1, SoundNames
      <4> QED  BY <4>5, <4>7 DEF n
    <3>4. CASE KindOf(s, u) \notin {"LF_POINTER", "LF_MODIFIER"}
      <4> DEFINE counted == [Resolve(s)[u] EXCEPT !.level = @ + 1]
      <4>1. n = [Resolve(s)[u] EXCEPT !.level = @ + 1, !.referenced = t]
        BY <1>1, <1>6, <2>5, <3>4 DEF ResolvedWith, Functions, u
      <4>2. n = [counted EXCEPT !.referenced = t]  BY <4>1
      <4>3. IsSound(s, t, counted)  BY <1>2, <1>4, <3>1, SoundNames
      <4> HIDE DEF counted
      <4>4. IsSound(s, t, [counted EXCEPT !.referenced = t])
        <5>1. t <= t  BY <1>2
        <5> QED  BY <1>2, <1>6, <4>3, <5>1, SoundNames
      <4> QED  BY <4>2, <4>4 DEF n
    <3> QED  BY <3>2, <3>3, <3>4
  <2>6. CASE r.kind \in Functions
    <3>1. n = Unnamable(t)  BY <1>1, <1>6, <2>6 DEF ResolvedWith, Functions
    <3> QED  BY <2>3, <3>1 DEF n
  <2>7. CASE r.kind = "LF_BITFIELD"
    <3>1. r.type \in Earlier  BY <2>1, <2>7 DEF IndicesOf, Definitions
    <3>2. n = Unnamable(t) \/ n = [Resolve(s)[r.type] EXCEPT !.referenced = t]
      BY <1>1, <1>6, <2>7 DEF ResolvedWith, Functions
    <3>3. IsSound(s, t, [Resolve(s)[r.type] EXCEPT !.referenced = t])
      BY <1>2, <1>4, <1>6, <3>1, SoundNames
    <3> QED  BY <2>3, <3>2, <3>3 DEF n
  <2>8. CASE r.kind = "LF_ARRAY"
    <3>1. r.elemtype \in Earlier  BY <2>1, <2>8 DEF IndicesOf, Definitions
    <3>2. n = [Resolve(s)[r.elemtype] EXCEPT !.referenced = t]
      BY <1>1, <1>6, <2>8 DEF ResolvedWith, Functions
    <3>3. IsSound(s, t, [Resolve(s)[r.elemtype] EXCEPT !.referenced = t])
      BY <1>2, <1>4, <1>6, <3>1, SoundNames
    <3> QED  BY <3>2, <3>3 DEF n
  <2>9. CASE r.kind \in {"LF_CLASS", "LF_STRUCTURE", "LF_CLASS2", "LF_STRUCTURE2", "LF_UNION"}
    <3>1. n = Named(LeafNameUnderTwoBytes(r))
      BY <1>1, <1>6, <2>9 DEF ResolvedWith, Functions
    <3>2. LeafNameUnderTwoBytes(r) \notin NoIdentifiers
      <4>1. r.name \notin NoIdentifiers  BY <2>2, <2>9 DEF Definitions, LargeClasses
      <4>2. Garbage \notin NoIdentifiers  BY DEF Garbage, NoIdentifiers, Marker, NullName, NoName
      <4> QED  BY <4>1, <4>2 DEF LeafNameUnderTwoBytes
    <3> QED  BY <1>3, <3>1, <3>2 DEF n
  <2>10. CASE r.kind = "LF_ENUM"
    <3>1. n = Named(r.name)  BY <1>1, <1>6, <2>10 DEF ResolvedWith, Functions
    <3>2. r.name \notin NoIdentifiers  BY <2>2, <2>10 DEF Definitions
    <3> QED  BY <1>3, <3>1, <3>2 DEF n
  <2>11. CASE r.kind \notin {"LF_MODIFIER", "LF_POINTER", "LF_ARRAY", "LF_BITFIELD"}
                              \cup Functions \cup Definitions \cup LargeClasses
    <3>1. n = Named("unknown_type")
      BY <1>1, <1>6, <2>11 DEF ResolvedWith, Functions, Definitions, LargeClasses
    <3>2. "unknown_type" \notin NoIdentifiers  BY DEF NoIdentifiers, Marker, NullName, NoName
    <3> QED  BY <1>3, <3>1, <3>2 DEF n
  <2> QED  BY <2>4, <2>5, <2>6, <2>7, <2>8, <2>9, <2>10, <2>11 DEF Definitions, LargeClasses
<1> QED  BY <1>5, <1>6

\* All types.
LEMMA EveryNameIsSound ==
  ASSUME NEW s \in TPIStreams
  PROVE  \A t \in 0 .. (s.typeIndexEnd - 1) : IsSound(s, t, Resolve(s)[t])
<1> DEFINE Indices == 0 .. (s.typeIndexEnd - 1)
           T == {t \in Indices : ~ IsSound(s, t, Resolve(s)[t])}
<1>1. s.typeIndexEnd \in Nat  BY TPIStreamShape
<1>2. ASSUME T # {} PROVE FALSE
  <2>1. T \in SUBSET Nat  BY <1>1
  <2>2. PICK m \in T : \A n \in T : m <= n
    <3> HIDE DEF T
    <3> QED  BY <1>2, <2>1, LeastNatural
  <2>3. m \in Indices /\ ~ IsSound(s, m, Resolve(s)[m])  BY <2>2
  <2>4. ASSUME NEW u \in 0 .. (m - 1) PROVE IsSound(s, u, Resolve(s)[u])
    <3>1. u \in Indices /\ ~ (m <= u)  BY <1>1, <2>3
    <3> QED  BY <2>2, <3>1
  <2> QED  BY <2>3, <2>4, NameIsSound
<1> QED  BY <1>2

-----------------------------------------------------------------------------
\* A set of positions has a last one.
LEMMA GreatestNatural ==
  ASSUME NEW n \in Nat, NEW T \in SUBSET (1 .. n), T # {}
  PROVE  \E m \in T : \A l \in T : m >= l
<1> DEFINE U == {n - l : l \in T}
<1>1. U \in SUBSET Nat /\ U # {}
  <2>1. ASSUME NEW l \in T PROVE n - l \in Nat
    <3>1. l \in 1 .. n  OBVIOUS
    <3> QED  BY <3>1
  <2> QED  BY <2>1
<1>2. PICK u \in U : \A v \in U : u <= v
  <2> HIDE DEF U
  <2> QED  BY <1>1, LeastNatural
<1>3. PICK m \in T : u = n - m  OBVIOUS
<1>4. ASSUME NEW l \in T PROVE m >= l
  <2>1. n - m <= n - l  BY <1>2, <1>3
  <2>2. m \in 1 .. n /\ l \in 1 .. n  OBVIOUS
  <2> QED  BY <2>1, <2>2
<1> QED  BY <1>4

\* Where a type that is passed to a function, or returned, leads to.
LEMMA PassedLeads ==
  ASSUME NEW s \in TPIStreams, NEW t \in 0 .. (s.typeIndexEnd - 1), t \in PassedTypes(s),
         Resolve(s)[t].referenced # NoRecord
  PROVE  LET n == Resolve(s)[t]
             q == RecordOf(s, n.referenced)
         IN  /\ IsRecord(s, n.referenced) /\ n.referenced <= t
             /\ q.kind = "LF_POINTER" /\ q.utype \in 0 .. (t - 1)
             /\ n.name # NullName \/ KindOf(s, q.utype) \in Functions
<1> DEFINE n == Resolve(s)[t]
           p == n.referenced
           q == RecordOf(s, p)
<1>1. IsRecord(s, p) /\ p <= t  BY EveryNameIsSound DEF IsSound
<1>2. q.kind = "LF_POINTER" /\ (n.name # NullName \/ KindOf(s, q.utype) \in Functions)
  BY ContentAssumption
<1> HIDE DEF p
<1>3. IndicesOf(q) \subseteq 0 .. (p - 1) /\ p \in Nat  BY <1>1, RecordsInFront
<1>4. q.utype \in 0 .. (p - 1)  BY <1>2, <1>3 DEF IndicesOf, Definitions
<1>5. t \in Nat  BY TPIStreamShape
<1>6. q.utype \in 0 .. (t - 1)  BY <1>1, <1>3, <1>4, <1>5
<1> QED  BY <1>1, <1>2, <1>6 DEF p

\* What a function returns, takes and belongs to.
LEMMA FunctionLeads ==
  ASSUME NEW s \in TPIStreams, NEW t, KindOf(s, t) \in Functions
  PROVE  LET r == RecordOf(s, t)
             args == RecordOf(s, r.arglist).arg
             n == Resolve(s)
         IN  /\ t \in 0 .. (s.typeIndexEnd - 1) /\ IsRecord(s, t) /\ r.kind = KindOf(s, t)
             /\ r.rvtype \in 0 .. (t - 1) /\ r.rvtype \in PassedTypes(s)
             /\ args \in Seq(0 .. (t - 1)) /\ Range(args) \subseteq PassedTypes(s)
             /\ r.kind = "LF_MFUNCTION" => /\ r.classtype \in 0 .. (t - 1)
                                           /\ KindOf(s, r.classtype) \in Definitions \ {"LF_ENUM"}
<1> DEFINE r == RecordOf(s, t)
           k == t - s.typeIndexBegin
           list_r == RecordOf(s, r.arglist)
<1>1. /\ t \in s.typeIndexBegin .. (s.typeIndexEnd - 1) /\ k \in DOMAIN s.content
      /\ r = s.content[k] /\ r.kind = KindOf(s, t)
  BY RecordOfKind DEF Functions
<1>2. s.typeIndexBegin \in Nat \ {0} /\ s.typeIndexEnd \in Nat  BY TPIStreamShape
<1>3. t \in 0 .. (s.typeIndexEnd - 1) /\ IsRecord(s, t) /\ t \in Nat  BY <1>1, <1>2 DEF IsRecord
<1>4. IndicesOf(r) \subseteq 0 .. (t - 1)  BY <1>3, RecordsInFront
<1>5. r.rvtype \in 0 .. (t - 1) /\ r.arglist \in 0 .. (t - 1)
  BY <1>1, <1>4 DEF IndicesOf, Definitions, Functions
<1>6. r.rvtype \in PassedTypes(s)  BY <1>1 DEF PassedTypes
<1>7. /\ KindOf(s, r.arglist) = "LF_ARGLIST"
      /\ r.kind = "LF_MFUNCTION" => KindOf(s, r.classtype) \in Definitions \ {"LF_ENUM"}
  BY <1>1, ContentAssumption DEF IsContent
<1>8. r.kind = "LF_MFUNCTION" => r.classtype \in 0 .. (t - 1)
  BY <1>4 DEF IndicesOf, Definitions, Functions
<1> DEFINE kl == r.arglist - s.typeIndexBegin
<1>9. /\ kl \in DOMAIN s.content /\ list_r = s.content[kl] /\ list_r.kind = "LF_ARGLIST"
      /\ IsRecord(s, r.arglist)
  <2>1. KindOf(s, r.arglist) # "built-in"  BY <1>7
  <2> QED  BY <1>7, <2>1, RecordOfKind DEF IsRecord
<1>10. list_r.arg \in Seq(Nat)  BY <1>9, ContentAssumption DEF IsContent
<1>11. Range(list_r.arg) \subseteq 0 .. (r.arglist - 1)
  <2>1. IndicesOf(list_r) \subseteq 0 .. (r.arglist - 1)  BY <1>9, RecordsInFront
  <2> QED  BY <1>9, <2>1 DEF IndicesOf, Definitions, Functions
<1>12. list_r.arg \in Seq(0 .. (t - 1))
  <2> DEFINE args == list_r.arg
  <2>1. \A m \in 1 .. Len(args) : args[m] \in 0 .. (t - 1)
    <3>1. ASSUME NEW m \in 1 .. Len(args) PROVE args[m] \in 0 .. (t - 1)
      <4>1. args[m] \in 0 .. (r.arglist - 1)  BY <1>10, <1>11 DEF Range
      <4> HIDE DEF args, r
      <4> QED  BY <1>3, <1>5, <4>1
    <3> QED  BY <3>1
  <2>2. Len(args) \in Nat /\ args = [m \in 1 .. Len(args) |-> args[m]]  BY <1>10
  <2> DEFINE Earlier == 0 .. (t - 1)
  <2> HIDE DEF args, Earlier
  <2>3. PICK length \in Nat : length = Len(args)  BY <2>2
  <2>4. args \in [1 .. length -> Earlier]  BY <2>1, <2>2, <2>3 DEF Earlier
  <2>5. args \in Seq(Earlier)  BY <2>3, <2>4
  <2> QED  BY <2>5 DEF args, Earlier
<1>13. Range(list_r.arg) \subseteq PassedTypes(s)  BY <1>9 DEF PassedTypes
<1> QED  BY <1>1, <1>3, <1>5, <1>6, <1>7, <1>8, <1>12, <1>13

\* The function that is returned, of which a pointer is what GetTypeName refers to.
LEMMA ReturnedLeads ==
  ASSUME NEW s \in TPIStreams, NEW t, KindOf(s, t) \in Functions,
         Resolve(s)[RecordOf(s, t).rvtype].name = NullName
  PROVE  LET u == ReturnedFunction(s, Resolve(s), RecordOf(s, t))
         IN  u \in 0 .. (t - 1) /\ KindOf(s, u) \in Functions
<1> DEFINE p == RecordOf(s, t).rvtype
           n == Resolve(s)[p]
           u == RecordOf(s, n.referenced).utype
<1>1. /\ t \in 0 .. (s.typeIndexEnd - 1) /\ t \in Nat
      /\ p \in 0 .. (t - 1) /\ p \in PassedTypes(s)
  BY FunctionLeads
<1>2. p \in 0 .. (s.typeIndexEnd - 1) /\ p \in Nat  BY <1>1, TPIStreamShape
<1>3. n.referenced # NoRecord  BY <1>2, EveryNameIsSound DEF IsSound
<1>4. u \in 0 .. (p - 1) /\ KindOf(s, u) \in Functions  BY <1>1, <1>2, <1>3, PassedLeads
<1> HIDE DEF p, u
<1>5. u \in 0 .. (t - 1)  BY <1>1, <1>2, <1>4
<1> QED  BY <1>4, <1>5 DEF ReturnedFunction, u, p

\* What underlyingType is for argument number k.
LEMMA UnderlyingLeads ==
  ASSUME NEW s \in TPIStreams, NEW t, KindOf(s, t) \in Functions,
         NEW k \in DOMAIN RecordOf(s, RecordOf(s, t).arglist).arg
  PROVE  LET r == RecordOf(s, t)
             args == RecordOf(s, r.arglist).arg
             u == UnderlyingType(s, Resolve(s), r, SubSeq(args, 1, k))
             a == Resolve(s)[args[k]]
         IN  /\ KindOf(s, u) \in Functions => u \in 0 .. (t - 1)
             /\ a.referenced # NoRecord /\ KindOf(s, u) = "LF_MFUNCTION" =>
                  a.name # NullName \/ KindOf(s, RecordOf(s, a.referenced).utype) = "LF_MFUNCTION"
<1> DEFINE r == RecordOf(s, t)
           args == RecordOf(s, r.arglist).arg
           n == Resolve(s)
           front == SubSeq(args, 1, k)
           u == UnderlyingType(s, n, r, front)
           Leads(m) == n[args[m]].referenced # NoRecord
                       /\ IsRecord(s, RecordOf(s, n[args[m]].referenced).utype)
           leading == {m \in 1 .. k : Leads(m)}
           UtypeOf(m) == RecordOf(s, n[args[m]].referenced).utype
<1>1. /\ t \in 0 .. (s.typeIndexEnd - 1) /\ t \in Nat
      /\ args \in Seq(0 .. (t - 1)) /\ Range(args) \subseteq PassedTypes(s)
  BY FunctionLeads
<1>2. k \in 1 .. Len(args) /\ Len(args) \in Nat  BY <1>1
<1>3. front \in Seq(0 .. (t - 1)) /\ DOMAIN front = 1 .. k
      /\ \A m \in 1 .. k : front[m] = args[m] /\ m \in DOMAIN args
  <2>1. Len(front) = k  BY <1>1, <1>2
  <2> QED  BY <1>1, <1>2, <2>1
<1> HIDE DEF args, front
<1>4. u = IF leading # {} THEN UtypeOf(Max(leading))
          ELSE IF n[r.rvtype].name = NullName THEN ReturnedFunction(s, n, r) ELSE NoRecord
  <2> DEFINE referenced == [m \in DOMAIN front |-> n[front[m]].referenced]
             lead == {m \in DOMAIN front : referenced[m] # NoRecord
                                           /\ IsRecord(s, RecordOf(s, referenced[m]).utype)}
  <2>1. u = IF lead # {} THEN RecordOf(s, referenced[Max(lead)]).utype
            ELSE IF n[r.rvtype].name = NullName THEN ReturnedFunction(s, n, r) ELSE NoRecord
    BY DEF UnderlyingType
  <2>2. \A m \in 1 .. k : referenced[m] = n[args[m]].referenced  BY <1>3
  <2> HIDE DEF referenced
  <2>3. lead = leading  BY <1>3, <2>2
  <2>4. CASE leading = {}
    BY <2>1, <2>3, <2>4
  <2>5. CASE leading # {}
    <3>1. Max(leading) \in leading
      <4>1. PICK m \in leading : \A l \in leading : m >= l
        <5>1. k \in Nat /\ leading \in SUBSET (1 .. k)  BY <1>2
        <5> HIDE DEF leading
        <5> QED  BY <2>5, <5>1, GreatestNatural
      <4> HIDE DEF leading
      <4> QED  BY <4>1 DEF Max
    <3>2. Max(leading) \in 1 .. k  BY <3>1
    <3> HIDE DEF lead, leading
    <3> QED  BY <2>1, <2>2, <2>3, <2>5, <3>2
  <2> QED  BY <2>4, <2>5
<1>5. ASSUME NEW m \in 1 .. k, n[args[m]].referenced # NoRecord
      PROVE  /\ UtypeOf(m) \in 0 .. (t - 1)
             /\ n[args[m]].name # NullName \/ KindOf(s, UtypeOf(m)) \in Functions
  <2> DEFINE p == args[m]
  <2>1. p \in 0 .. (t - 1) /\ p \in PassedTypes(s)
    BY <1>1, <1>3 DEF Range
  <2> HIDE DEF p
  <2>2. p \in 0 .. (s.typeIndexEnd - 1) /\ p \in Nat  BY <1>1, <2>1, TPIStreamShape
  <2>3. /\ RecordOf(s, n[p].referenced).utype \in 0 .. (p - 1)
        /\ n[p].name # NullName \/ KindOf(s, RecordOf(s, n[p].referenced).utype) \in Functions
    BY <1>5, <2>1, <2>2, PassedLeads DEF p
  <2> DEFINE v == RecordOf(s, n[p].referenced).utype
  <2> HIDE DEF v
  <2>4. v \in 0 .. (p - 1)  BY <2>3 DEF v
  <2>5. v \in 0 .. (t - 1)  BY <1>1, <2>1, <2>2, <2>4
  <2> QED  BY <2>3, <2>5 DEF v, p
<1>6. \A m \in leading : m \in 1 .. k /\ Leads(m)  OBVIOUS
<1>7. leading # {} => /\ Max(leading) \in leading
                      /\ \A l \in leading : Max(leading) >= l
  <2>1. k \in Nat /\ leading \in SUBSET (1 .. k)  BY <1>2
  <2> HIDE DEF leading
  <2> QED  BY <2>1, GreatestNatural DEF Max
<1>8. k \in leading <=> Leads(k)  BY <1>2
<1> HIDE DEF leading, u
<1>9. KindOf(s, u) \in Functions => u \in 0 .. (t - 1)
  <2>1. CASE leading # {}
    <3>1. Max(leading) \in 1 .. k /\ n[args[Max(leading)]].referenced # NoRecord
      BY <1>6, <1>7, <2>1
    <3> HIDE DEF UtypeOf
    <3> QED  BY <1>4, <1>5, <2>1, <3>1
  <2>2. CASE leading = {} /\ n[r.rvtype].name = NullName
    BY <1>4, <2>2, ReturnedLeads
  <2>3. CASE leading = {} /\ n[r.rvtype].name # NullName
    <3>1. u = NoRecord  BY <1>4, <2>3
    <3>2. KindOf(s, NoRecord) = "built-in"
      BY TPIStreamShape DEF KindOf, IsRecord, NoRecord
    <3> QED  BY <3>1, <3>2 DEF Functions
  <2> QED  BY <2>1, <2>2, <2>3
<1>10. ASSUME n[args[k]].referenced # NoRecord, KindOf(s, u) = "LF_MFUNCTION",
              n[args[k]].name = NullName
       PROVE  KindOf(s, UtypeOf(k)) = "LF_MFUNCTION"
  <2>1. k \in 1 .. k  BY <1>2
  <2>2. KindOf(s, UtypeOf(k)) \in Functions  BY <1>5, <1>10, <2>1
  <2>3. IsRecord(s, UtypeOf(k))  BY <2>2 DEF KindOf, Functions
  <2>4. k \in leading  BY <1>8, <1>10, <2>3
  <2>5. Max(leading) = k
    <3>1. Max(leading) \in 1 .. k /\ Max(leading) >= k  BY <1>6, <1>7, <2>4
    <3> QED  BY <1>2, <3>1
  <2>6. u = UtypeOf(k)  BY <1>4, <2>4, <2>5
  <2> QED  BY <1>10, <2>6
<1> QED  BY <1>9, <1>10 DEF u, front, args

\* What a text depends on: the texts of types in front.
LEMMA PrototypeOfTypesInFront ==
  ASSUME NEW s \in TPIStreams, NEW t, KindOf(s, t) \in Functions, NEW f, NEW g,
         \A u \in 0 .. (t - 1) : f[u] = g[u]
  PROVE  Prototype(s, Resolve(s), f, RecordOf(s, t)) = Prototype(s, Resolve(s), g, RecordOf(s, t))
<1> DEFINE r == RecordOf(s, t)
           args == RecordOf(s, r.arglist).arg
           n == Resolve(s)
           Underlying(k) == UnderlyingType(s, n, r, SubSeq(args, 1, k))
           Spelled(h, k) == Argument(s, h, args[k], n[args[k]], Underlying(k))
                              \o (IF k < Len(args) THEN <<",">> ELSE <<>>)
<1>1. args \in Seq(0 .. (t - 1))  BY FunctionLeads
<1>2. ReturnType(s, n, f, r) = ReturnType(s, n, g, r)
  <2>1. CASE n[r.rvtype].name # NullName
    BY <2>1 DEF ReturnType
  <2>2. CASE n[r.rvtype].name = NullName
    <3>1. ReturnedFunction(s, n, r) \in 0 .. (t - 1)  BY <2>2, ReturnedLeads
    <3> QED  BY <2>2, <3>1 DEF ReturnType
  <2> QED  BY <2>1, <2>2
<1>3. ASSUME NEW k \in DOMAIN args PROVE Spelled(f, k) = Spelled(g, k)
  <2>1. args[k] \in 0 .. (t - 1)
    <3> DEFINE Earlier == 0 .. (t - 1)
    <3>1. args \in Seq(Earlier) /\ k \in DOMAIN args  BY <1>1
    <3> HIDE DEF args, Earlier
    <3>2. DOMAIN args = 1 .. Len(args)  BY <3>1
    <3>3. args[k] \in Earlier  BY <3>1, <3>2
    <3> QED  BY <3>3 DEF Earlier
  <2>2. KindOf(s, Underlying(k)) \in Functions => Underlying(k) \in 0 .. (t - 1)
    BY UnderlyingLeads
  <2> HIDE DEF args, Underlying
  <2>3. Argument(s, f, args[k], n[args[k]], Underlying(k))
          = Argument(s, g, args[k], n[args[k]], Underlying(k))
    <3>1. f[args[k]] = g[args[k]]  BY <2>1
    <3>2. KindOf(s, Underlying(k)) \in Functions => f[Underlying(k)] = g[Underlying(k)]
      BY <2>2
    <3> QED  BY <3>1, <3>2 DEF Argument, Functions
  <2> QED  BY <2>3
<1>4. ASSUME NEW h
      PROVE  Prototype(s, n, h, r)
               = ReturnType(s, n, h, r)
                   \o (IF r.kind = "LF_PROCEDURE" THEN <<"(*", Marker, ")", "(">> ELSE <<Marker, "(">>)
                   \o FlattenSeq([k \in DOMAIN args |-> Spelled(h, k)]) \o <<")">>
  BY DEF Prototype
<1> HIDE DEF Spelled, args
<1>5. [k \in DOMAIN args |-> Spelled(f, k)] = [k \in DOMAIN args |-> Spelled(g, k)]
  BY <1>3
<1> QED  BY <1>2, <1>4, <1>5

\* Where a type without a name leads to.
LEMMA NamelessLeads ==
  ASSUME NEW s \in TPIStreams, NEW t \in 0 .. (s.typeIndexEnd - 1), Resolve(s)[t].name = NullName
  PROVE  LET p == Resolve(s)[t].referenced
             q == RecordOf(s, p)
         IN  /\ IsRecord(s, p) /\ p \in 0 .. t /\ KindOf(s, p) = q.kind
             /\ q.kind = "LF_POINTER" => q.utype \in 0 .. (t - 1)
             /\ q.kind = "LF_ARRAY" => /\ q.elemtype \in 0 .. (t - 1) /\ q.idxtype \in 0 .. (t - 1)
                                       /\ ~ IsRecord(s, q.idxtype)
             /\ q.kind = "LF_MFUNCTION" => q.classtype \in 0 .. (t - 1)
<1> DEFINE p == Resolve(s)[t].referenced
           q == RecordOf(s, p)
<1>1. IsRecord(s, p) /\ p <= t
  BY EveryNameIsSound DEF IsSound
<1> HIDE DEF p
<1>2. IndicesOf(q) \subseteq 0 .. (p - 1) /\ p \in Nat  BY <1>1, RecordsInFront
<1>3. t \in Nat  BY TPIStreamShape
<1>4. 0 .. (p - 1) \subseteq 0 .. (t - 1)  BY <1>1, <1>2, <1>3
<1>5. q.kind = "LF_POINTER" => q.utype \in 0 .. (t - 1)
  BY <1>2, <1>4 DEF IndicesOf, Definitions
<1>6. q.kind = "LF_ARRAY" => q.elemtype \in 0 .. (t - 1) /\ q.idxtype \in 0 .. (t - 1)
  BY <1>2, <1>4 DEF IndicesOf, Definitions
<1>7. q.kind = "LF_MFUNCTION" => q.classtype \in 0 .. (t - 1)
  BY <1>2, <1>4 DEF IndicesOf, Definitions, Functions
<1>8. KindOf(s, p) = q.kind  BY <1>1 DEF KindOf
<1>9. q.kind = "LF_ARRAY" => ~ IsRecord(s, q.idxtype)
  <2>1. ASSUME q.kind = "LF_ARRAY" PROVE ~ IsRecord(s, q.idxtype)
    <3>1. /\ p - s.typeIndexBegin \in DOMAIN s.content
          /\ q = s.content[p - s.typeIndexBegin]
      <4>1. KindOf(s, p) # "built-in"  BY <1>8, <2>1
      <4> QED  BY <4>1, RecordOfKind
    <3>2. KindOf(s, q.idxtype) = "built-in"
      BY <2>1, <3>1, ContentAssumption DEF IsContent
    <3>3. IsRecord(s, q.idxtype) => KindOf(s, q.idxtype) # "built-in"
      <4>1. IsRecord(s, q.idxtype) => q.idxtype - s.typeIndexBegin \in DOMAIN s.content
        BY TPIStreamShape DEF IsRecord
      <4> QED  BY <4>1, ContentAssumption DEF IsContent, KindOf, RecordOf
    <3> QED  BY <3>2, <3>3
  <2> QED  BY <2>1
<1>10. p \in 0 .. t  BY <1>1, <1>2, <1>3
<1> QED  BY <1>1, <1>5, <1>6, <1>7, <1>8, <1>9, <1>10 DEF p

\* A text depends on the texts of types in front only.
LEMMA TextOfTypesInFront ==
  ASSUME NEW s \in TPIStreams, NEW t \in 0 .. (s.typeIndexEnd - 1), NEW f, NEW g,
         \A u \in 0 .. (t - 1) : f[u] = g[u]
  PROVE  TextsWith(s, Resolve(s), f, t) = TextsWith(s, Resolve(s), g, t)
<1> DEFINE n == Resolve(s)
           Spelled(h) == IF KindOf(s, t) \in Functions THEN Prototype(s, n, h, RecordOf(s, t))
                         ELSE <<>>
<1>1. Spelled(f) = Spelled(g)  BY PrototypeOfTypesInFront
<1>2. ASSUME n[t].name = NullName, NEW prototype
      PROVE  TextOf(s, f, n[t], prototype) = TextOf(s, g, n[t], prototype)
  <2> DEFINE q == RecordOf(s, n[t].referenced)
  <2>1. /\ q.kind = "LF_POINTER" => f[q.utype] = g[q.utype]
        /\ q.kind = "LF_ARRAY" => f[q.elemtype] = g[q.elemtype] /\ f[q.idxtype] = g[q.idxtype]
        /\ q.kind = "LF_MFUNCTION" => f[q.classtype] = g[q.classtype]
    BY <1>2, NamelessLeads
  <2> QED  BY <2>1 DEF TextOf
<1>3. ASSUME NEW h
      PROVE  TextsWith(s, n, h, t)
               = [name |-> IF n[t].name # NullName THEN <<n[t].name>>
                           ELSE TextOf(s, h, n[t], Spelled(h)),
                  prototype |-> Spelled(h)]
  BY DEF TextsWith
<1> HIDE DEF Spelled
<1> QED  BY <1>1, <1>2, <1>3

\* The recursion behind Texts has a solution.
LEMMA TextsAreFound ==
  ASSUME NEW s \in TPIStreams
  PROVE  Texts(s, Resolve(s))
           = [t \in 0 .. (s.typeIndexEnd - 1) |->
                TextsWith(s, Resolve(s), Texts(s, Resolve(s)), t)]
<1> DEFINE With(f, t) == TextsWith(s, Resolve(s), f, t)
           Solves(f, n) == f = [t \in 0 .. (n - 1) |-> With(f, t)]
           T == {n \in 0 .. s.typeIndexEnd : ~ \E f : Solves(f, n)}
<1>1. s.typeIndexEnd \in Nat  BY TPIStreamShape
<1>2. ASSUME T # {} PROVE FALSE
  <2>1. T \in SUBSET Nat  BY <1>1
  <2>2. PICK m \in T : \A n \in T : m <= n
    <3> HIDE DEF T
    <3> QED  BY <1>2, <2>1, LeastNatural
  <2>3. m \in 0 .. s.typeIndexEnd /\ ~ \E f : Solves(f, m)  BY <2>2
  <2>4. m # 0
    <3>1. 0 .. (0 - 1) = {}  OBVIOUS
    <3>2. Solves([t \in {} |-> t], 0)  BY <3>1
    <3> QED  BY <2>3, <3>2
  <2>5. m - 1 \in 0 .. s.typeIndexEnd /\ ~ (m <= m - 1) /\ m \in Nat /\ m - 1 \in Nat
    BY <1>1, <2>3, <2>4
  <2>6. PICK f : Solves(f, m - 1)
    <3>1. m - 1 \notin T  BY <2>2, <2>5
    <3> QED  BY <2>5, <3>1
  <2> DEFINE g == [t \in 0 .. (m - 1) |-> With(f, t)]
  <2>7. ASSUME NEW t \in 0 .. (m - 1) PROVE g[t] = With(g, t)
    <3>1. ASSUME NEW u \in 0 .. (t - 1) PROVE f[u] = g[u]
      <4>1. u \in 0 .. (m - 1 - 1) /\ u \in 0 .. (m - 1)  BY <2>5
      <4>2. f[u] = With(f, u)  BY <2>6, <4>1
      <4> QED  BY <4>1, <4>2
    <3>2. t \in 0 .. (s.typeIndexEnd - 1)  BY <1>1, <2>3, <2>5
    <3>3. g[t] = With(f, t)  OBVIOUS
    <3> HIDE DEF g
    <3>4. With(f, t) = With(g, t)
      BY <3>1, <3>2, TextOfTypesInFront
    <3> QED  BY <3>3, <3>4
  <2>8. Solves(g, m)
    <3>1. g = [t \in 0 .. (m - 1) |-> g[t]]  OBVIOUS
    <3> HIDE DEF g, With
    <3> QED  BY <2>7, <3>1
  <2> QED  BY <2>3, <2>8
<1>3. \E f : Solves(f, s.typeIndexEnd)
  <2>1. s.typeIndexEnd \in 0 .. s.typeIndexEnd  BY <1>1
  <2> QED  BY <1>2, <2>1
<1>4. Texts(s, Resolve(s)) = CHOOSE f : Solves(f, s.typeIndexEnd)
  BY DEF Texts
<1> QED  BY <1>3, <1>4

-----------------------------------------------------------------------------
(* The markers in a text.                                                  *)

\* The words of a text, the marker aside.
Punctuation == {"*", "(*", ")", "(", ",", "[", "]", "::*", "not found"}
Words(s) ==
  {Resolve(s)[t].name : t \in 0 .. (s.typeIndexEnd - 1)} \cup Attributes \cup Punctuation

\* A text without a marker, and one that has a marker at m only.
IsPlain(W, text) == text \in Seq(W)
IsMarkedAt(W, text, m) ==
  /\ text \in Seq(W \cup {Marker})
  /\ m \in 1 .. Len(text) /\ text[m] = Marker
  /\ \A k \in 1 .. Len(text) : k # m => text[k] \in W
IsFormat(W, text) == \E m : IsMarkedAt(W, text, m)

\* No name, attribute or punctuation is a marker.
LEMMA NoMarkerAmongWords ==
  ASSUME NEW s \in TPIStreams
  PROVE  Marker \notin Words(s)
<1>1. \A t \in 0 .. (s.typeIndexEnd - 1) : Resolve(s)[t].name # Marker
  BY EveryNameIsSound DEF IsSound
<1>2. Marker \notin Attributes  BY DEF Marker, Attributes
<1>3. Marker \notin Punctuation  BY DEF Marker, Punctuation
<1> QED  BY <1>1, <1>2, <1>3 DEF Words

\* Two plain texts make a plain one, a plain text and a format a format.
LEMMA TextsJoined ==
  ASSUME NEW W, NEW text, IsPlain(W, text)
  PROVE  /\ \A other : IsPlain(W, other) => IsPlain(W, text \o other)
         /\ \A format : IsFormat(W, format) =>
              IsFormat(W, text \o format) /\ IsFormat(W, format \o text)
<1>1. \A other : IsPlain(W, other) => IsPlain(W, text \o other)  BY DEF IsPlain
<1>2. ASSUME NEW format, IsFormat(W, format)
      PROVE  IsFormat(W, text \o format) /\ IsFormat(W, format \o text)
  <2> DEFINE Marked == W \cup {Marker}
  <2>1. PICK m : IsMarkedAt(W, format, m)  BY <1>2 DEF IsFormat
  <2>2. /\ text \in Seq(Marked) /\ format \in Seq(Marked)
        /\ Len(text) \in Nat /\ Len(format) \in Nat
        /\ \A k \in 1 .. Len(text) : text[k] \in W
    BY <2>1 DEF IsPlain, IsMarkedAt
  <2>3. /\ m \in 1 .. Len(format) /\ format[m] = Marker
        /\ \A k \in 1 .. Len(format) : k # m => format[k] \in W
    BY <2>1 DEF IsMarkedAt
  <2> HIDE DEF Marked
  <2>4. ASSUME NEW x \in Seq(Marked), NEW y \in Seq(Marked), NEW n,
               \/ /\ Len(y) \in Nat /\ IsMarkedAt(W, y, m) /\ n = Len(x) + m
                  /\ \A k \in 1 .. Len(x) : x[k] \in W
               \/ /\ Len(x) \in Nat /\ IsMarkedAt(W, x, m) /\ n = m
                  /\ \A k \in 1 .. Len(y) : y[k] \in W
        PROVE  IsMarkedAt(W, x \o y, n)
    <3> DEFINE z == x \o y
    <3>1. /\ z \in Seq(Marked) /\ Len(z) = Len(x) + Len(y)
          /\ \A k \in 1 .. (Len(x) + Len(y)) :
               z[k] = IF k <= Len(x) THEN x[k] ELSE y[k - Len(x)]
      BY ConcatProperties
    <3>2. Len(x) \in Nat /\ Len(y) \in Nat  OBVIOUS
    <3> HIDE DEF z
    <3>3. n \in 1 .. Len(z) /\ z[n] = Marker
      <4>1. CASE IsMarkedAt(W, y, m) /\ n = Len(x) + m
        <5>1. m \in 1 .. Len(y) /\ y[m] = Marker  BY <4>1 DEF IsMarkedAt
        <5>2. n \in 1 .. (Len(x) + Len(y)) /\ ~ (n <= Len(x)) /\ n - Len(x) = m
          BY <3>2, <4>1, <5>1
        <5> QED  BY <3>1, <5>1, <5>2
      <4>2. CASE IsMarkedAt(W, x, m) /\ n = m
        <5>1. m \in 1 .. Len(x) /\ x[m] = Marker  BY <4>2 DEF IsMarkedAt
        <5>2. n \in 1 .. (Len(x) + Len(y)) /\ n <= Len(x)
          BY <3>2, <4>2, <5>1
        <5> QED  BY <3>1, <4>2, <5>1, <5>2
      <4> QED  BY <2>4, <4>1, <4>2
    <3>4. ASSUME NEW k \in 1 .. Len(z), k # n PROVE z[k] \in W
      <4>1. k \in 1 .. (Len(x) + Len(y)) /\ k \in Nat  BY <3>1
      <4>2. CASE k <= Len(x)
        <5>1. k \in 1 .. Len(x) /\ z[k] = x[k]  BY <3>1, <3>2, <4>1, <4>2
        <5>2. x[k] \in W
          BY <2>4, <3>4, <5>1 DEF IsMarkedAt
        <5> QED  BY <5>1, <5>2
      <4>3. CASE ~ (k <= Len(x))
        <5>1. k - Len(x) \in 1 .. Len(y) /\ z[k] = y[k - Len(x)]
          BY <3>1, <3>2, <4>1, <4>3
        <5>2. y[k - Len(x)] \in W
          <6>1. CASE IsMarkedAt(W, y, m) /\ n = Len(x) + m
            <7>1. m \in 1 .. Len(y)  BY <6>1 DEF IsMarkedAt
            <7>2. k - Len(x) # m  BY <3>2, <3>4, <4>1, <6>1, <7>1
            <7> QED  BY <5>1, <6>1, <7>2 DEF IsMarkedAt
          <6>2. CASE \A l \in 1 .. Len(y) : y[l] \in W
            BY <5>1, <6>2
          <6> QED  BY <2>4, <6>1, <6>2
        <5> QED  BY <5>1, <5>2
      <4> QED  BY <4>2, <4>3
    <3> QED  BY <3>1, <3>3, <3>4 DEF IsMarkedAt, Marked, z
  <2>5. IsMarkedAt(W, text \o format, Len(text) + m)
    BY <2>1, <2>2, <2>4
  <2>6. IsMarkedAt(W, format \o text, m)
    BY <2>1, <2>2, <2>4
  <2> QED  BY <2>5, <2>6 DEF IsFormat
<1> QED  BY <1>1, <1>2

\* The stars of any level, which is -1 when an argument has none to show.
LEMMA StarsArePlain ==
  ASSUME NEW W, "*" \in W, NEW n \in Int
  PROVE  IsPlain(W, Stars(n))
<1>1. CASE n \in Nat
  BY <1>1 DEF IsPlain, Stars
<1>2. CASE n \notin Nat
  <2>1. 1 .. n = 1 .. 0  BY <1>2
  <2>2. Stars(n) = [k \in 1 .. 0 |-> "*"]  BY <2>1 DEF Stars
  <2> QED  BY <2>2 DEF IsPlain
<1> QED  BY <1>1, <1>2

\* Without its marker, or with a plain text in its place, a format is plain.
LEMMA MarkerIsReplaced ==
  ASSUME NEW W, Marker \notin W, NEW format, IsFormat(W, format)
  PROVE  /\ \A text : IsPlain(W, text) => IsPlain(W, ReplaceMarker(format, text))
         /\ \A n \in Int : "*" \in W => IsPlain(W, EraseMarker(format, n))
<1>1. PICK m : IsMarkedAt(W, format, m)  BY DEF IsFormat
<1> DEFINE marked == {n \in 1 .. Len(format) : format[n] = Marker}
           front == SubSeq(format, 1, m - 1)
           back == SubSeq(format, m + 1, Len(format))
<1>2. Len(format) \in Nat /\ m \in 1 .. Len(format)  BY <1>1 DEF IsMarkedAt
<1>3. marked = {m}  BY <1>1 DEF IsMarkedAt
<1>4. Min(marked) = m
  <2>1. \E x \in {m} : \A y \in {m} : x <= y  BY <1>2
  <2> QED  BY <1>3, <2>1 DEF Min
<1>5. marked # {} /\ m # 0  BY <1>2, <1>3
<1>6. front \in Seq(W) /\ back \in Seq(W)
  <2>1. \A k \in 1 .. (m - 1) : format[k] \in W  BY <1>1, <1>2 DEF IsMarkedAt
  <2>2. \A k \in (m + 1) .. Len(format) : format[k] \in W  BY <1>1, <1>2 DEF IsMarkedAt
  <2>3. m - 1 \in Int /\ m + 1 \in Int /\ 1 \in Int /\ Len(format) \in Int  BY <1>2
  <2> QED  BY <2>1, <2>2, <2>3, SubSeqProperties
<1> HIDE DEF marked
<1>7. ASSUME NEW text PROVE ReplaceMarker(format, text) = front \o text \o back
  BY <1>4, <1>5 DEF ReplaceMarker, SelectInSeq, marked
<1>8. ASSUME NEW n PROVE EraseMarker(format, n) = front \o Stars(n) \o back
  BY <1>4, <1>5 DEF EraseMarker, SelectInSeq, marked
<1> HIDE DEF front, back
<1>9. ASSUME NEW text, IsPlain(W, text) PROVE IsPlain(W, front \o text \o back)
  BY <1>6, <1>9 DEF IsPlain
<1>10. ASSUME NEW n \in Int, "*" \in W PROVE IsPlain(W, EraseMarker(format, n))
  BY <1>8, <1>9, <1>10, StarsArePlain
<1> QED  BY <1>7, <1>9, <1>10

\* A text without a marker stays as it is.
LEMMA PlainTextIsKept ==
  ASSUME NEW W, Marker \notin W, NEW text, IsPlain(W, text), NEW with
  PROVE  ReplaceMarker(text, with) = text
<1>1. {n \in 1 .. Len(text) : text[n] = Marker} = {}  BY DEF IsPlain
<1> QED  BY <1>1 DEF ReplaceMarker, SelectInSeq

\* How many markers there are.
LEMMA MarkersCounted ==
  ASSUME NEW W, Marker \notin W, NEW text
  PROVE  /\ IsPlain(W, text) => Markers(text) = 0
         /\ IsFormat(W, text) => Markers(text) = 1
<1> DEFINE marked == {n \in DOMAIN text : text[n] = Marker}
<1>1. ASSUME IsPlain(W, text) PROVE Markers(text) = 0
  <2>1. \A n \in DOMAIN text : text[n] \in W
    <3>1. DOMAIN text = 1 .. Len(text)  BY <1>1 DEF IsPlain
    <3> QED  BY <1>1, <3>1 DEF IsPlain
  <2>2. marked = {}  BY <2>1
  <2> QED  BY <2>2, FS_EmptySet DEF Markers
<1>2. ASSUME IsFormat(W, text) PROVE Markers(text) = 1
  <2>1. PICK m : IsMarkedAt(W, text, m)  BY <1>2 DEF IsFormat
  <2>2. DOMAIN text = 1 .. Len(text)  BY <2>1 DEF IsMarkedAt
  <2>3. marked = {m}  BY <2>1, <2>2 DEF IsMarkedAt
  <2> QED  BY <2>3, FS_Singleton DEF Markers
<1> QED  BY <1>1, <1>2

\* Plain texts one behind the other make a plain text.
LEMMA PlainTextsFlattened ==
  ASSUME NEW W, NEW texts, NEW n \in Nat, DOMAIN texts = 1 .. n, texts \in Seq(Range(texts)),
         \A k \in 1 .. n : IsPlain(W, texts[k])
  PROVE  IsPlain(W, FlattenSeq(texts))
BY SequencesFlattened DEF IsPlain

\* What the examples put between names.
LEMMA WordsOfPunctuation ==
  ASSUME NEW s
  PROVE  /\ \A word \in Punctuation : IsPlain(Words(s), <<word>>)
         /\ Attributes \subseteq Words(s) /\ Punctuation \subseteq Words(s)
         /\ \A t \in 0 .. (s.typeIndexEnd - 1) : Resolve(s)[t].name \in Words(s)
  BY DEF IsPlain, Words

\* What the texts of a type in front are.
IsSpelled(s, t, text) ==
  LET W == Words(s)
      n == Resolve(s)[t]
      q == RecordOf(s, n.referenced)
  IN  /\ KindOf(s, t) \in Functions => IsFormat(W, text.prototype)
      /\ IsPlain(W, text.name) \/ IsFormat(W, text.name)
      /\ (\/ n.name # NullName
          \/ q.kind = "LF_MFUNCTION"
          \/ q.kind = "LF_POINTER" /\ KindOf(s, q.utype) = "LF_MFUNCTION") =>
           IsPlain(W, text.name)

\* The attributes of the records GetTypeName refers to are words.
LEMMA AttributesArePlain ==
  ASSUME NEW s \in TPIStreams, NEW t, KindOf(s, t) \in {"LF_MODIFIER", "LF_POINTER"}
  PROVE  IsPlain(Words(s), <<RecordOf(s, t).attr>>)
<1>1. /\ t - s.typeIndexBegin \in DOMAIN s.content
      /\ RecordOf(s, t) = s.content[t - s.typeIndexBegin]
      /\ RecordOf(s, t).kind = KindOf(s, t)
  BY RecordOfKind
<1>2. RecordOf(s, t).attr \in Attributes
  BY <1>1, ContentAssumption DEF IsContent
<1> QED  BY <1>2, WordsOfPunctuation DEF IsPlain

\* A modifier shows its attribute or nothing.
LEMMA ModifierIsPlain ==
  ASSUME NEW s \in TPIStreams, NEW t \in 0 .. (s.typeIndexEnd - 1)
  PROVE  IsPlain(Words(s), ModifierName(s, Resolve(s)[t].modifier))
<1> DEFINE m == Resolve(s)[t].modifier
<1>1. m # NoRecord => IsRecord(s, m) /\ RecordOf(s, m).kind = "LF_MODIFIER"
  BY EveryNameIsSound DEF IsSound
<1> HIDE DEF m
<1>2. m # NoRecord => KindOf(s, m) = "LF_MODIFIER"  BY <1>1 DEF KindOf
<1>3. IsPlain(Words(s), <<>>)  BY DEF IsPlain
<1>4. IsPlain(Words(s), ModifierName(s, m))
  BY <1>2, <1>3, AttributesArePlain DEF ModifierName
<1> QED  BY <1>4 DEF m

\* What a function returns is shown without a marker, be it a function.
LEMMA ReturnIsPlain ==
  ASSUME NEW s \in TPIStreams, NEW t, KindOf(s, t) \in Functions, NEW texts,
         \A u \in 0 .. (t - 1) : IsSpelled(s, u, texts[u])
  PROVE  IsPlain(Words(s), ReturnType(s, Resolve(s), texts, RecordOf(s, t)))
<1> DEFINE W == Words(s)
           p == RecordOf(s, t).rvtype
           n == Resolve(s)[p]
           u == ReturnedFunction(s, Resolve(s), RecordOf(s, t))
<1>1. t \in 0 .. (s.typeIndexEnd - 1) /\ p \in 0 .. (t - 1)  BY FunctionLeads
<1>2. p \in 0 .. (s.typeIndexEnd - 1)
  <2> HIDE DEF p
  <2> QED  BY <1>1, TPIStreamShape
<1>3. "*" \in W  BY WordsOfPunctuation DEF Punctuation
<1>4. CASE n.name # NullName
  <2>1. IsPlain(W, ModifierName(s, n.modifier))  BY <1>2, ModifierIsPlain
  <2>2. IsPlain(W, <<n.name>>)  BY <1>2, WordsOfPunctuation DEF IsPlain
  <2>3. IsPlain(W, Stars(n.level))
    <3>1. n.level \in Nat  BY <1>2, EveryNameIsSound DEF IsSound
    <3> QED  BY <1>3, <3>1, StarsArePlain
  <2>4. ReturnType(s, Resolve(s), texts, RecordOf(s, t))
          = ModifierName(s, n.modifier) \o <<n.name>> \o Stars(n.level)
    BY <1>4 DEF ReturnType
  <2> HIDE DEF n, W
  <2> QED  BY <2>1, <2>2, <2>3, <2>4, TextsJoined DEF W
<1>5. CASE n.name = NullName
  <2>1. u \in 0 .. (t - 1) /\ KindOf(s, u) \in Functions  BY <1>5, ReturnedLeads
  <2>2. ReturnType(s, Resolve(s), texts, RecordOf(s, t)) = EraseMarker(texts[u].prototype, 0)
    BY <1>5 DEF ReturnType
  <2> HIDE DEF u
  <2>3. IsFormat(W, texts[u].prototype)  BY <2>1 DEF IsSpelled
  <2>4. Marker \notin W  BY NoMarkerAmongWords
  <2> HIDE DEF W
  <2> QED  BY <1>3, <2>2, <2>3, <2>4, MarkerIsReplaced DEF W
<1> QED  BY <1>4, <1>5

\* So is every argument.
LEMMA ArgumentIsPlain ==
  ASSUME NEW s \in TPIStreams, NEW t, KindOf(s, t) \in Functions, NEW texts,
         \A u \in 0 .. (t - 1) : IsSpelled(s, u, texts[u]),
         NEW k \in DOMAIN RecordOf(s, RecordOf(s, t).arglist).arg
  PROVE  LET r == RecordOf(s, t)
             args == RecordOf(s, r.arglist).arg
         IN  IsPlain(Words(s), Argument(s, texts, args[k], Resolve(s)[args[k]],
                                        UnderlyingType(s, Resolve(s), r, SubSeq(args, 1, k))))
<1> DEFINE W == Words(s)
           r == RecordOf(s, t)
           args == RecordOf(s, r.arglist).arg
           p == args[k]
           a == Resolve(s)[p]
           u == UnderlyingType(s, Resolve(s), r, SubSeq(args, 1, k))
           text == Argument(s, texts, p, a, u)
<1>1. t \in 0 .. (s.typeIndexEnd - 1) /\ p \in 0 .. (t - 1) /\ p \in PassedTypes(s)
  <2>1. /\ args \in Seq(0 .. (t - 1)) /\ Range(args) \subseteq PassedTypes(s)
        /\ t \in 0 .. (s.typeIndexEnd - 1)
    BY FunctionLeads
  <2> DEFINE Earlier == 0 .. (t - 1)
  <2>2. args \in Seq(Earlier) /\ k \in DOMAIN args  BY <2>1
  <2> HIDE DEF args, Earlier
  <2>3. DOMAIN args = 1 .. Len(args)  BY <2>2
  <2>4. args[k] \in Earlier /\ args[k] \in Range(args)  BY <2>2, <2>3 DEF Range
  <2> QED  BY <2>1, <2>4 DEF Earlier
<1>2. /\ KindOf(s, u) \in Functions => u \in 0 .. (t - 1)
      /\ a.referenced # NoRecord /\ KindOf(s, u) = "LF_MFUNCTION" =>
           a.name # NullName \/ KindOf(s, RecordOf(s, a.referenced).utype) = "LF_MFUNCTION"
  BY UnderlyingLeads
<1> HIDE DEF args, u
<1>3. p \in 0 .. (s.typeIndexEnd - 1)
  <2> HIDE DEF p
  <2> QED  BY <1>1, TPIStreamShape
<1>4. a.level \in Nat /\ a.level - 1 \in Int
  <2>1. a.level \in Nat  BY <1>3, EveryNameIsSound DEF IsSound
  <2> QED  BY <2>1
<1>5. "*" \in W /\ Marker \notin W  BY WordsOfPunctuation, NoMarkerAmongWords DEF Punctuation
<1>6. a.name \in W  BY <1>3, WordsOfPunctuation
<1>7. a.referenced # NoRecord =>
        IsRecord(s, a.referenced) /\ RecordOf(s, a.referenced).kind = "LF_POINTER"
  BY <1>1, <1>3, PassedLeads
<1>8. ASSUME a.referenced = NoRecord PROVE IsPlain(W, text)
  <2>1. text = <<a.name>>  BY <1>8 DEF Argument
  <2> QED  BY <1>6, <2>1 DEF IsPlain
<1>9. ASSUME a.referenced # NoRecord, KindOf(s, u) \notin Functions PROVE IsPlain(W, text)
  <2>1. text = ModifierName(s, a.modifier) \o <<a.name, "*">>
                 \o PointerName(RecordOf(s, a.referenced))
    BY <1>9 DEF Argument, Functions
  <2>2. IsPlain(W, ModifierName(s, a.modifier))  BY <1>3, ModifierIsPlain
  <2>3. IsPlain(W, <<a.name, "*">>)  BY <1>5, <1>6 DEF IsPlain
  <2>4. IsPlain(W, PointerName(RecordOf(s, a.referenced)))
    <3>1. KindOf(s, a.referenced) = "LF_POINTER"  BY <1>7, <1>9 DEF KindOf
    <3>2. IsPlain(W, <<RecordOf(s, a.referenced).attr>>)  BY <3>1, AttributesArePlain
    <3>3. IsPlain(W, <<>>)  BY DEF IsPlain
    <3> HIDE DEF W
    <3> QED  BY <3>2, <3>3 DEF PointerName, W
  <2> HIDE DEF W, text, a
  <2> QED  BY <2>1, <2>2, <2>3, <2>4, TextsJoined
<1>10. ASSUME a.referenced # NoRecord, KindOf(s, u) = "LF_PROCEDURE" PROVE IsPlain(W, text)
  <2>1. text = EraseMarker(texts[u].prototype, a.level - 1)
    BY <1>10 DEF Argument, Functions
  <2>2. IsFormat(W, texts[u].prototype)  BY <1>2, <1>10 DEF IsSpelled, Functions
  <2> HIDE DEF W, text, a
  <2> QED  BY <1>4, <1>5, <2>1, <2>2, MarkerIsReplaced
<1>11. ASSUME a.referenced # NoRecord, KindOf(s, u) = "LF_MFUNCTION" PROVE IsPlain(W, text)
  <2>1. text = texts[p].name
    BY <1>11 DEF Argument, Functions
  <2>2. IsSpelled(s, p, texts[p])  BY <1>1
  <2>3. IsPlain(W, texts[p].name)
    BY <1>2, <1>7, <1>11, <2>2 DEF IsSpelled
  <2> QED  BY <2>1, <2>3
<1>12. IsPlain(W, text)
  BY <1>8, <1>9, <1>10, <1>11 DEF Functions
<1> QED  BY <1>12 DEF args, u

\* Which leaves the marker of the function itself.
LEMMA PrototypeIsFormat ==
  ASSUME NEW s \in TPIStreams, NEW t, KindOf(s, t) \in Functions, NEW texts,
         \A u \in 0 .. (t - 1) : IsSpelled(s, u, texts[u])
  PROVE  IsFormat(Words(s), Prototype(s, Resolve(s), texts, RecordOf(s, t)))
<1> DEFINE W == Words(s)
           r == RecordOf(s, t)
           args == RecordOf(s, r.arglist).arg
           n == Resolve(s)
           Text(k) == Argument(s, texts, args[k], n[args[k]],
                               UnderlyingType(s, n, r, SubSeq(args, 1, k)))
           arguments == [k \in DOMAIN args |-> Text(k) \o (IF k < Len(args) THEN <<",">> ELSE <<>>)]
           place == IF r.kind = "LF_PROCEDURE" THEN <<"(*", Marker, ")", "(">> ELSE <<Marker, "(">>
<1>1. Prototype(s, n, texts, r)
        = ReturnType(s, n, texts, r) \o place \o FlattenSeq(arguments) \o <<")">>
  BY DEF Prototype
<1>2. IsPlain(W, ReturnType(s, n, texts, r))  BY ReturnIsPlain
<1>3. IsFormat(W, place)
  <2>1. "(*" \in W /\ ")" \in W /\ "(" \in W  BY WordsOfPunctuation DEF Punctuation
  <2> HIDE DEF W
  <2>2. IsMarkedAt(W, <<"(*", Marker, ")", "(">>, 2)  BY <2>1 DEF IsMarkedAt
  <2>3. IsMarkedAt(W, <<Marker, "(">>, 1)  BY <2>1 DEF IsMarkedAt
  <2> QED  BY <2>2, <2>3 DEF IsFormat
<1>4. IsPlain(W, FlattenSeq(arguments))
  <2>1. args \in Seq(0 .. (t - 1))  BY FunctionLeads
  <2>2. \A k \in DOMAIN args : IsPlain(W, Text(k))  BY ArgumentIsPlain
  <2>3. IsPlain(W, <<",">>) /\ IsPlain(W, <<>>)
    <3>1. IsPlain(W, <<",">>)  BY WordsOfPunctuation DEF Punctuation
    <3>2. IsPlain(W, <<>>)  BY DEF IsPlain
    <3> QED  BY <3>1, <3>2
  <2> HIDE DEF W, Text, args
  <2>4. PICK m \in Nat : DOMAIN args = 1 .. m  BY <2>1
  <2>5. DOMAIN arguments = 1 .. m  BY <2>4
  <2>6. ASSUME NEW k \in 1 .. m PROVE IsPlain(W, arguments[k])
    <3>1. arguments[k] = Text(k) \o (IF k < Len(args) THEN <<",">> ELSE <<>>)  BY <2>4
    <3>2. IsPlain(W, Text(k))  BY <2>2, <2>4
    <3> QED  BY <2>3, <3>1, <3>2, TextsJoined
  <2> HIDE DEF arguments
  <2>7. arguments \in Seq(Range(arguments))
    <3>1. arguments = [k \in 1 .. m |-> arguments[k]]
      <4>1. arguments = [k \in DOMAIN args |-> arguments[k]]  BY DEF arguments
      <4> QED  BY <2>4, <4>1
    <3>2. \A k \in 1 .. m : arguments[k] \in Range(arguments)  BY <2>5 DEF Range
    <3>3. arguments \in [1 .. m -> Range(arguments)]  BY <3>1, <3>2
    <3> QED  BY <3>3
  <2> QED  BY <2>5, <2>6, <2>7, PlainTextsFlattened
<1>5. IsPlain(W, <<")">>)  BY WordsOfPunctuation DEF Punctuation
<1> HIDE DEF W, place, arguments
<1>6. IsFormat(W, ReturnType(s, n, texts, r) \o place)  BY <1>2, <1>3, TextsJoined
<1>7. IsFormat(W, ReturnType(s, n, texts, r) \o place \o FlattenSeq(arguments))
  BY <1>4, <1>6, TextsJoined
<1>8. IsFormat(W, ReturnType(s, n, texts, r) \o place \o FlattenSeq(arguments) \o <<")">>)
  BY <1>5, <1>7, TextsJoined
<1> QED  BY <1>1, <1>8 DEF W

\* The types of which GetTypeName says a name, or refers to a function.
LEMMA NamesAndFunctions ==
  ASSUME NEW s \in TPIStreams, NEW t \in 0 .. (s.typeIndexEnd - 1)
  PROVE  /\ KindOf(s, t) \in Functions => Resolve(s)[t] = Unnamable(t)
         /\ ~ IsRecord(s, t) => Resolve(s)[t].name # NullName
         /\ KindOf(s, t) \in Definitions \ {"LF_ENUM"} => Resolve(s)[t].name # NullName
<1>1. Resolve(s)[t] = ResolvedWith(s, Resolve(s), t)  BY NamesAreFound
<1>2. ASSUME KindOf(s, t) \in Functions PROVE Resolve(s)[t] = Unnamable(t)
  <2>1. IsRecord(s, t) /\ RecordOf(s, t).kind \in Functions  BY <1>2 DEF KindOf, Functions
  <2> QED  BY <1>1, <2>1 DEF ResolvedWith, Functions
<1>3. ASSUME ~ IsRecord(s, t) PROVE Resolve(s)[t].name # NullName
  <2>1. Resolve(s)[t] = Named(BuiltInName(t))  BY <1>1, <1>3 DEF ResolvedWith
  <2> QED  BY <2>1, BuiltInNames DEF Named, NoIdentifiers
<1>4. ASSUME KindOf(s, t) \in Definitions \ {"LF_ENUM"} PROVE Resolve(s)[t].name # NullName
  <2> DEFINE r == RecordOf(s, t)
  <2>1. IsRecord(s, t) /\ r.kind \in {"LF_CLASS", "LF_STRUCTURE", "LF_UNION"}
    BY <1>4 DEF KindOf, Definitions
  <2>2. Resolve(s)[t] = Named(LeafNameUnderTwoBytes(r))
    BY <1>1, <2>1 DEF ResolvedWith, Functions
  <2>3. r.name \notin NoIdentifiers
    <3>1. t - s.typeIndexBegin \in DOMAIN s.content  BY <2>1, TPIStreamShape DEF IsRecord
    <3> QED  BY <2>1, <3>1, ContentAssumption DEF IsContent, RecordOf, Definitions
  <2>4. Garbage \notin NoIdentifiers  BY DEF Garbage, NoIdentifiers, Marker, NullName, NoName
  <2>5. LeafNameUnderTwoBytes(r) # NullName
    BY <2>3, <2>4 DEF LeafNameUnderTwoBytes, NoIdentifiers
  <2> QED  BY <2>2, <2>5 DEF Named
<1> QED  BY <1>2, <1>3, <1>4

\* One type, given those in front.
LEMMA TextIsSpelled ==
  ASSUME NEW s \in TPIStreams, NEW t \in 0 .. (s.typeIndexEnd - 1), NEW texts,
         \A u \in 0 .. (t - 1) : IsSpelled(s, u, texts[u])
  PROVE  IsSpelled(s, t, TextsWith(s, Resolve(s), texts, t))
<1> DEFINE W == Words(s)
           n == Resolve(s)[t]
           q == RecordOf(s, n.referenced)
           prototype == IF KindOf(s, t) \in Functions
                          THEN Prototype(s, Resolve(s), texts, RecordOf(s, t)) ELSE <<>>
           text == TextOf(s, texts, n, prototype)
<1>1. KindOf(s, t) \in Functions => IsFormat(W, prototype)  BY PrototypeIsFormat
<1>2. KindOf(s, t) \notin Functions => prototype = <<>>  OBVIOUS
<1>3. TextsWith(s, Resolve(s), texts, t)
        = [name |-> IF n.name # NullName THEN <<n.name>> ELSE text, prototype |-> prototype]
  BY DEF TextsWith
<1>4. n.name \in W  BY WordsOfPunctuation
<1>5. IsPlain(W, <<>>)  BY DEF IsPlain
<1>6. n.level \in Nat  BY EveryNameIsSound DEF IsSound
<1>7. Marker \notin W /\ Punctuation \subseteq W  BY WordsOfPunctuation, NoMarkerAmongWords
<1>8. \A u \in 0 .. (t - 1) : u \in 0 .. (s.typeIndexEnd - 1)  BY TPIStreamShape
<1>9. ASSUME n.name = NullName
      PROVE  /\ IsPlain(W, text) \/ IsFormat(W, text)
             /\ (\/ q.kind = "LF_MFUNCTION"
                 \/ q.kind = "LF_POINTER" /\ KindOf(s, q.utype) = "LF_MFUNCTION") =>
                  IsPlain(W, text)
  <2>1. /\ IsRecord(s, n.referenced) /\ KindOf(s, n.referenced) = q.kind
        /\ q.kind = "LF_POINTER" => q.utype \in 0 .. (t - 1)
        /\ q.kind = "LF_ARRAY" => /\ q.elemtype \in 0 .. (t - 1) /\ q.idxtype \in 0 .. (t - 1)
                                  /\ ~ IsRecord(s, q.idxtype)
        /\ q.kind = "LF_MFUNCTION" => q.classtype \in 0 .. (t - 1)
    BY <1>9, NamelessLeads
  <2> HIDE DEF W, prototype, n
  <2>2. ASSUME q.kind = "LF_POINTER"
        PROVE  /\ IsPlain(W, text) \/ IsFormat(W, text)
               /\ KindOf(s, q.utype) = "LF_MFUNCTION" => IsPlain(W, text)
    <3> DEFINE u == q.utype
    <3>1. text = texts[u].name \o Stars(n.level)  BY <2>2 DEF TextOf
    <3>2. IsPlain(W, Stars(n.level))
      <4>1. "*" \in W  BY <1>7 DEF Punctuation
      <4>2. n.level \in Int  BY <1>6
      <4> QED  BY <4>1, <4>2, StarsArePlain
    <3>3. u \in 0 .. (t - 1)  BY <2>1, <2>2
    <3> HIDE DEF text, u
    <3>4. IsSpelled(s, u, texts[u])  BY <3>3
    <3>5. IsPlain(W, texts[u].name) \/ IsFormat(W, texts[u].name)  BY <3>4 DEF IsSpelled, W
    <3>6. IsPlain(W, text) \/ IsFormat(W, text)
      BY <3>1, <3>2, <3>5, TextsJoined
    <3>7. ASSUME KindOf(s, u) = "LF_MFUNCTION" PROVE IsPlain(W, text)
      <4>1. Resolve(s)[u] = Unnamable(u)
        BY <1>8, <3>3, <3>7, NamesAndFunctions DEF Functions
      <4>2. Resolve(s)[u].referenced = u  BY <4>1 DEF Unnamable, Named
      <4>3. RecordOf(s, u).kind = "LF_MFUNCTION"  BY <3>7 DEF KindOf
      <4>4. IsPlain(W, texts[u].name)  BY <3>4, <4>2, <4>3 DEF IsSpelled, W
      <4> QED  BY <3>1, <3>2, <4>4, TextsJoined
    <3> QED  BY <3>6, <3>7 DEF u
  <2>3. ASSUME q.kind = "LF_ARRAY" PROVE IsPlain(W, text) \/ IsFormat(W, text)
    <3> DEFINE u == q.elemtype
               v == q.idxtype
    <3>1. text = texts[u].name \o <<"[">> \o texts[v].name \o <<"]">>  BY <2>3 DEF TextOf
    <3>2. u \in 0 .. (t - 1) /\ v \in 0 .. (t - 1) /\ ~ IsRecord(s, v)  BY <2>1, <2>3
    <3>3. IsPlain(W, <<"[">>) /\ IsPlain(W, <<"]">>)
      BY WordsOfPunctuation DEF Punctuation, W
    <3> HIDE DEF text, u, v
    <3>4. IsPlain(W, texts[u].name) \/ IsFormat(W, texts[u].name)  BY <3>2 DEF IsSpelled, W
    <3>5. Resolve(s)[v].name # NullName  BY <1>8, <3>2, NamesAndFunctions
    <3>6. IsPlain(W, texts[v].name)  BY <3>2, <3>5 DEF IsSpelled, W
    <3> DEFINE front == texts[u].name \o <<"[">>
    <3>7. IsPlain(W, front) \/ IsFormat(W, front)  BY <3>3, <3>4, TextsJoined
    <3> HIDE DEF front
    <3>8. IsPlain(W, front \o texts[v].name) \/ IsFormat(W, front \o texts[v].name)
      BY <3>6, <3>7, TextsJoined
    <3>9. \/ IsPlain(W, front \o texts[v].name \o <<"]">>)
          \/ IsFormat(W, front \o texts[v].name \o <<"]">>)
      BY <3>3, <3>8, TextsJoined
    <3> QED  BY <3>1, <3>9 DEF front
  <2>4. ASSUME q.kind = "LF_PROCEDURE" PROVE IsPlain(W, text) \/ IsFormat(W, text)
    <3>1. text = prototype  BY <2>4 DEF TextOf
    <3> QED  BY <1>1, <1>2, <1>5, <3>1 DEF prototype
  <2>5. ASSUME q.kind = "LF_MFUNCTION" PROVE IsPlain(W, text)
    <3> DEFINE u == q.classtype
               class == texts[u].name \o <<"::*">>
    <3>1. text = ReplaceMarker(prototype, class)  BY <2>5 DEF TextOf
    <3>2. u \in 0 .. (t - 1)  BY <2>1, <2>5
    <3>3. KindOf(s, u) \in Definitions \ {"LF_ENUM"}
      <4>1. KindOf(s, n.referenced) = "LF_MFUNCTION"  BY <2>1, <2>5
      <4> QED  BY <4>1, <2>5, FunctionLeads DEF Functions
    <3> HIDE DEF text, u
    <3>4. Resolve(s)[u].name # NullName  BY <1>8, <3>2, <3>3, NamesAndFunctions
    <3>5. IsPlain(W, texts[u].name)  BY <3>2, <3>4 DEF IsSpelled, W
    <3>6. IsPlain(W, <<"::*">>)  BY WordsOfPunctuation DEF Punctuation, W
    <3>7. IsPlain(W, class)  BY <3>5, <3>6, TextsJoined
    <3> HIDE DEF class
    <3>8. CASE KindOf(s, t) \in Functions
      BY <1>1, <1>7, <3>1, <3>7, <3>8, MarkerIsReplaced
    <3>9. CASE KindOf(s, t) \notin Functions
      <4>1. prototype = <<>>  BY <1>2, <3>9 DEF prototype
      <4>2. ReplaceMarker(<<>>, class) = <<>>  BY DEF ReplaceMarker, SelectInSeq
      <4> QED  BY <1>5, <3>1, <4>1, <4>2
    <3> QED  BY <3>8, <3>9
  <2>6. ASSUME q.kind \notin {"LF_POINTER", "LF_ARRAY"} \cup Functions PROVE IsPlain(W, text)
    <3>1. text = <<"not found">>  BY <2>6 DEF TextOf, Functions
    <3> QED  BY <3>1, WordsOfPunctuation DEF Punctuation, W
  <2> HIDE DEF text
  <2> QED  BY <2>2, <2>3, <2>4, <2>5, <2>6 DEF Functions
<1>10. n.name # NullName => IsPlain(W, <<n.name>>)  BY <1>4 DEF IsPlain
<1> HIDE DEF W, prototype, text
<1> DEFINE whole == TextsWith(s, Resolve(s), texts, t)
<1>11. /\ whole.name = (IF n.name # NullName THEN <<n.name>> ELSE text)
       /\ whole.prototype = prototype
  BY <1>3
<1> HIDE DEF whole
<1>12. /\ IsPlain(W, whole.name) \/ IsFormat(W, whole.name)
       /\ n.name # NullName => IsPlain(W, whole.name)
       /\ (\/ q.kind = "LF_MFUNCTION"
           \/ q.kind = "LF_POINTER" /\ KindOf(s, q.utype) = "LF_MFUNCTION") =>
            IsPlain(W, whole.name)
  <2>1. CASE n.name # NullName  BY <1>10, <1>11, <2>1
  <2>2. CASE n.name = NullName  BY <1>9, <1>11, <2>2
  <2> QED  BY <2>1, <2>2
<1> QED  BY <1>1, <1>11, <1>12 DEF IsSpelled, W, whole

\* All types.
LEMMA EveryTextIsSpelled ==
  ASSUME NEW s \in TPIStreams
  PROVE  \A t \in 0 .. (s.typeIndexEnd - 1) : IsSpelled(s, t, Texts(s, Resolve(s))[t])
<1> DEFINE Indices == 0 .. (s.typeIndexEnd - 1)
           texts == Texts(s, Resolve(s))
           T == {t \in Indices : ~ IsSpelled(s, t, texts[t])}
<1>1. s.typeIndexEnd \in Nat  BY TPIStreamShape
<1>2. ASSUME T # {} PROVE FALSE
  <2>1. T \in SUBSET Nat  BY <1>1
  <2>2. PICK m \in T : \A n \in T : m <= n
    <3> HIDE DEF T
    <3> QED  BY <1>2, <2>1, LeastNatural
  <2>3. m \in Indices /\ ~ IsSpelled(s, m, texts[m])  BY <2>2
  <2>4. ASSUME NEW u \in 0 .. (m - 1) PROVE IsSpelled(s, u, texts[u])
    <3>1. u \in Indices /\ ~ (m <= u)  BY <1>1, <2>3
    <3> QED  BY <2>2, <3>1
  <2>5. texts[m] = TextsWith(s, Resolve(s), texts, m)  BY <2>3, TextsAreFound
  <2> HIDE DEF texts
  <2>6. IsSpelled(s, m, TextsWith(s, Resolve(s), texts, m))
    BY <2>3, <2>4, TextIsSpelled
  <2> QED  BY <2>3, <2>5, <2>6
<1> QED  BY <1>2

\* The prototype of a function has one marker, its own, and the text of any other type
\* one at most, for every stream.
THEOREM PrototypesHaveOneMarker == MainSpec => []OneMarker
<1>1. ASSUME Walking PROVE OneMarker
  <2> DEFINE texts == Texts(stream, Resolve(stream))
  <2>1. stream \in TPIStreams  BY <1>1 DEF Walking
  <2>2. ASSUME NEW t \in TypeIndices
        PROVE  /\ KindOf(stream, t) \in Functions => Markers(texts[t].prototype) = 1
               /\ Markers(texts[t].name) <= 1
    <3> HIDE DEF texts
    <3>1. t \in 0 .. (stream.typeIndexEnd - 1)
      BY <2>1, TPIStreamShape DEF TypeIndices
    <3>2. IsSpelled(stream, t, texts[t])  BY <2>1, <3>1, EveryTextIsSpelled DEF texts
    <3>3. Marker \notin Words(stream)  BY <2>1, NoMarkerAmongWords
    <3>4. /\ KindOf(stream, t) \in Functions => IsFormat(Words(stream), texts[t].prototype)
          /\ IsPlain(Words(stream), texts[t].name) \/ IsFormat(Words(stream), texts[t].name)
      BY <3>2 DEF IsSpelled
    <3>5. KindOf(stream, t) \in Functions => Markers(texts[t].prototype) = 1
      BY <3>3, <3>4, MarkersCounted
    <3>6. Markers(texts[t].name) \in {0, 1}
      BY <3>3, <3>4, MarkersCounted
    <3> QED  BY <3>5, <3>6
  <2> QED  BY <2>2 DEF OneMarker
<1> QED  BY <1>1, TableIsInStep, PTL

-----------------------------------------------------------------------------
(* What is handed on from record to record.                                *)

\* The records something that gets to a record of a stream goes on to, itself
\* among them.
Reach(s) ==
  CHOOSE from : from = [k \in DOMAIN s.content |->
    {k} \cup (IF s.content[k].kind \in Definitions THEN {}
              ELSE UNION {from[t] : t \in Targets(s, k)})]

\* A record refers to records in front of it.
LEMMA TargetsInFront ==
  ASSUME NEW s \in TPIStreams, NEW k \in DOMAIN s.content
  PROVE  Targets(s, k) \subseteq 0 .. (k - 1) /\ Targets(s, k) \subseteq DOMAIN s.content
<1>1. s.typeIndexBegin \in Nat \ {0} /\ k \in Nat /\ DOMAIN s.content \subseteq Nat
        /\ 0 .. (k - 1) \subseteq DOMAIN s.content
  BY TPIStreamShape
<1>2. References(s.content[k]) \in Seq(ReferencesInFront(s, k))  BY ReferencesStayInFront
<1>3. ASSUME NEW q \in Targets(s, k) PROVE q \in 0 .. (k - 1)
  <2>1. PICK r \in Range(References(s.content[k])) : q = r.to - s.typeIndexBegin
    BY DEF Targets
  <2>2. r \in ReferencesInFront(s, k)  BY <1>2, <2>1 DEF Range
  <2>3. r.to \in 0 .. (s.typeIndexBegin + k - 1)  BY <1>1, <2>2, ReferenceFields
  <2>4. q \in Nat  BY DEF Targets
  <2> QED  BY <1>1, <2>1, <2>3, <2>4
<1> QED  BY <1>1, <1>3

\* What is reached depends on what records in front reach.
LEMMA ReachIsFound ==
  ASSUME NEW s \in TPIStreams
  PROVE  /\ Reach(s) = [k \in DOMAIN s.content |->
              {k} \cup (IF s.content[k].kind \in Definitions THEN {}
                        ELSE UNION {Reach(s)[t] : t \in Targets(s, k)})]
         /\ Belongings(s) = [k \in DOMAIN s.content |-> UNION {Reach(s)[t] : t \in Targets(s, k)}]
<1> DEFINE With(f, k) == {k} \cup (IF s.content[k].kind \in Definitions THEN {}
                                   ELSE UNION {f[t] : t \in Targets(s, k)})
           Solves(f, n) == f = [k \in 0 .. (n - 1) |-> With(f, k)]
           count == s.typeIndexEnd - s.typeIndexBegin
           T == {n \in 0 .. count : ~ \E f : Solves(f, n)}
<1>1. count \in Nat /\ DOMAIN s.content = 0 .. (count - 1)  BY TPIStreamShape
<1>2. ASSUME T # {} PROVE FALSE
  <2>1. T \in SUBSET Nat
    <3> HIDE DEF Solves, count
    <3> QED  BY <1>1
  <2>2. PICK m \in T : \A n \in T : m <= n
    <3> HIDE DEF T
    <3> QED  BY <1>2, <2>1, LeastNatural
  <2>3. m \in 0 .. count /\ ~ \E f : Solves(f, m)  BY <2>2
  <2> HIDE DEF count
  <2>4. m # 0
    <3>1. 0 .. (0 - 1) = {}  OBVIOUS
    <3>2. Solves([k \in {} |-> k], 0)  BY <3>1
    <3> QED  BY <2>3, <3>2
  <2>5. m - 1 \in 0 .. count /\ ~ (m <= m - 1) /\ m \in Nat /\ m - 1 \in Nat
    BY <1>1, <2>3, <2>4
  <2>6. PICK f : Solves(f, m - 1)
    <3>1. m - 1 \notin T  BY <2>2, <2>5
    <3> QED  BY <2>5, <3>1
  <2> DEFINE g == [k \in 0 .. (m - 1) |-> With(f, k)]
  <2>7. ASSUME NEW k \in 0 .. (m - 1) PROVE g[k] = With(g, k)
    <3>1. k \in DOMAIN s.content /\ k \in Nat  BY <1>1, <2>3
    <3>2. Targets(s, k) \subseteq 0 .. (k - 1)  BY <3>1, TargetsInFront
    <3>3. ASSUME NEW t \in Targets(s, k) PROVE f[t] = g[t]
      <4>1. t \in 0 .. (m - 1 - 1) /\ t \in 0 .. (m - 1)  BY <2>5, <3>1, <3>2
      <4>2. f[t] = With(f, t)
        <5> HIDE DEF With
        <5> QED  BY <2>6, <4>1
      <4>3. g[t] = With(f, t)
        <5> HIDE DEF With
        <5> QED  BY <4>1
      <4> QED  BY <4>2, <4>3
    <3>4. g[k] = With(f, k)
      <4> HIDE DEF With
      <4> QED  OBVIOUS
    <3> HIDE DEF g
    <3>5. {f[t] : t \in Targets(s, k)} = {g[t] : t \in Targets(s, k)}  BY <3>3
    <3>6. With(f, k) = With(g, k)  BY <3>5
    <3> QED  BY <3>4, <3>6
  <2>8. Solves(g, m)
    <3>1. g = [k \in 0 .. (m - 1) |-> g[k]]  OBVIOUS
    <3> HIDE DEF g, With
    <3> QED  BY <2>7, <3>1
  <2> QED  BY <2>3, <2>8
<1>3. \E f : Solves(f, count)
  <2>1. count \in 0 .. count  BY <1>1
  <2> HIDE DEF count
  <2> QED  BY <1>2, <2>1
<1>4. Reach(s) = CHOOSE f : Solves(f, count)
  BY <1>1 DEF Reach
<1>5. Solves(Reach(s), count)
  <2> HIDE DEF Solves, count
  <2> QED  BY <1>3, <1>4
<1>6. Belongings(s) = [k \in DOMAIN s.content |-> UNION {Reach(s)[t] : t \in Targets(s, k)}]
  BY DEF Belongings, Reach
<1> QED  BY <1>1, <1>5, <1>6

\* What a record reaches, a record that refers to it reaches too.
LEMMA ReachGoesOn ==
  ASSUME NEW s \in TPIStreams, NEW p \in DOMAIN s.content,
         s.content[p].kind \notin Definitions, NEW q \in Targets(s, p)
  PROVE  \A t \in DOMAIN s.content : p \in Reach(s)[t] => q \in Reach(s)[t]
<1> DEFINE T == {t \in DOMAIN s.content : p \in Reach(s)[t] /\ q \notin Reach(s)[t]}
<1>1. ASSUME T # {} PROVE FALSE
  <2>1. T \in SUBSET Nat  BY TPIStreamShape
  <2>2. PICK m \in T : \A n \in T : m <= n
    <3> HIDE DEF T
    <3> QED  BY <1>1, <2>1, LeastNatural
  <2>3. m \in DOMAIN s.content /\ p \in Reach(s)[m] /\ q \notin Reach(s)[m]  BY <2>2
  <2>4. Reach(s)[m] = {m} \cup (IF s.content[m].kind \in Definitions THEN {}
                                ELSE UNION {Reach(s)[t] : t \in Targets(s, m)})
    BY <2>3, ReachIsFound
  <2>5. s.content[m].kind \notin Definitions  BY <2>3, <2>4
  <2>6. CASE p = m
    <3>1. q \in DOMAIN s.content  BY TargetsInFront
    <3>2. q \in Reach(s)[q]  BY <3>1, ReachIsFound
    <3> QED  BY <2>3, <2>4, <2>5, <2>6, <3>2
  <2>7. CASE p # m
    <3>1. PICK t \in Targets(s, m) : p \in Reach(s)[t]  BY <2>3, <2>4, <2>7
    <3>2. t \in DOMAIN s.content /\ t \in 0 .. (m - 1)  BY <2>3, TargetsInFront
    <3>3. t \notin T
      <4>1. m \in Nat /\ t \in Nat /\ ~ (m <= t)  BY <2>1, <3>2
      <4> HIDE DEF T
      <4> QED  BY <2>2, <4>1
    <3>4. q \in Reach(s)[t]  BY <3>1, <3>2, <3>3
    <3> QED  BY <2>3, <2>4, <2>5, <3>1, <3>4
  <2> QED  BY <2>6, <2>7
<1> QED  BY <1>1

\* Definitions, and functions on behalf of their classes, hand on names of their own.
IsRoot(s, r) ==
  r \in DOMAIN s.content /\ s.content[r].kind \in Definitions \cup {"LF_MFUNCTION"}

\* Roots name themselves and what they refer to.
LEMMA RootsName ==
  ASSUME NEW s \in TPIStreams, NEW r, IsRoot(s, r)
  PROVE  Title(s, r) \in Naming(s, r) /\ \A q \in Targets(s, r) : Title(s, r) \in Naming(s, q)
<1>1. r \in DOMAIN s.content /\ s.content[r].kind \in Definitions \cup {"LF_MFUNCTION"}
  BY DEF IsRoot
<1>2. Title(s, r) \in Naming(s, r)  BY <1>1 DEF Naming
<1>3. ASSUME NEW q \in Targets(s, r) PROVE Title(s, r) \in Naming(s, q)
  <2>1. q \in Reach(s)[q]  BY <1>1, TargetsInFront, ReachIsFound
  <2>2. q \in Belongings(s)[r]  BY <1>1, <2>1, ReachIsFound
  <2> QED  BY <1>1, <2>2 DEF Naming
<1> QED  BY <1>2, <1>3

\* What is named, names what it refers to, unless it is a definition.
LEMMA NamingGoesOn ==
  ASSUME NEW s \in TPIStreams, NEW p \in DOMAIN s.content,
         s.content[p].kind \notin Definitions, Naming(s, p) # {}, NEW q \in Targets(s, p)
  PROVE  Naming(s, q) # {}
<1>1. PICK r \in DOMAIN s.content :
        s.content[r].kind \in Definitions \cup {"LF_MFUNCTION"} /\ p \in {r} \cup Belongings(s)[r]
  BY DEF Naming
<1>2. CASE p = r
  <2>1. Title(s, r) \in Naming(s, q)  BY <1>1, <1>2, RootsName DEF IsRoot
  <2> QED  BY <2>1
<1>3. CASE p \in Belongings(s)[r]
  <2>1. Belongings(s)[r] = UNION {Reach(s)[t] : t \in Targets(s, r)}  BY ReachIsFound
  <2>2. PICK t \in Targets(s, r) : p \in Reach(s)[t]  BY <1>3, <2>1
  <2>3. t \in DOMAIN s.content  BY TargetsInFront
  <2>4. q \in Reach(s)[t]  BY <2>2, <2>3, ReachGoesOn
  <2>5. q \in Belongings(s)[r]  BY <2>1, <2>2, <2>4
  <2>6. Title(s, r) \in Naming(s, q)  BY <1>1, <2>5 DEF Naming
  <2> QED  BY <2>6
<1> QED  BY <1>1, <1>2, <1>3

-----------------------------------------------------------------------------
(* The names given so far.                                                 *)

\* b is what a record is called that was given a, if anything, and maybe more.
Below(a, b) == a = NoName \/ b \in {a, MultipleReferences}

\* What SetName makes of a name.
Marked(b) == IF b = NoName THEN name ELSE MultipleReferences

LEMMA MarksGrow ==
  /\ MultipleReferences # NoName
  /\ \A a : Below(a, NoName) => a = NoName
  /\ \A a, b, c : Below(a, b) /\ Below(b, c) => Below(a, c)
  /\ \A a, b : Below(a, b) => Below(a, Marked(b))
  /\ \A b : Below(name, Marked(b)) /\ Below(b, Marked(b))
<1>1. MultipleReferences # NoName  BY DEF MultipleReferences, NoName
<1> QED  BY <1>1 DEF Below, Marked

\* What record p hands on, if its turn has come.
HandedOn(p) ==
  IF stream.content[p].kind \in Definitions
    THEN (IF p < record THEN stream.content[p].name ELSE NoName)
    ELSE names[p]

\* The n-th of the pending references is to record q, and none in front of it to p or
\* to a record behind p.
IsAhead(p, q, n) ==
  /\ pending[n].to = GetFirstTypeIndex + q
  /\ \A m \in 1 .. n : pending[m].to < GetFirstTypeIndex + p

\* The reference of p to q is still to be gone through, with the name p hands on, or
\* with another one if q has a name.
Waiting(p, q) ==
  /\ \E n \in DOMAIN pending : IsAhead(p, q, n)
  /\ HandedOn(p) = name \/ names[q] # NoName

\* What a record hands on has got to those it refers to, or is on its way.
Handing ==
  \A p \in DOMAIN stream.content : \A q \in Targets(stream, p) :
    Below(HandedOn(p), names[q]) \/ Waiting(p, q)

\* What is gone through first replaced by what it leads to.
LEMMA PushedInFront ==
  ASSUME NEW S, NEW seq \in Seq(S), seq # <<>>, NEW pushed \in Seq(S)
  PROVE  LET next == pushed \o Tail(seq)
         IN  /\ next \in Seq(S) /\ DOMAIN next = 1 .. (Len(pushed) + Len(seq) - 1)
             /\ Len(pushed) \in Nat /\ DOMAIN pushed = 1 .. Len(pushed)
             /\ Len(seq) \in Nat /\ DOMAIN seq = 1 .. Len(seq) /\ seq[1] = Head(seq) /\ Len(seq) > 0
             /\ \A m \in 1 .. Len(pushed) : next[m] = pushed[m]
             /\ \A n \in 2 .. Len(seq) : next[Len(pushed) + n - 1] = seq[n]
<1> DEFINE next == pushed \o Tail(seq)
<1>1. /\ Len(pushed) \in Nat /\ DOMAIN pushed = 1 .. Len(pushed)
      /\ Len(seq) \in Nat /\ DOMAIN seq = 1 .. Len(seq) /\ seq[1] = Head(seq) /\ Len(seq) > 0
  OBVIOUS
<1>2. /\ Tail(seq) \in Seq(S) /\ Len(Tail(seq)) = Len(seq) - 1
      /\ \A n \in 1 .. (Len(seq) - 1) : Tail(seq)[n] = seq[n + 1]
  OBVIOUS
<1>3. /\ next \in Seq(S) /\ Len(next) = Len(pushed) + (Len(seq) - 1)
      /\ \A m \in 1 .. (Len(pushed) + (Len(seq) - 1)) :
           next[m] = IF m <= Len(pushed) THEN pushed[m] ELSE Tail(seq)[m - Len(pushed)]
  BY <1>2, ConcatProperties
<1>4. DOMAIN next = 1 .. Len(next)  BY <1>3
<1> HIDE DEF next
<1>5. ASSUME NEW n \in 2 .. Len(seq) PROVE next[Len(pushed) + n - 1] = seq[n]
  <2>1. /\ Len(pushed) + n - 1 \in 1 .. (Len(pushed) + (Len(seq) - 1))
        /\ ~ (Len(pushed) + n - 1 <= Len(pushed))
        /\ (Len(pushed) + n - 1) - Len(pushed) = n - 1
        /\ n - 1 \in 1 .. (Len(seq) - 1) /\ n - 1 + 1 = n
    BY <1>1
  <2>2. next[Len(pushed) + n - 1] = Tail(seq)[(Len(pushed) + n - 1) - Len(pushed)]
    BY <1>3, <2>1
  <2> QED  BY <1>2, <2>1, <2>2
<1>6. \A m \in 1 .. Len(pushed) : next[m] = pushed[m]  BY <1>1, <1>3
<1>7. DOMAIN next = 1 .. (Len(pushed) + Len(seq) - 1)  BY <1>1, <1>3, <1>4
<1> QED  BY <1>1, <1>3, <1>5, <1>6, <1>7 DEF next

LEMMA LessGoesOn == \A m, n, l \in Int : m < n /\ n < l => m < l
  OBVIOUS

\* A reference that is not the next to be gone through is still ahead afterwards.
LEMMA StillAhead ==
  ASSUME Walking, Pending, pending # <<>>,
         NEW pushed \in Seq(ReferencesInFront(stream, record)), pending' = pushed \o Tail(pending),
         stream' = stream, \A m \in DOMAIN pushed : pushed[m].to < Head(pending).to,
         NEW p, p \in Nat, NEW q, NEW n \in DOMAIN pending, n # 1, IsAhead(p, q, n)
  PROVE  \E l \in DOMAIN pending' : IsAhead(p, q, l)'
<1> DEFINE first == GetFirstTypeIndex
           W == ReferencesInFront(stream, record)
           l == Len(pushed) + n - 1
<1>1. /\ pending \in Seq(W) /\ pushed \in Seq(W) /\ first \in Nat /\ first' = first
      /\ record \in Nat /\ stream \in TPIStreams
  BY CountIsNatural DEF Pending, GetFirstTypeIndex
<1>2. /\ DOMAIN pending' = 1 .. (Len(pushed) + Len(pending) - 1)
      /\ Len(pushed) \in Nat /\ DOMAIN pushed = 1 .. Len(pushed)
      /\ Len(pending) \in Nat /\ DOMAIN pending = 1 .. Len(pending) /\ pending[1] = Head(pending)
      /\ \A m \in 1 .. Len(pushed) : pending'[m] = pushed[m]
      /\ \A m \in 2 .. Len(pending) : pending'[Len(pushed) + m - 1] = pending[m]
  <2> HIDE DEF W
  <2> QED  BY <1>1, PushedInFront
<1>3. n \in 2 .. Len(pending) /\ l \in DOMAIN pending'  BY <1>2
<1>4. pending'[l] = pending[n]  BY <1>2, <1>3
<1>5. pending[n].to = first + q /\ \A m \in 1 .. n : pending[m].to < first + p
  BY DEF IsAhead
<1>6. ASSUME NEW m \in 1 .. l PROVE pending'[m].to < first + p
  <2>1. CASE m <= Len(pushed)
    <3>1. m \in 1 .. Len(pushed)  BY <1>2, <2>1
    <3>2. pending'[m] = pushed[m] /\ pushed[m].to < Head(pending).to  BY <1>2, <3>1
    <3>3. Head(pending).to < first + p  BY <1>2, <1>3, <1>5
    <3>4. pushed[m] \in W /\ Head(pending) \in W
      <4> HIDE DEF W
      <4> QED  BY <1>1, <1>2, <3>1
    <3>5. pushed[m].to \in Int /\ Head(pending).to \in Int
      <4>1. /\ pushed[m].to \in 0 .. (stream.typeIndexBegin + record - 1)
            /\ Head(pending).to \in 0 .. (stream.typeIndexBegin + record - 1)
        BY <1>1, <3>4, ReferenceFields
      <4> QED  BY <1>1, <4>1
    <3>6. first + p \in Int  BY <1>1
    <3> HIDE DEF first
    <3>7. pushed[m].to < first + p  BY <3>2, <3>3, <3>5, <3>6, LessGoesOn, Zenon
    <3> QED  BY <3>2, <3>7, Zenon
  <2>2. CASE ~ (m <= Len(pushed))
    <3>1. PICK k \in 2 .. Len(pending) : k <= n /\ Len(pushed) + k - 1 = m
      <4>1. /\ m - Len(pushed) + 1 \in 2 .. Len(pending) /\ m - Len(pushed) + 1 <= n
            /\ Len(pushed) + (m - Len(pushed) + 1) - 1 = m
        BY <1>2, <1>3, <2>2
      <4> QED  BY <4>1
    <3>2. pending'[m] = pending[k]  BY <1>2, <3>1
    <3>3. k \in 1 .. n  BY <1>3, <3>1
    <3> QED  BY <1>5, <3>2, <3>3
  <2> QED  BY <1>2, <2>1, <2>2
<1>7. IsAhead(p, q, l)'
  <2> HIDE DEF l
  <2> QED  BY <1>1, <1>4, <1>5, <1>6 DEF IsAhead
<1> QED  BY <1>3, <1>7

\* A record's references are ahead when they have just been reached.
LEMMA ReferencesAhead ==
  ASSUME Walking, stream' = stream, NEW k \in DOMAIN stream.content,
         NEW S, NEW rest \in Seq(S), pending' = References(stream.content[k]) \o rest,
         NEW q \in Targets(stream, k)
  PROVE  \E l \in DOMAIN pending' : IsAhead(k, q, l)'
<1> DEFINE first == GetFirstTypeIndex
           refs == References(stream.content[k])
           W == ReferencesInFront(stream, k)
<1>1. /\ first \in Nat /\ first' = first /\ first = stream.typeIndexBegin
      /\ stream \in TPIStreams /\ k \in Nat
  BY CountIsNatural, TPIStreamShape DEF GetFirstTypeIndex
<1>2. refs \in Seq(W)  BY <1>1, ReferencesStayInFront
<1>3. PICK r \in Range(refs) : q = r.to - first  BY <1>1 DEF Targets
<1> HIDE DEF refs, W
<1>4. Len(refs) \in Nat /\ DOMAIN refs = 1 .. Len(refs)  BY <1>2
<1>5. PICK l \in 1 .. Len(refs) : r = refs[l]  BY <1>3, <1>4 DEF Range
<1>6. /\ Len(rest) \in Nat
      /\ refs \in Seq(W \cup S) /\ rest \in Seq(W \cup S)
  BY <1>2
<1>7. /\ DOMAIN pending' = 1 .. (Len(refs) + Len(rest))
      /\ \A m \in 1 .. Len(refs) : pending'[m] = refs[m]
  <2>1. /\ refs \o rest \in Seq(W \cup S) /\ Len(refs \o rest) = Len(refs) + Len(rest)
        /\ \A m \in 1 .. (Len(refs) + Len(rest)) :
             (refs \o rest)[m] = IF m <= Len(refs) THEN refs[m] ELSE rest[m - Len(refs)]
    BY <1>6, ConcatProperties
  <2>2. DOMAIN (refs \o rest) = 1 .. Len(refs \o rest)  BY <2>1
  <2>3. pending' = refs \o rest  BY DEF refs
  <2>4. \A m \in 1 .. Len(refs) : (refs \o rest)[m] = refs[m]  BY <1>4, <1>6, <2>1
  <2> QED  BY <2>1, <2>2, <2>3, <2>4
<1>8. ASSUME NEW m \in 1 .. Len(refs)
      PROVE  refs[m].to \in Nat /\ refs[m].to < first + k
  <2>1. refs[m] \in W  BY <1>2, <1>4
  <2>2. refs[m].to \in 0 .. (stream.typeIndexBegin + k - 1)
    BY <1>1, <2>1, ReferenceFields DEF W
  <2> QED  BY <1>1, <2>2
<1>9. l \in DOMAIN pending' /\ \A m \in 1 .. l : m \in 1 .. Len(refs)
  BY <1>4, <1>5, <1>6, <1>7
<1>10. pending'[l].to = first + q
  <2>1. pending'[l] = r  BY <1>5, <1>7
  <2>2. r.to \in Nat  BY <1>5, <1>8
  <2>3. first \in Nat /\ q = r.to - first  BY <1>1, <1>3
  <2>4. r.to = first + q  BY <2>2, <2>3
  <2> QED  BY <2>1, <2>4
<1>11. \A m \in 1 .. l : pending'[m].to < first + k
  BY <1>7, <1>8, <1>9
<1>12. IsAhead(k, q, l)'
  BY <1>1, <1>10, <1>11 DEF IsAhead
<1> QED  BY <1>9, <1>12

\* A record is marked, and its references are gone through if that changed what it
\* hands on.
LEMMA HandingGoesOn ==
  ASSUME Walking, Pending, Handing, DOMAIN names = DOMAIN stream.content,
         pending # <<>>, Head(pending).to >= GetFirstTypeIndex,
         NEW k, k = Head(pending).to - GetFirstTypeIndex,
         names' = [names EXCEPT ![k] = Marked(names[k])],
         UNCHANGED <<stream, record, name>>,
         NEW pushed, pending' = pushed \o Tail(pending),
         \/ pushed = References(stream.content[k])
         \/ /\ pushed = <<>>
            /\ \/ names'[k] = names[k]
               \/ stream.content[k].kind \in Definitions
               \/ References(stream.content[k]) = <<>>
  PROVE  Handing'
<1> DEFINE first == GetFirstTypeIndex
           W == ReferencesInFront(stream, record)
<1>1. /\ first \in Nat /\ first = stream.typeIndexBegin /\ record \in Nat /\ stream \in TPIStreams
      /\ pending \in Seq(W)
  BY CountIsNatural DEF Pending
<1>2. /\ k \in DOMAIN stream.content /\ k < record /\ k \in Nat
      /\ Head(pending).to = first + k /\ pc # "walk"
  <2>1. k \in 0 .. (GetTypeRecordCount - 1) /\ k < record  BY ReferencedRecord
  <2>2. Head(pending).to \in Nat /\ pc # "walk"  BY NextReference
  <2>3. k \in DOMAIN stream.content  BY <2>1, CountIsNatural
  <2>4. k \in Nat /\ Head(pending).to = first + k  BY <1>1, <2>1, <2>2
  <2> QED  BY <2>1, <2>2, <2>3, <2>4
<1>3. References(stream.content[k]) \in Seq(ReferencesInFront(stream, k))
  BY <1>1, <1>2, ReferencesStayInFront
<1>4. pushed \in Seq(W)
  <2>1. Seq(ReferencesInFront(stream, k)) \subseteq Seq(W)  BY <1>1, <1>2, MoreInFront
  <2>2. <<>> \in Seq(W)  OBVIOUS
  <2>3. pushed = References(stream.content[k]) \/ pushed = <<>>  OBVIOUS
  <2> HIDE DEF W
  <2> QED  BY <1>3, <2>1, <2>2, <2>3, Zenon
<1>5. \A m \in DOMAIN pushed : pushed[m].to < Head(pending).to
  <2>1. SUFFICES ASSUME NEW m \in DOMAIN pushed PROVE pushed[m].to < first + k
    BY <1>2
  <2>2. pushed \in Seq(ReferencesInFront(stream, k))
    <3>1. <<>> \in Seq(ReferencesInFront(stream, k))  OBVIOUS
    <3> QED  BY <1>3, <3>1
  <2>3. pushed[m] \in ReferencesInFront(stream, k)
    <3>1. DOMAIN pushed = 1 .. Len(pushed)  BY <2>2
    <3> QED  BY <2>1, <2>2, <3>1
  <2>4. pushed[m].to \in 0 .. (stream.typeIndexBegin + k - 1)
    BY <1>1, <1>2, <2>3, ReferenceFields
  <2>5. stream.typeIndexBegin = first /\ first \in Nat /\ k \in Nat  BY <1>1, <1>2
  <2> HIDE DEF first
  <2>6. pushed[m].to < first + k  BY <2>4, <2>5
  <2> QED  BY <2>6 DEF first
<1>6. /\ pending[1] = Head(pending) /\ 1 \in DOMAIN pending
      /\ \A n \in DOMAIN pending : n \in Nat /\ 1 \in 1 .. n
  <2>1. Len(pending) \in Nat /\ DOMAIN pending = 1 .. Len(pending) /\ Len(pending) > 0
    <3> HIDE DEF W
    <3> QED  BY <1>1
  <2> QED  BY <1>1, <2>1
<1>7. \A l \in DOMAIN names : names'[l] = IF l = k THEN Marked(names[k]) ELSE names[l]
  BY <1>2
<1> SUFFICES ASSUME NEW p \in DOMAIN stream.content, NEW q \in Targets(stream, p)
             PROVE  Below(HandedOn(p)', names'[q]) \/ Waiting(p, q)'
  BY DEF Handing
<1>8. p \in Nat /\ q \in Nat /\ q \in DOMAIN names  BY <1>1, TargetsInFront, TPIStreamShape
<1>9. /\ Below(names[q], names'[q])
      /\ names[q] # NoName => names'[q] # NoName
  <2>1. names'[q] = names[q] \/ names'[q] = Marked(names[q])  BY <1>7, <1>8
  <2>2. Below(names[q], names[q])  BY DEF Below
  <2>3. Below(names[q], names'[q])  BY <2>1, <2>2, MarksGrow
  <2> QED  BY <2>3, MarksGrow
<1>10. Below(HandedOn(p), names[q]) \/ Waiting(p, q)  BY DEF Handing
<1>11. ASSUME HandedOn(p)' = HandedOn(p)
       PROVE  Below(HandedOn(p)', names'[q]) \/ Waiting(p, q)'
  <2>1. CASE Below(HandedOn(p), names[q])
    <3>1. Below(HandedOn(p), names'[q])  BY <1>9, <2>1, MarksGrow
    <3> QED  BY <1>11, <3>1
  <2>2. CASE Waiting(p, q)
    <3>1. PICK n \in DOMAIN pending : IsAhead(p, q, n)  BY <2>2 DEF Waiting
    <3>2. HandedOn(p) = name \/ names[q] # NoName  BY <2>2 DEF Waiting
    <3>3. CASE n = 1
      <4>1. Head(pending).to = first + q  BY <1>6, <3>1, <3>3 DEF IsAhead
      <4>2. q = k  BY <1>1, <1>2, <1>8, <4>1
      <4>3. names'[q] = Marked(names[q])  BY <1>7, <1>8, <4>2
      <4>4. Below(HandedOn(p), names'[q])
        <5>1. CASE HandedOn(p) = name  BY <4>3, <5>1, MarksGrow
        <5>2. CASE names[q] # NoName
          <6>1. names'[q] = MultipleReferences  BY <4>3, <5>2 DEF Marked
          <6> QED  BY <6>1 DEF Below
        <5> QED  BY <3>2, <5>1, <5>2
      <4> QED  BY <1>11, <4>4
    <3>4. CASE n # 1
      <4>1. \E l \in DOMAIN pending' : IsAhead(p, q, l)'
        BY <1>4, <1>5, <1>8, <3>1, <3>4, StillAhead
      <4>2. HandedOn(p)' = name' \/ names'[q] # NoName
        BY <1>9, <1>11, <3>2
      <4>3. Waiting(p, q)'  BY <4>1, <4>2 DEF Waiting
      <4> QED  BY <4>3
    <3> QED  BY <3>3, <3>4
  <2> QED  BY <1>10, <2>1, <2>2
<1>12. ASSUME HandedOn(p)' # HandedOn(p)
       PROVE  Waiting(p, q)'
  <2>1. /\ p = k /\ stream.content[k].kind \notin Definitions /\ names'[k] # names[k]
    BY <1>7, <1>12 DEF HandedOn
  <2>2. HandedOn(p)' = Marked(names[k]) /\ HandedOn(p) = names[k]
    BY <1>2, <1>7, <2>1 DEF HandedOn
  <2>3. pushed = References(stream.content[k])
    <3>1. ASSUME References(stream.content[k]) = <<>> PROVE FALSE
      <4>1. Range(<<>>) = {}  BY DEF Range
      <4>2. Targets(stream, k) = {}  BY <3>1, <4>1 DEF Targets
      <4> QED  BY <2>1, <4>2
    <3> QED  BY <2>1, <3>1
  <2>4. \E l \in DOMAIN pending' : IsAhead(p, q, l)'
    <3>1. Tail(pending) \in Seq(W)
      <4> HIDE DEF W
      <4> QED  BY <1>1
    <3> QED  BY <1>2, <2>1, <2>3, <3>1, ReferencesAhead
  <2>5. HandedOn(p)' = name' \/ names'[q] # NoName
    <3>1. CASE names[k] = NoName
      BY <2>2, <3>1 DEF Marked
    <3>2. CASE names[k] # NoName
      <4>1. ~ Waiting(p, q)
        <5>1. SUFFICES ASSUME NEW n \in DOMAIN pending, IsAhead(p, q, n) PROVE FALSE
          BY DEF Waiting
        <5>2. pending[1].to < first + k  BY <1>6, <2>1, <5>1 DEF IsAhead
        <5> QED  BY <1>1, <1>2, <1>6, <5>2
      <4>2. Below(names[k], names[q])  BY <1>10, <2>2, <4>1
      <4>3. names[q] # NoName  BY <3>2, <4>2, MarksGrow
      <4> QED  BY <1>9, <4>3
    <3> QED  BY <3>1, <3>2
  <2> QED  BY <2>4, <2>5 DEF Waiting
<1> QED  BY <1>11, <1>12

\* A definition or member function the loop has passed has its name, or is about to
\* get it.
Labels ==
  \A r \in DOMAIN stream.content : IsRoot(stream, r) /\ r < record =>
    \/ Below(Title(stream, r), names[r])
    \/ name = Title(stream, r) /\ pending = <<TagOf(GetFirstTypeIndex + r)>>

\* Nothing has a name or is about to get one that nothing names.
Sound ==
  /\ \A l \in DOMAIN stream.content : names[l] # NoName => Naming(stream, l) # {}
  /\ \A n \in DOMAIN pending : pending[n].to >= GetFirstTypeIndex =>
       Naming(stream, pending[n].to - GetFirstTypeIndex) # {}

\* The loops end with nothing left to go through.
Done == pc = "printed" => pending = <<>> /\ record = GetTypeRecordCount

\* ExampleTPISize, whatever it is at.
Tagging == example = "ExampleTPISize" => Handing /\ Labels /\ Sound /\ Done

\* What TAG_AND_CHECK does to the names and to the references to go through.
LEMMA TagSteps ==
  ASSUME Walking, Pending, FollowedAsNamed, Tag \/ TagThrough
  PROVE  LET k == Head(pending).to - GetFirstTypeIndex
         IN  /\ pending # <<>> /\ Head(pending).to >= GetFirstTypeIndex
             /\ k \in DOMAIN stream.content
             /\ names' = [names EXCEPT ![k] = Marked(names[k])]
             /\ UNCHANGED <<stream, record, name, pc, example>>
             /\ \/ /\ pending' = References(stream.content[k]) \o Tail(pending)
                   /\ stream.content[k].kind \notin Definitions
                \/ /\ pending' = <<>> \o Tail(pending)
                   /\ \/ names'[k] = names[k]
                      \/ stream.content[k].kind \in Definitions
                      \/ References(stream.content[k]) = <<>>
<1> DEFINE first == GetFirstTypeIndex
           k == Head(pending).to - first
<1>1. pending # <<>> /\ UNCHANGED <<stream, record, name, pc, example>>
  BY DEF Tag, TagThrough, tableVars, displayVars
<1>2. Head(pending).to >= first  BY <1>1, NextReference DEF Tag, TagThrough
<1>3. /\ k \in 0 .. (GetTypeRecordCount - 1)
      /\ At(Lookup(Head(pending).to)) = stream.content[k]
  BY <1>1, <1>2, ReferencedRecord
<1>4. /\ k \in DOMAIN stream.content /\ stream \in TPIStreams
      /\ first = stream.typeIndexBegin /\ first \in Nat
  BY <1>3, CountIsNatural
<1>5. names' = [names EXCEPT ![k] = Marked(names[k])]
  <2>1. names' = [names EXCEPT ![k] = IF @ = NoName THEN name ELSE MultipleReferences]
    BY DEF Tag, TagThrough, SetName
  <2> HIDE DEF k
  <2> QED  BY <2>1 DEF Marked
<1>6. KindOf(stream, Head(pending).to) = stream.content[k].kind
  <2>1. IsRecord(stream, Head(pending).to)
    <3>1. Head(pending).to \in Nat  BY <1>1, NextReference
    <3>2. GetTypeRecordCount = stream.typeIndexEnd - stream.typeIndexBegin
            /\ stream.typeIndexEnd \in Nat
      BY CountIsNatural
    <3> QED  BY <1>3, <1>4, <3>1, <3>2 DEF IsRecord
  <2>2. RecordOf(stream, Head(pending).to) = stream.content[k]  BY <1>4 DEF RecordOf
  <2> QED  BY <2>1, <2>2 DEF KindOf
<1>7. /\ Head(pending).through => stream.content[k].kind \in {"LF_FIELDLIST", "LF_METHODLIST"}
      /\ ~ Head(pending).through => stream.content[k].kind # "LF_METHODLIST"
  <2>1. pending \in Seq(ReferencesInFront(stream, record)) /\ record \in Nat
    BY CountIsNatural DEF Pending
  <2>2. Head(pending) \in ReferencesInFront(stream, record)  BY <1>1, <2>1
  <2> HIDE DEF k
  <2> QED  BY <1>4, <1>6, <2>1, <2>2, ReferenceFields
<1> DEFINE record0 == stream.content[k]
<1>8. CASE TagThrough
  <2>1. pending' = References(record0) \o Tail(pending)
    BY <1>3, <1>8 DEF TagThrough, GetTypeRecord
  <2>2. record0.kind \notin Definitions  BY <1>7, <1>8 DEF TagThrough, Definitions
  <2> QED  BY <1>1, <1>2, <1>4, <1>5, <2>1, <2>2
<1>9. CASE Tag /\ names'[k] = names[k]
  <2>1. pending' = Tail(pending)  BY <1>9 DEF Tag, Changed
  <2>2. Tail(pending) = <<>> \o Tail(pending)
    <3>1. pending \in Seq(ReferencesInFront(stream, record))  BY DEF Pending
    <3>2. Tail(pending) \in Seq(ReferencesInFront(stream, record))  BY <1>1, <3>1
    <3> QED  BY <3>2
  <2> QED  BY <1>1, <1>2, <1>4, <1>5, <1>9, <2>1, <2>2
<1>10. CASE Tag /\ names'[k] # names[k]
  <2>1. pending' = (IF record0.kind \in Followed THEN References(record0) ELSE <<>>) \o Tail(pending)
    <3>1. /\ GetTypeRecord(Head(pending).to)
          /\ pending' = (IF At(answer').kind \in Followed THEN References(At(answer')) ELSE <<>>)
                          \o Tail(pending)
      BY <1>10 DEF Tag, Changed
    <3>2. At(Lookup(Head(pending).to)) = record0  BY <1>3
    <3>3. answer' = Lookup(Head(pending).to)  BY <3>1 DEF GetTypeRecord
    <3>4. At(answer') = At(Lookup(Head(pending).to))  BY <3>3
    <3>5. At(answer') = record0  BY <3>2, <3>4
    <3> HIDE DEF record0
    <3> QED  BY <3>1, <3>5
  <2>2. record0.kind # "LF_METHODLIST"  BY <1>7, <1>10 DEF Tag
  <2>3. CASE record0.kind \in Followed
    BY <1>1, <1>2, <1>4, <1>5, <2>1, <2>3 DEF Followed, Definitions
  <2>4. CASE record0.kind \notin Followed
    <3>1. record0.kind \in Definitions \/ References(record0) = <<>>
      <4> HIDE DEF record0
      <4> QED  BY <2>2, <2>4 DEF References, Followed, Definitions
    <3>2. pending' = <<>> \o Tail(pending)  BY <2>1, <2>4
    <3> QED  BY <1>1, <1>2, <1>4, <1>5, <3>1, <3>2
  <2> QED  BY <2>3, <2>4
<1> HIDE DEF k
<1>11. Tag \/ TagThrough  OBVIOUS
<1> QED  BY <1>8, <1>9, <1>10, <1>11

\* A function's own record gets the name first.
LEMMA LabelsGoOn ==
  ASSUME Labels, DOMAIN names = DOMAIN stream.content, pending # <<>>, GetFirstTypeIndex \in Nat,
         DOMAIN stream.content \subseteq Nat,
         NEW k, k = Head(pending).to - GetFirstTypeIndex,
         names' = [names EXCEPT ![k] = Marked(names[k])],
         UNCHANGED <<stream, record, name>>
  PROVE  Labels'
<1> SUFFICES ASSUME NEW r \in DOMAIN stream.content, IsRoot(stream, r), r < record
             PROVE  Below(Title(stream, r), names'[r])
  BY DEF Labels
<1>1. names'[r] = IF r = k THEN Marked(names[r]) ELSE names[r]  OBVIOUS
<1>2. CASE Below(Title(stream, r), names[r])
  BY <1>1, <1>2, MarksGrow
<1>3. CASE name = Title(stream, r) /\ pending = <<TagOf(GetFirstTypeIndex + r)>>
  <2>1. Head(pending).to = GetFirstTypeIndex + r  BY <1>3 DEF TagOf
  <2>2. r \in Nat  OBVIOUS
  <2>3. r = k  BY <2>1, <2>2
  <2> QED  BY <1>1, <1>3, <2>3, MarksGrow
<1> QED  BY <1>2, <1>3 DEF Labels

\* The records a record's references are to.
LEMMA ReferencesAreTargets ==
  ASSUME NEW s \in TPIStreams, NEW k \in DOMAIN s.content,
         NEW n \in DOMAIN References(s.content[k]),
         References(s.content[k])[n].to >= s.typeIndexBegin
  PROVE  References(s.content[k])[n].to - s.typeIndexBegin \in Targets(s, k)
<1> DEFINE refs == References(s.content[k])
<1>1. s.typeIndexBegin \in Nat /\ k \in Nat  BY TPIStreamShape
<1>2. refs \in Seq(ReferencesInFront(s, k))  BY ReferencesStayInFront
<1>3. refs[n] \in Range(refs)  BY DEF Range
<1>4. refs[n] \in ReferencesInFront(s, k)
  <2> HIDE DEF refs
  <2>1. n \in DOMAIN refs  BY DEF refs
  <2> QED  BY <1>2, <2>1
<1>5. refs[n].to \in Nat
  <2>1. refs[n].to \in 0 .. (s.typeIndexBegin + k - 1)  BY <1>1, <1>4, ReferenceFields
  <2> QED  BY <2>1
<1>6. refs[n].to - s.typeIndexBegin \in Nat
  <2> HIDE DEF refs
  <2>1. refs[n].to >= s.typeIndexBegin  BY DEF refs
  <2> QED  BY <1>1, <1>5, <2>1
<1> QED  BY <1>3, <1>6 DEF Targets

\* A name is handed on to what is named all the same.
LEMMA SoundGoesOn ==
  ASSUME Walking, Pending, Sound, DOMAIN names = DOMAIN stream.content,
         pending # <<>>, Head(pending).to >= GetFirstTypeIndex,
         NEW k \in DOMAIN stream.content, k = Head(pending).to - GetFirstTypeIndex,
         names' = [names EXCEPT ![k] = Marked(names[k])], stream' = stream,
         NEW pushed, pending' = pushed \o Tail(pending),
         \/ pushed = <<>>
         \/ pushed = References(stream.content[k]) /\ stream.content[k].kind \notin Definitions
  PROVE  Sound'
<1> DEFINE first == GetFirstTypeIndex
           W == ReferencesInFront(stream, record)
<1>1. /\ first \in Nat /\ first' = first /\ first = stream.typeIndexBegin
      /\ stream \in TPIStreams /\ record \in Nat /\ k \in Nat /\ k < record
      /\ pending \in Seq(W)
  BY CountIsNatural, ReferencedRecord, TPIStreamShape DEF Pending, GetFirstTypeIndex
<1>2. pushed \in Seq(W)
  <2>1. References(stream.content[k]) \in Seq(ReferencesInFront(stream, k))
    BY <1>1, ReferencesStayInFront
  <2>2. Seq(ReferencesInFront(stream, k)) \subseteq Seq(W)  BY <1>1, MoreInFront
  <2>3. <<>> \in Seq(W)  OBVIOUS
  <2>4. pushed = References(stream.content[k]) \/ pushed = <<>>  OBVIOUS
  <2> HIDE DEF W
  <2> QED  BY <2>1, <2>2, <2>3, <2>4, Zenon
<1>3. /\ DOMAIN pending' = 1 .. (Len(pushed) + Len(pending) - 1)
      /\ Len(pushed) \in Nat /\ DOMAIN pushed = 1 .. Len(pushed)
      /\ Len(pending) \in Nat /\ DOMAIN pending = 1 .. Len(pending)
      /\ pending[1] = Head(pending) /\ Len(pending) > 0
      /\ \A m \in 1 .. Len(pushed) : pending'[m] = pushed[m]
      /\ \A n \in 2 .. Len(pending) : pending'[Len(pushed) + n - 1] = pending[n]
  <2> HIDE DEF W
  <2> QED  BY <1>1, <1>2, PushedInFront
<1>4. Naming(stream, k) # {}
  <2>1. 1 \in DOMAIN pending  BY <1>3
  <2> QED  BY <1>3, <2>1 DEF Sound
<1>5. ASSUME NEW l \in DOMAIN stream.content, names'[l] # NoName
      PROVE  Naming(stream, l) # {}
  <2>1. CASE l = k  BY <1>4, <2>1
  <2>2. CASE l # k
    <3>1. names'[l] = names[l]  BY <2>2
    <3> QED  BY <1>5, <3>1 DEF Sound
  <2> QED  BY <2>1, <2>2
<1>6. ASSUME NEW m \in DOMAIN pending', pending'[m].to >= first
      PROVE  Naming(stream, pending'[m].to - first) # {}
  <2>1. CASE m <= Len(pushed)
    <3>1. m \in DOMAIN pushed /\ pending'[m] = pushed[m]  BY <1>3, <2>1
    <3>2. pushed # <<>>  BY <3>1
    <3>3. pushed = References(stream.content[k]) /\ stream.content[k].kind \notin Definitions
      BY <3>2
    <3>4. pushed[m].to - first \in Targets(stream, k)
      BY <1>1, <1>6, <3>1, <3>3, ReferencesAreTargets
    <3> QED  BY <1>1, <1>4, <3>1, <3>3, <3>4, NamingGoesOn
  <2>2. CASE ~ (m <= Len(pushed))
    <3>1. PICK n \in 2 .. Len(pending) : Len(pushed) + n - 1 = m
      <4>1. m - Len(pushed) + 1 \in 2 .. Len(pending) /\ Len(pushed) + (m - Len(pushed) + 1) - 1 = m
        BY <1>3, <2>2
      <4> QED  BY <4>1
    <3>2. pending'[m] = pending[n] /\ n \in DOMAIN pending  BY <1>3, <3>1
    <3> QED  BY <1>6, <3>2 DEF Sound
  <2> QED  BY <1>3, <2>1, <2>2
<1> QED  BY <1>1, <1>5, <1>6 DEF Sound

\* A member function hands on the name of its class.
LEMMA FunctionHandsOn ==
  ASSUME NEW s \in TPIStreams, NEW k \in DOMAIN s.content, s.content[k].kind = "LF_MFUNCTION"
  PROVE  LET l == s.content[k].classtype - s.typeIndexBegin
         IN  /\ l \in DOMAIN s.content /\ s.content[k].classtype = s.typeIndexBegin + l
             /\ s.content[l].kind \in Definitions /\ s.content[l].name # NoName
             /\ KindOf(s, s.content[k].classtype) = s.content[l].kind
             /\ Title(s, k) = s.content[l].name
<1> DEFINE class == s.content[k].classtype
           l == class - s.typeIndexBegin
<1>1. KindOf(s, class) \in Definitions \ {"LF_ENUM"}
  BY ContentAssumption DEF IsContent
<1>2. IsRecord(s, class)
  <2>1. KindOf(s, class) # "built-in"  BY <1>1 DEF Definitions
  <2> QED  BY <2>1 DEF KindOf
<1>3. /\ s.typeIndexBegin \in Nat /\ s.typeIndexEnd \in Nat
      /\ DOMAIN s.content = 0 .. (s.typeIndexEnd - s.typeIndexBegin - 1)
  BY TPIStreamShape
<1>4. l \in DOMAIN s.content /\ class = s.typeIndexBegin + l
  <2>1. class \in s.typeIndexBegin .. (s.typeIndexEnd - 1)  BY <1>2 DEF IsRecord
  <2> HIDE DEF class
  <2> QED  BY <1>3, <2>1
<1>5. RecordOf(s, class) = s.content[l]  BY DEF RecordOf
<1>6. KindOf(s, class) = s.content[l].kind  BY <1>2, <1>5 DEF KindOf
<1>7. s.content[l].kind \in Definitions  BY <1>1, <1>6
<1>8. s.content[l].name # NoName
  <2>1. s.content[l].name \notin NoIdentifiers
    BY <1>4, <1>7, ContentAssumption DEF IsContent
  <2> QED  BY <2>1 DEF NoIdentifiers
<1>9. Title(s, k) = s.content[l].name  BY <1>5 DEF Title
<1> QED  BY <1>4, <1>6, <1>7, <1>8, <1>9

\* What is handed on is the name of something.
LEMMA RootsHaveTitles ==
  ASSUME NEW s \in TPIStreams, NEW r, IsRoot(s, r)
  PROVE  Title(s, r) # NoName
<1>1. r \in DOMAIN s.content  BY DEF IsRoot
<1>2. CASE s.content[r].kind = "LF_MFUNCTION"
  BY <1>1, <1>2, FunctionHandsOn
<1>3. CASE s.content[r].kind # "LF_MFUNCTION"
  <2>1. s.content[r].kind \in Definitions  BY <1>3 DEF IsRoot
  <2>2. s.content[r].name \notin NoIdentifiers
    BY <1>1, <2>1, ContentAssumption DEF IsContent
  <2> QED  BY <1>3, <2>2 DEF Title, NoIdentifiers
<1> QED  BY <1>2, <1>3

\* No union has a member function: the code reads the name of such a union from the
\* function's own record, and would hand on whatever that has in the place.
UnionsOwnNoFunctions ==
  \A s \in TPIStreams : \A k \in DOMAIN s.content :
    s.content[k].kind = "LF_MFUNCTION" =>
      KindOf(s, s.content[k].classtype) \in {"LF_CLASS", "LF_STRUCTURE"}

\* At a record of the loop, all that is handed on has arrived.
LEMMA NothingWaiting ==
  ASSUME Handing, pending = <<>>,
         NEW p \in DOMAIN stream.content, NEW q \in Targets(stream, p)
  PROVE  Below(HandedOn(p), names[q])
<1>1. DOMAIN pending = {}  OBVIOUS
<1> QED  BY <1>1 DEF Handing, Waiting

\* What a step of the loop over the records has in common with the others.
LEMMA AtARecord ==
  ASSUME Walking, Pending, FollowedAsNamed, AtNextRecord
  PROVE  /\ stream \in TPIStreams /\ record \in DOMAIN stream.content /\ record \in Nat
         /\ DOMAIN stream.content \subseteq Nat /\ DOMAIN names = DOMAIN stream.content
         /\ pending = <<>> /\ pc = "ready" /\ record < GetTypeRecordCount
         /\ GetFirstTypeIndex = stream.typeIndexBegin /\ GetFirstTypeIndex \in Nat
         /\ Record = stream.content[record] /\ names[record] = NoName
<1>1. /\ record \in 0 .. GetTypeRecordCount /\ GetTypeRecordCount \in Nat
      /\ pending = <<>> /\ pc = "ready" /\ record < GetTypeRecordCount
      /\ stream \in TPIStreams /\ DOMAIN stream.content = 0 .. (GetTypeRecordCount - 1)
      /\ GetFirstTypeIndex = stream.typeIndexBegin /\ GetFirstTypeIndex \in Nat
  BY CountIsNatural DEF Pending, AtNextRecord
<1>2. record \in 0 .. (GetTypeRecordCount - 1)  BY <1>1
<1>3. Record = stream.content[record]  BY <1>1, <1>2, RecordAtHand
<1>4. names[record] = NoName /\ DOMAIN names = DOMAIN stream.content
  BY <1>1, <1>2 DEF FollowedAsNamed
<1> QED  BY <1>1, <1>2, <1>3, <1>4

\* A definition gets its name, and its references are gone through with it.
LEMMA DefinitionTagged ==
  ASSUME TypesAreSmall, Walking, Pending, FollowedAsNamed, Handing, Labels, Sound, TagDefinition
  PROVE  (Handing /\ Labels /\ Sound)'
<1> DEFINE first == GetFirstTypeIndex
<1>1. /\ stream \in TPIStreams /\ record \in DOMAIN stream.content /\ record \in Nat
      /\ DOMAIN stream.content \subseteq Nat /\ DOMAIN names = DOMAIN stream.content
      /\ pending = <<>> /\ first = stream.typeIndexBegin /\ first \in Nat
      /\ Record = stream.content[record] /\ names[record] = NoName
  BY AtARecord DEF TagDefinition
<1>2. /\ stream.content[record].kind \in Definitions
      /\ names' = [names EXCEPT ![record] = TypeTitle] /\ name' = TypeTitle
      /\ pending' = References(stream.content[record]) /\ record' = record + 1
      /\ stream' = stream /\ first' = first
  BY <1>1 DEF TagDefinition, tableVars, GetFirstTypeIndex
<1>3. IsRoot(stream, record)  BY <1>1, <1>2 DEF IsRoot
<1>4. TypeTitle = stream.content[record].name /\ Title(stream, record) = TypeTitle
  <2>1. stream.content[record].kind \in Definitions \ {"LF_ENUM"} =>
          stream.content[record].leaf = "below LF_NUMERIC"
    BY <1>1 DEF TypesAreSmall
  <2>2. "LF_UNION" \in Definitions \ {"LF_ENUM"}  BY DEF Definitions
  <2>3. TypeTitle = stream.content[record].name
    BY <1>1, <2>1, <2>2 DEF TypeTitle, LeafName, LeafNameUnderTwoBytes
  <2>4. stream.content[record].kind # "LF_MFUNCTION"  BY <1>2 DEF Definitions
  <2> QED  BY <2>3, <2>4 DEF Title
<1>5. \A l \in DOMAIN names : names'[l] = IF l = record THEN TypeTitle ELSE names[l]
  BY <1>2
<1>6. References(stream.content[record]) \in Seq(ReferencesInFront(stream, record))
  BY <1>1, ReferencesStayInFront
<1>7. Handing'
  <2>1. SUFFICES ASSUME NEW p \in DOMAIN stream.content, NEW q \in Targets(stream, p)
                 PROVE  Below(HandedOn(p)', names'[q]) \/ Waiting(p, q)'
    BY <1>2 DEF Handing
  <2>2. q \in DOMAIN names  BY <1>1, TargetsInFront
  <2>3. CASE p = record
    <3>1. HandedOn(p)' = name'
      <4>1. record < record + 1  BY <1>1
      <4> QED  BY <1>2, <1>4, <2>3, <4>1 DEF HandedOn
    <3>2. <<>> \in Seq(ReferencesInFront(stream, record))  OBVIOUS
    <3>3. pending' = References(stream.content[record]) \o <<>>  BY <1>2, <1>6
    <3>4. \E l \in DOMAIN pending' : IsAhead(p, q, l)'
      BY <1>1, <1>2, <2>1, <2>3, <3>2, <3>3, ReferencesAhead
    <3> QED  BY <3>1, <3>4 DEF Waiting
  <2>4. CASE p # record
    <3>1. HandedOn(p)' = HandedOn(p)
      <4>1. p \in Nat  BY <1>1, <2>1
      <4>2. p < record + 1 <=> p < record  BY <1>1, <2>4, <4>1
      <4> QED  BY <1>1, <1>2, <1>5, <2>1, <2>4, <4>2 DEF HandedOn
    <3>2. Below(HandedOn(p), names[q])  BY <1>1, <2>1, NothingWaiting
    <3>3. Below(HandedOn(p), names'[q])
      <4>1. CASE q = record
        <5>1. HandedOn(p) = NoName  BY <1>1, <3>2, <4>1, MarksGrow
        <5> QED  BY <5>1 DEF Below
      <4>2. CASE q # record  BY <1>5, <2>2, <3>2, <4>2
      <4> QED  BY <4>1, <4>2
    <3> QED  BY <3>1, <3>3
  <2> QED  BY <2>3, <2>4
<1>8. Labels'
  <2>1. SUFFICES ASSUME NEW r \in DOMAIN stream.content, IsRoot(stream, r), r < record + 1
                 PROVE  Below(Title(stream, r), names'[r])
    BY <1>2 DEF Labels
  <2>2. CASE r = record
    <3>1. names'[r] = Title(stream, r)  BY <1>1, <1>4, <1>5, <2>2
    <3> QED  BY <3>1 DEF Below
  <2>3. CASE r # record
    <3>1. r \in Nat  BY <1>1, <2>1
    <3>2. r < record  BY <1>1, <2>1, <2>3, <3>1
    <3>3. pending # <<TagOf(first + r)>>  BY <1>1
    <3>4. Below(Title(stream, r), names[r])  BY <2>1, <3>2, <3>3 DEF Labels
    <3> QED  BY <1>1, <1>5, <2>1, <2>3, <3>4
  <2> QED  BY <2>2, <2>3
<1>9. Sound'
  <2>1. ASSUME NEW l \in DOMAIN stream.content, names'[l] # NoName
        PROVE  Naming(stream, l) # {}
    <3>1. CASE l = record
      <4>1. Title(stream, record) \in Naming(stream, l)  BY <1>1, <1>3, <3>1, RootsName
      <4> QED  BY <4>1
    <3>2. CASE l # record
      <4>1. names[l] # NoName  BY <1>1, <1>5, <2>1, <3>2
      <4> QED  BY <4>1 DEF Sound
    <3> QED  BY <3>1, <3>2
  <2>2. ASSUME NEW n \in DOMAIN References(stream.content[record]),
               References(stream.content[record])[n].to >= first
        PROVE  Naming(stream, References(stream.content[record])[n].to - first) # {}
    <3>1. References(stream.content[record])[n].to - first \in Targets(stream, record)
      BY <1>1, <2>2, ReferencesAreTargets
    <3>2. Title(stream, record)
            \in Naming(stream, References(stream.content[record])[n].to - first)
      BY <1>1, <1>3, <3>1, RootsName
    <3> QED  BY <3>2
  <2> QED  BY <1>2, <2>1, <2>2 DEF Sound
<1> QED  BY <1>7, <1>8, <1>9

\* A function is referred to on behalf of its class.
LEMMA FunctionTagged ==
  ASSUME UnionsOwnNoFunctions, Walking, Pending, FollowedAsNamed, Handing, Labels, Sound,
         TagMemberFunction
  PROVE  (Handing /\ Labels /\ Sound)'
<1> DEFINE first == GetFirstTypeIndex
           function == stream.content[record]
           reference == TagOf(first + record)
<1>1. /\ stream \in TPIStreams /\ record \in DOMAIN stream.content /\ record \in Nat
      /\ DOMAIN stream.content \subseteq Nat /\ DOMAIN names = DOMAIN stream.content
      /\ pending = <<>> /\ first = stream.typeIndexBegin /\ first \in Nat /\ pc = "ready"
      /\ Record = function /\ names[record] = NoName
  BY AtARecord DEF TagMemberFunction
<1>2. /\ function.kind = "LF_MFUNCTION" /\ names' = names /\ record' = record + 1
      /\ pending' = <<reference>> /\ stream' = stream /\ first' = first
      /\ GetTypeRecord(function.classtype) /\ name' = NameOfContaining(At(answer'))
  BY <1>1 DEF TagMemberFunction, TagOf, GetFirstTypeIndex
<1>3. IsRoot(stream, record)  BY <1>1, <1>2 DEF IsRoot
<1>4. name' = Title(stream, record)
  <2> DEFINE l == function.classtype - stream.typeIndexBegin
  <2>1. /\ l \in DOMAIN stream.content /\ function.classtype = stream.typeIndexBegin + l
        /\ KindOf(stream, function.classtype) = stream.content[l].kind
        /\ Title(stream, record) = stream.content[l].name
    BY <1>1, <1>2, FunctionHandsOn
  <2>2. stream.content[l].kind \in {"LF_CLASS", "LF_STRUCTURE"}
    BY <1>1, <1>2, <2>1 DEF UnionsOwnNoFunctions
  <2>3. l \in 0 .. (GetTypeRecordCount - 1)  BY <2>1, CountIsNatural
  <2>4. answer' = Lookup(function.classtype)  BY <1>2 DEF GetTypeRecord
  <2> HIDE DEF l
  <2>5. /\ At(stream.start[l]) = stream.content[l]
        /\ Lookup(GetFirstTypeIndex + l) = stream.start[l]
    BY <1>1, <2>3, PointerLeadsToRecord
  <2>6. function.classtype = GetFirstTypeIndex + l  BY <1>1, <2>1
  <2>7. answer' = stream.start[l]  BY <2>4, <2>5, <2>6
  <2>8. At(answer') = stream.content[l]  BY <2>5, <2>7
  <2>9. name' = stream.content[l].name
    BY <1>2, <2>2, <2>8 DEF NameOfContaining, LeafName
  <2> QED  BY <2>1, <2>9
<1>5. Handing'
  <2>1. SUFFICES ASSUME NEW p \in DOMAIN stream.content, NEW q \in Targets(stream, p)
                 PROVE  Below(HandedOn(p)', names'[q])
    BY <1>2 DEF Handing
  <2>2. HandedOn(p)' = HandedOn(p)
    <3>1. CASE p = record
      <4>1. stream.content[p].kind \notin Definitions  BY <1>2, <3>1 DEF Definitions
      <4> QED  BY <1>2, <4>1 DEF HandedOn
    <3>2. CASE p # record
      <4>1. p \in Nat  BY <1>1, <2>1
      <4>2. p < record + 1 <=> p < record  BY <1>1, <3>2, <4>1
      <4> QED  BY <1>2, <4>2 DEF HandedOn
    <3> QED  BY <3>1, <3>2
  <2>3. Below(HandedOn(p), names[q])  BY <1>1, <2>1, NothingWaiting
  <2> QED  BY <1>2, <2>2, <2>3
<1>6. Labels'
  <2>1. SUFFICES ASSUME NEW r \in DOMAIN stream.content, IsRoot(stream, r), r < record + 1
                 PROVE  \/ Below(Title(stream, r), names[r])
                        \/ name' = Title(stream, r) /\ pending' = <<TagOf(first + r)>>
    BY <1>2 DEF Labels
  <2>2. CASE r = record
    BY <1>2, <1>4, <2>2
  <2>3. CASE r # record
    <3>1. r \in Nat  BY <1>1, <2>1
    <3>2. r < record  BY <1>1, <2>1, <2>3, <3>1
    <3>3. pending # <<TagOf(first + r)>>  BY <1>1
    <3> QED  BY <2>1, <3>2, <3>3 DEF Labels
  <2> QED  BY <2>2, <2>3
<1>7. Sound'
  <2>1. DOMAIN <<reference>> = {1} /\ <<reference>>[1].to = first + record
    BY DEF TagOf
  <2>2. (first + record) - first = record  BY <1>1
  <2>3. Naming(stream, record) # {}
    <3>1. Title(stream, record) \in Naming(stream, record)  BY <1>1, <1>3, RootsName
    <3> QED  BY <3>1
  <2>4. ASSUME NEW n \in DOMAIN pending' PROVE Naming(stream, pending'[n].to - first) # {}
    <3>1. pending'[n].to = first + record  BY <1>2, <2>1
    <3> QED  BY <2>2, <2>3, <3>1
  <2> QED  BY <1>2, <2>4 DEF Sound
<1> QED  BY <1>5, <1>6, <1>7

\* Any other record is passed, with nothing on its way.
LEMMA OtherRecordPassed ==
  ASSUME Walking, Pending, FollowedAsNamed, Handing, Labels, Sound, PassRecord
  PROVE  (Handing /\ Labels /\ Sound)'
<1> DEFINE first == GetFirstTypeIndex
<1>1. /\ stream \in TPIStreams /\ record \in DOMAIN stream.content /\ record \in Nat
      /\ DOMAIN stream.content \subseteq Nat /\ pending = <<>>
      /\ Record = stream.content[record]
  BY AtARecord DEF PassRecord
<1>2. /\ stream.content[record].kind \notin Definitions \cup {"LF_MFUNCTION"}
      /\ UNCHANGED <<stream, names, name, pending, first>> /\ record' = record + 1
  BY <1>1 DEF PassRecord, tableVars, GetFirstTypeIndex
<1>3. Handing'
  <2>1. SUFFICES ASSUME NEW p \in DOMAIN stream.content, NEW q \in Targets(stream, p)
                 PROVE  Below(HandedOn(p)', names'[q])
    BY <1>2 DEF Handing
  <2>2. HandedOn(p)' = HandedOn(p)
    <3>1. CASE p = record
      <4>1. stream.content[p].kind \notin Definitions  BY <1>2, <3>1
      <4> QED  BY <1>2, <4>1 DEF HandedOn
    <3>2. CASE p # record
      <4>1. p \in Nat  BY <1>1, <2>1
      <4>2. p < record + 1 <=> p < record  BY <1>1, <3>2, <4>1
      <4> QED  BY <1>2, <4>2 DEF HandedOn
    <3> QED  BY <3>1, <3>2
  <2>3. Below(HandedOn(p), names[q])  BY <1>1, <2>1, NothingWaiting
  <2> QED  BY <1>2, <2>2, <2>3
<1>4. Labels'
  <2>1. SUFFICES ASSUME NEW r \in DOMAIN stream.content, IsRoot(stream, r), r < record + 1
                 PROVE  \/ Below(Title(stream, r), names[r])
                        \/ name = Title(stream, r) /\ pending = <<TagOf(first + r)>>
    BY <1>2 DEF Labels
  <2>2. r # record  BY <1>2, <2>1 DEF IsRoot
  <2>3. r \in Nat  BY <1>1, <2>1
  <2>4. r < record  BY <1>1, <2>1, <2>2, <2>3
  <2> QED  BY <2>1, <2>4 DEF Labels
<1>5. Sound'  BY <1>2 DEF Sound
<1> QED  BY <1>3, <1>4, <1>5

\* A reference to a built-in type is none of those a name waits for.
LEMMA BuiltInPassed ==
  ASSUME Walking, Pending, Handing, Labels, Sound, PassBuiltIn
  PROVE  (Handing /\ Labels /\ Sound)'
<1> DEFINE first == GetFirstTypeIndex
           W == ReferencesInFront(stream, record)
<1>1. /\ first \in Nat /\ first = stream.typeIndexBegin /\ stream \in TPIStreams
      /\ record \in Nat /\ DOMAIN stream.content \subseteq Nat /\ pending \in Seq(W)
  BY CountIsNatural, TPIStreamShape DEF Pending
<1>2. /\ pending # <<>> /\ Head(pending).to < first /\ pending' = Tail(pending)
      /\ UNCHANGED <<stream, names, name, record, first>>
  BY DEF PassBuiltIn, tableVars, displayVars, GetFirstTypeIndex
<1>3. Head(pending).to \in Nat  BY <1>2, NextReference
<1>4. /\ pending' = <<>> \o Tail(pending) /\ <<>> \in Seq(W)
      /\ Len(pending) \in Nat /\ DOMAIN pending = 1 .. Len(pending) /\ Len(pending) > 0
      /\ pending[1] = Head(pending) /\ DOMAIN pending' = 1 .. (Len(pending) - 1)
      /\ \A n \in 1 .. (Len(pending) - 1) : pending'[n] = pending[n + 1]
  <2> HIDE DEF W
  <2> QED  BY <1>1, <1>2
<1>5. Handing'
  <2>1. SUFFICES ASSUME NEW p \in DOMAIN stream.content, NEW q \in Targets(stream, p)
                 PROVE  Below(HandedOn(p), names[q]) \/ Waiting(p, q)'
    BY <1>2 DEF Handing, HandedOn
  <2>2. p \in Nat /\ q \in Nat  BY <1>1, <2>1, TargetsInFront
  <2>3. CASE Waiting(p, q)
    <3>1. PICK n \in DOMAIN pending : IsAhead(p, q, n)  BY <2>3 DEF Waiting
    <3>2. n # 1
      <4>1. SUFFICES ASSUME n = 1 PROVE FALSE  OBVIOUS
      <4>2. Head(pending).to = first + q  BY <1>4, <3>1, <4>1 DEF IsAhead
      <4> QED  BY <1>1, <1>2, <1>3, <2>2, <4>2
    <3>3. DOMAIN <<>> = {}  OBVIOUS
    <3>4. \A m \in DOMAIN <<>> : <<>>[m].to < Head(pending).to  BY <3>3
    <3>5. \E l \in DOMAIN pending' : IsAhead(p, q, l)'
      BY <1>2, <1>4, <2>2, <3>1, <3>2, <3>4, StillAhead
    <3>6. HandedOn(p)' = HandedOn(p)  BY <1>2 DEF HandedOn
    <3>7. HandedOn(p) = name \/ names[q] # NoName  BY <2>3 DEF Waiting
    <3> QED  BY <1>2, <3>5, <3>6, <3>7 DEF Waiting
  <2> QED  BY <2>1, <2>3 DEF Handing
<1>6. Labels'
  <2>1. SUFFICES ASSUME NEW r \in DOMAIN stream.content, IsRoot(stream, r), r < record
                 PROVE  Below(Title(stream, r), names[r])
    BY <1>2 DEF Labels
  <2>2. pending # <<TagOf(first + r)>>
    <3>1. SUFFICES ASSUME pending = <<TagOf(first + r)>> PROVE FALSE  OBVIOUS
    <3>2. Head(pending).to = first + r  BY <3>1 DEF TagOf
    <3>3. r \in Nat  BY <1>1, <2>1
    <3> QED  BY <1>1, <1>2, <3>2, <3>3
  <2> QED  BY <2>1, <2>2 DEF Labels
<1>7. Sound'
  <2>1. ASSUME NEW n \in DOMAIN pending', pending'[n].to >= first
        PROVE  Naming(stream, pending'[n].to - first) # {}
    <3>1. n + 1 \in DOMAIN pending /\ pending'[n] = pending[n + 1]  BY <1>4, <2>1
    <3> QED  BY <2>1, <3>1 DEF Sound
  <2> QED  BY <1>2, <2>1 DEF Sound
<1> QED  BY <1>5, <1>6, <1>7

\* A step of the search behind a definition or a function.
LEMMA ReferenceTagged ==
  ASSUME Walking, Pending, FollowedAsNamed, Handing, Labels, Sound, Tag \/ TagThrough
  PROVE  (Handing /\ Labels /\ Sound)'
<1> DEFINE k == Head(pending).to - GetFirstTypeIndex
           refs == References(stream.content[k])
<1>1. /\ pending # <<>> /\ Head(pending).to >= GetFirstTypeIndex /\ k \in DOMAIN stream.content
      /\ names' = [names EXCEPT ![k] = Marked(names[k])]
      /\ UNCHANGED <<stream, record, name>>
      /\ \/ /\ pending' = refs \o Tail(pending)
            /\ stream.content[k].kind \notin Definitions
         \/ /\ pending' = <<>> \o Tail(pending)
            /\ \/ names'[k] = names[k]
               \/ stream.content[k].kind \in Definitions
               \/ refs = <<>>
  BY TagSteps
<1>2. /\ DOMAIN names = DOMAIN stream.content /\ GetFirstTypeIndex \in Nat
      /\ DOMAIN stream.content \subseteq Nat
  BY CountIsNatural, TPIStreamShape DEF FollowedAsNamed
<1> HIDE DEF k, refs
<1>3. Labels'  BY <1>1, <1>2, LabelsGoOn DEF k
<1>4. CASE pending' = refs \o Tail(pending) /\ stream.content[k].kind \notin Definitions
  <2>1. Handing'  BY <1>1, <1>2, <1>4, HandingGoesOn DEF k, refs
  <2>2. Sound'  BY <1>1, <1>2, <1>4, SoundGoesOn DEF k, refs
  <2> QED  BY <1>3, <2>1, <2>2
<1>5. CASE /\ pending' = <<>> \o Tail(pending)
           /\ names'[k] = names[k] \/ stream.content[k].kind \in Definitions \/ refs = <<>>
  <2>1. Handing'  BY <1>1, <1>2, <1>5, HandingGoesOn DEF k, refs
  <2>2. Sound'  BY <1>1, <1>2, <1>5, SoundGoesOn DEF k, refs
  <2> QED  BY <1>3, <2>1, <2>2
<1> QED  BY <1>1, <1>4, <1>5

LEMMA TaggingInit == MainInit => Tagging
<1> SUFFICES ASSUME MainInit PROVE Tagging  OBVIOUS
<1>1. /\ record = 0 /\ pending = <<>> /\ pc = "walk" /\ stream \in TPIStreams
      /\ names = [k \in 0 .. (GetTypeRecordCount - 1) |-> NoName]
  BY FilesAssumption DEF MainInit, Init, DisplayInit, TableInit
<1>2. /\ Walking /\ DOMAIN stream.content = 0 .. (GetTypeRecordCount - 1)
      /\ DOMAIN stream.content \subseteq Nat
  BY <1>1, WalkingInit, CountIsNatural, TPIStreamShape
<1>3. \A l \in DOMAIN stream.content : names[l] = NoName  BY <1>1, <1>2
<1>4. Handing
  <2>1. SUFFICES ASSUME NEW p \in DOMAIN stream.content PROVE HandedOn(p) = NoName
    BY DEF Handing, Below
  <2>2. ~ (p < record)  BY <1>1, <1>2
  <2> QED  BY <1>3, <2>2 DEF HandedOn
<1>5. Labels
  <2>1. \A r \in DOMAIN stream.content : ~ (r < record)  BY <1>1, <1>2
  <2> QED  BY <2>1 DEF Labels
<1>6. Sound
  <2>1. DOMAIN pending = {}  BY <1>1
  <2> QED  BY <1>3, <2>1 DEF Sound
<1> QED  BY <1>1, <1>4, <1>5, <1>6 DEF Tagging, Done

LEMMA TaggingStep ==
  ASSUME TypesAreSmall, UnionsOwnNoFunctions,
         Walking, Pending, FollowedAsNamed, Tagging, [MainNext]_<<vars, ipiVars>>
  PROVE  Tagging'
<1> USE DEF tableVars, displayVars, vars, typeVars, sizeVars
<1>1. example = "ExampleTPISize" => Handing /\ Labels /\ Sound /\ Done  BY DEF Tagging
<1>2. ASSUME UNCHANGED <<stream, names, name, record, pending, example>>,
             Done => Done'
      PROVE  Tagging'
  <2>1. GetFirstTypeIndex' = GetFirstTypeIndex  BY <1>2 DEF GetFirstTypeIndex
  <2>2. Handing => Handing'
    BY <1>2, <2>1 DEF Handing, HandedOn, Waiting, IsAhead
  <2>3. Labels => Labels'  BY <1>2, <2>1 DEF Labels
  <2>4. Sound => Sound'  BY <1>2, <2>1 DEF Sound
  <2> QED  BY <1>1, <1>2, <2>2, <2>3, <2>4 DEF Tagging
<1>3. CASE CreateIPIStream \/ IPIExample \/ UNCHANGED <<vars, ipiVars>>
  <2>1. UNCHANGED <<stream, names, name, record, pending, example, pc>>
    BY <1>3 DEF CreateIPIStream, IPIExample
  <2>2. Done => Done'
    BY <2>1 DEF Done, GetTypeRecordCount, GetFirstTypeIndex, GetLastTypeIndex
  <2> QED  BY <1>2, <2>1, <2>2
<1>4. CASE Construct
  <2>1. UNCHANGED <<stream, names, name, record, pending, example>> /\ pc' # "printed"
    BY <1>4 DEF Construct, ConstructorStep, Callback, FinishConstruction
  <2> QED  BY <1>2, <2>1 DEF Done
<1>5. CASE Display
  <2>1. example' = "ExampleTypes"  BY <1>5 DEF Display
  <2> QED  BY <2>1 DEF Tagging
<1>6. CASE TagDefinition \/ TagMemberFunction \/ PassRecord
  <2>1. example = "ExampleTPISize" /\ pc = "ready" /\ UNCHANGED <<example, pc>>
    BY <1>6 DEF TagDefinition, TagMemberFunction, PassRecord, AtNextRecord
  <2>2. Handing /\ Labels /\ Sound  BY <1>1, <2>1
  <2>3. (Handing /\ Labels /\ Sound)'
    BY <1>6, <2>2, DefinitionTagged, FunctionTagged, OtherRecordPassed
  <2> QED  BY <2>1, <2>3 DEF Tagging, Done
<1>7. CASE PassBuiltIn \/ Tag \/ TagThrough
  <2>1. pending # <<>> /\ UNCHANGED <<example, pc>>
    BY <1>7 DEF PassBuiltIn, Tag, TagThrough
  <2>2. Done => pc' # "printed"  BY <2>1 DEF Done
  <2>3. Handing /\ Labels /\ Sound => (Handing /\ Labels /\ Sound)'
    BY <1>7, BuiltInPassed, ReferenceTagged
  <2> QED  BY <1>1, <2>1, <2>2, <2>3 DEF Tagging, Done
<1>8. CASE PrintRecords
  <2>1. /\ UNCHANGED <<stream, names, name, record, pending, example>>
        /\ pending = <<>> /\ record = GetTypeRecordCount
    BY <1>8 DEF PrintRecords
  <2>2. Done'
    BY <2>1 DEF Done, GetTypeRecordCount, GetFirstTypeIndex, GetLastTypeIndex
  <2> QED  BY <1>2, <2>1, <2>2
<1> QED
  BY <1>3, <1>4, <1>5, <1>6, <1>7, <1>8 DEF MainNext, TypesExample, Next

\* Behind the loops, a name given to a record has got to everything the record reaches.
LEMMA NamesGoDown ==
  ASSUME stream \in TPIStreams, Handing, pending = <<>>,
         NEW a, NEW t \in DOMAIN stream.content, Below(a, names[t])
  PROVE  \A l \in Reach(stream)[t] : Below(a, names[l])
<1> DEFINE T == {m \in DOMAIN stream.content :
                   Below(a, names[m]) /\ \E l \in Reach(stream)[m] : ~ Below(a, names[l])}
<1>1. ASSUME T # {} PROVE FALSE
  <2>1. T \in SUBSET Nat  BY TPIStreamShape
  <2>2. PICK m \in T : \A n \in T : m <= n
    <3> HIDE DEF T
    <3> QED  BY <1>1, <2>1, LeastNatural
  <2>3. m \in DOMAIN stream.content /\ Below(a, names[m])  BY <2>2
  <2>4. PICK l \in Reach(stream)[m] : ~ Below(a, names[l])  BY <2>2
  <2>5. Reach(stream)[m] = {m} \cup (IF stream.content[m].kind \in Definitions THEN {}
                                     ELSE UNION {Reach(stream)[u] : u \in Targets(stream, m)})
    BY <2>3, ReachIsFound
  <2>6. l # m  BY <2>3, <2>4
  <2>7. stream.content[m].kind \notin Definitions  BY <2>4, <2>5, <2>6
  <2>8. PICK u \in Targets(stream, m) : l \in Reach(stream)[u]  BY <2>4, <2>5, <2>6
  <2>9. u \in DOMAIN stream.content /\ u \in 0 .. (m - 1)  BY <2>3, TargetsInFront
  <2>10. Below(a, names[u])
    <3>1. Below(HandedOn(m), names[u])  BY <2>3, NothingWaiting
    <3>2. HandedOn(m) = names[m]  BY <2>7 DEF HandedOn
    <3> QED  BY <2>3, <3>1, <3>2, MarksGrow
  <2>11. u \in T  BY <2>4, <2>8, <2>9, <2>10
  <2>12. m \in Nat /\ u \in Nat /\ ~ (m <= u)  BY <2>1, <2>9
  <2> HIDE DEF T
  <2> QED  BY <2>2, <2>11, <2>12
<1> QED  BY <1>1

\* Behind the loops, every record has all the names that refer to it.
LEMMA NamesHaveArrived ==
  ASSUME Walking, Handing, Labels, pending = <<>>, record = GetTypeRecordCount,
         NEW k \in DOMAIN stream.content, NEW title \in Naming(stream, k)
  PROVE  title # NoName /\ Below(title, names[k])
<1>1. PICK r \in DOMAIN stream.content :
        /\ stream.content[r].kind \in Definitions \cup {"LF_MFUNCTION"}
        /\ k \in {r} \cup Belongings(stream)[r] /\ title = Title(stream, r)
  BY DEF Naming
<1>2. IsRoot(stream, r)  BY <1>1 DEF IsRoot
<1>3. /\ stream \in TPIStreams /\ r \in Nat /\ r < record
  BY CountIsNatural
<1>4. title # NoName  BY <1>1, <1>2, <1>3, RootsHaveTitles
<1>5. Below(title, names[r])
  <2>1. pending # <<TagOf(GetFirstTypeIndex + r)>>  OBVIOUS
  <2> QED  BY <1>1, <1>2, <1>3, <2>1 DEF Labels
<1>6. CASE k = r  BY <1>4, <1>5, <1>6
<1>7. CASE k \in Belongings(stream)[r]
  <2>1. Belongings(stream)[r] = UNION {Reach(stream)[t] : t \in Targets(stream, r)}
    BY <1>3, ReachIsFound
  <2>2. PICK t \in Targets(stream, r) : k \in Reach(stream)[t]  BY <1>7, <2>1
  <2>3. t \in DOMAIN stream.content  BY <1>3, TargetsInFront
  <2>4. Below(HandedOn(r), names[t])  BY NothingWaiting
  <2>5. Below(title, names[t])
    <3>1. CASE stream.content[r].kind \in Definitions
      <4>1. HandedOn(r) = stream.content[r].name  BY <1>3, <3>1 DEF HandedOn
      <4>2. stream.content[r].kind # "LF_MFUNCTION"  BY <3>1 DEF Definitions
      <4>3. title = stream.content[r].name  BY <1>1, <4>2 DEF Title
      <4> QED  BY <2>4, <4>1, <4>3
    <3>2. CASE stream.content[r].kind \notin Definitions
      <4>1. HandedOn(r) = names[r]  BY <3>2 DEF HandedOn
      <4> QED  BY <1>5, <2>4, <4>1, MarksGrow
    <3> QED  BY <3>1, <3>2
  <2>6. Below(title, names[k])  BY <1>3, <2>2, <2>3, <2>5, NamesGoDown
  <2> QED  BY <1>4, <2>6
<1> QED  BY <1>1, <1>4, <1>6, <1>7

\* No record is put down to one type when another refers to it too, and what belongs
\* to a definition is not lost, in every stream without types of 32 KiB and more or
\* unions with member functions.
THEOREM NamesAlwaysOfReferences ==
  ASSUME TypesAreSmall, UnionsOwnNoFunctions
  PROVE  MainSpec => []NamesOfReferences
<1>1. Walking /\ FollowedAsNamed /\ Tagging => NamesOfReferences
  <2>1. SUFFICES ASSUME Walking, FollowedAsNamed, Tagging, Tagged, NEW k \in DOMAIN names
                 PROVE  /\ names[k] = NoName <=> Naming(stream, k) = {}
                        /\ names[k] \notin {NoName, MultipleReferences} =>
                             Naming(stream, k) = {names[k]}
    BY DEF NamesOfReferences
  <2>2. Handing /\ Labels /\ Sound /\ pending = <<>> /\ record = GetTypeRecordCount
    BY <2>1 DEF Tagging, Tagged, Done
  <2>3. k \in DOMAIN stream.content  BY <2>1, CountIsNatural DEF FollowedAsNamed
  <2>4. \A a \in Naming(stream, k) : a # NoName /\ Below(a, names[k])
    BY <2>1, <2>2, <2>3, NamesHaveArrived
  <2>5. names[k] # NoName => Naming(stream, k) # {}  BY <2>2, <2>3 DEF Sound
  <2>6. names[k] = NoName => Naming(stream, k) = {}  BY <2>4, MarksGrow
  <2>7. names[k] \notin {NoName, MultipleReferences} => Naming(stream, k) \subseteq {names[k]}
    BY <2>4 DEF Below
  <2> QED  BY <2>5, <2>6, <2>7
<1> QED
  BY <1>1, TaggingInit, TaggingStep, TableIsInStep, ReferencesLeadToRecords, FollowedInit,
     FollowedStep, PTL DEF MainSpec

-----------------------------------------------------------------------------
(* The records of the IPI stream.                                          *)

LEMMA IPIStreamShape ==
  ASSUME NEW s \in IPIStreams
  PROVE  LET count == s.typeIndexEnd - s.typeIndexBegin
         IN  /\ s.typeIndexBegin \in Nat \ {0} /\ s.typeIndexEnd \in Nat /\ count \in Nat
             /\ s.start \in [0 .. count -> Nat]
             /\ s.start[0] = IPI!SizeOfStreamHeader /\ s.size = s.start[count]
  BY FilesAssumption DEF IPI!IsIPIStream

LEMMA IPIRecordInStream ==
  ASSUME NEW s \in IPIStreams, NEW k \in 0 .. (s.typeIndexEnd - s.typeIndexBegin - 1)
  PROVE  /\ s.start[k + 1] = s.start[k] + IPI!SizeOfRecordHeader
                               + (s.recordSize[s.start[k]] - IPI!SizeOfKind)
         /\ s.start[k] < s.start[k + 1] /\ s.start[k + 1] <= s.size
<1>1. /\ s.recordSize[s.start[k]] \in Nat \ (0 .. (IPI!SizeOfKind - 1))
      /\ s.start[k + 1] = s.start[k] + (IPI!SizeOfRecordHeader - IPI!SizeOfKind)
                            + s.recordSize[s.start[k]]
      /\ s.start[k + 1] <= s.size
  BY FilesAssumption DEF IPI!IsIPIStream
<1>2. s.start[k] \in Nat  BY IPIStreamShape
<1> QED  BY <1>1, <1>2 DEF IPI!SizeOfRecordHeader, IPI!SizeOfKind

IPIPhases == {"walk", "ready", "collect", "print", "done"}

\* The constructor is at the start of record number ipiTypeIndex.
IPIWalking ==
  /\ ipiStream \in IPIStreams
  /\ ipiPc \in IPIPhases
  /\ ipiTypeIndex \in Nat
  /\ IPI!RecordsAreIndexed

LEMMA IPICountIsNatural ==
  ASSUME IPIWalking
  PROVE  /\ IPI!RecordCount = ipiStream.typeIndexEnd - ipiStream.typeIndexBegin
         /\ IPI!RecordCount \in Nat
         /\ IPI!GetFirstTypeIndex = ipiStream.typeIndexBegin /\ IPI!GetFirstTypeIndex \in Nat \ {0}
  BY IPIStreamShape DEF IPIWalking, IPI!RecordCount, IPI!GetFirstTypeIndex, IPI!GetLastTypeIndex

LEMMA IPIWalkingInit == MainInit => IPIWalking
<1> SUFFICES ASSUME MainInit PROVE IPIWalking  OBVIOUS
<1>1. /\ ipiStream \in IPIStreams
      /\ ipiPc = "walk" /\ ipiOffset = IPI!SizeOfStreamHeader /\ ipiTypeIndex = 0
      /\ ipiRecords = [k \in 0 .. (IPI!RecordCount - 1) |-> IPI!Unwritten]
  BY FilesAssumption DEF MainInit, IPI!Init, IPI!StreamInit
<1>2. IPI!RecordCount \in Nat /\ ipiStream.start[0] = IPI!SizeOfStreamHeader
  BY <1>1, IPIStreamShape DEF IPI!RecordCount, IPI!GetFirstTypeIndex, IPI!GetLastTypeIndex
<1>3. \A k \in 0 .. (IPI!RecordCount - 1) : ~ (k < 0)  BY <1>2
<1> QED  BY <1>1, <1>2, <1>3 DEF IPIWalking, IPIPhases, IPI!RecordsAreIndexed

\* Which steps touch what of the IPIStream.
LEMMA IPISteps ==
  ASSUME [MainNext]_<<vars, ipiVars>>
  PROVE  \/ IPI!AddRecord
         \/ IPI!FinishConstruction
         \/ /\ UNCHANGED <<ipiStream, ipiOffset, ipiTypeIndex, ipiRecords>>
            /\ ipiPc' = ipiPc \/ (ipiPc # "walk" /\ ipiPc' \in IPIPhases \ {"walk"})
<1> USE DEF ipiVars, IPIPhases
<1>1. CASE CreateIPIStream
  BY <1>1 DEF CreateIPIStream, IPI!Construct, IPI!ConstructorStep
<1>2. CASE TypesExample \/ UNCHANGED <<vars, ipiVars>>  BY <1>2 DEF TypesExample
<1>3. CASE IPIExample
  BY <1>3 DEF IPIExample, IPI!StartCollecting, IPI!Collect, IPI!StartPrinting, IPI!PrintRecord,
              IPI!Finish, IPI!streamVars
<1> QED  BY <1>1, <1>2, <1>3 DEF MainNext

LEMMA AddRecordStaysInStep ==
  ASSUME IPIWalking, IPI!AddRecord
  PROVE  IPIWalking' /\ ipiPc = "walk" /\ ipiPc' = ipiPc /\ ipiStream' = ipiStream
<1> DEFINE count == ipiStream.typeIndexEnd - ipiStream.typeIndexBegin
<1> USE DEF IPI!RecordCount, IPI!GetFirstTypeIndex, IPI!GetLastTypeIndex
<1>1. /\ ipiStream \in IPIStreams /\ ipiPc = "walk" /\ ipiOffset < ipiStream.size
      /\ ipiOffset = ipiStream.start[ipiTypeIndex] /\ ipiTypeIndex \in Nat
      /\ ipiTypeIndex <= count
      /\ UNCHANGED <<ipiStream, ipiPc>> /\ ipiTypeIndex' = ipiTypeIndex + 1
      /\ ipiOffset' = ipiOffset + IPI!SizeOfRecordHeader
                        + (ipiStream.recordSize[ipiOffset] - IPI!SizeOfKind)
  BY DEF IPIWalking, IPI!RecordsAreIndexed, IPI!AddRecord, IPI!GetCodeViewRecordSize
<1>2. count \in Nat /\ ipiStream.start \in [0 .. count -> Nat]
        /\ ipiStream.size = ipiStream.start[count]
  BY <1>1, IPIStreamShape
<1>3. ipiTypeIndex \in 0 .. (count - 1)  BY <1>1, <1>2
<1>4. ipiOffset' = ipiStream.start[ipiTypeIndex + 1]
  BY <1>1, <1>3, IPIRecordInStream
<1>5. ipiRecords' = [k \in 0 .. (count - 1) |->
                       IF k < ipiTypeIndex + 1 THEN ipiStream.start[k] ELSE IPI!Unwritten]
  <2>1. ipiRecords = [k \in 0 .. (count - 1) |->
                        IF k < ipiTypeIndex THEN ipiStream.start[k] ELSE IPI!Unwritten]
    BY DEF IPIWalking, IPI!RecordsAreIndexed
  <2>2. ipiRecords' = [k \in DOMAIN ipiRecords \cup {ipiTypeIndex} |->
                         IF k = ipiTypeIndex THEN ipiOffset ELSE ipiRecords[k]]
    BY DEF IPI!AddRecord
  <2>3. DOMAIN ipiRecords \cup {ipiTypeIndex} = 0 .. (count - 1)  BY <1>3, <2>1
  <2>4. \A k \in 0 .. (count - 1) :
          (IF k = ipiTypeIndex THEN ipiOffset ELSE ipiRecords[k])
            = IF k < ipiTypeIndex + 1 THEN ipiStream.start[k] ELSE IPI!Unwritten
    BY <1>1, <1>3, <2>1
  <2> QED  BY <2>2, <2>3, <2>4
<1>6. ipiTypeIndex + 1 <= count /\ ipiTypeIndex + 1 \in Nat  BY <1>2, <1>3
<1> QED
  BY <1>1, <1>4, <1>5, <1>6 DEF IPIWalking, IPIPhases, IPI!RecordsAreIndexed, IPI!Unwritten

LEMMA IPIConstructionIsComplete ==
  ASSUME IPIWalking, IPI!FinishConstruction
  PROVE  IPIWalking' /\ ipiPc' = "ready" /\ ipiStream' = ipiStream
<1> DEFINE count == ipiStream.typeIndexEnd - ipiStream.typeIndexBegin
<1> USE DEF IPI!RecordCount, IPI!GetFirstTypeIndex, IPI!GetLastTypeIndex
<1>1. /\ ipiStream \in IPIStreams /\ ipiOffset >= ipiStream.size
      /\ ipiOffset = ipiStream.start[ipiTypeIndex] /\ ipiTypeIndex \in Nat
      /\ ipiTypeIndex <= count
  BY DEF IPIWalking, IPI!RecordsAreIndexed, IPI!FinishConstruction
<1>2. count \in Nat /\ ipiStream.start \in [0 .. count -> Nat]
        /\ ipiStream.size = ipiStream.start[count]
  BY <1>1, IPIStreamShape
<1>3. ASSUME ipiTypeIndex # count PROVE FALSE
  <2>1. ipiTypeIndex \in 0 .. (count - 1) /\ count \in Nat  BY <1>1, <1>2, <1>3
  <2>2. ipiStream.start[ipiTypeIndex] < ipiStream.start[ipiTypeIndex + 1]
          /\ ipiStream.start[ipiTypeIndex + 1] <= ipiStream.size
    BY <1>1, <2>1, IPIRecordInStream
  <2>3. /\ ipiStream.start[ipiTypeIndex] \in Nat /\ ipiStream.start[ipiTypeIndex + 1] \in Nat
        /\ ipiStream.size \in Nat
    BY <1>2, <2>1
  <2> QED  BY <1>1, <2>2, <2>3
<1> QED
  BY <1>3 DEF IPIWalking, IPIPhases, IPI!RecordsAreIndexed, IPI!FinishConstruction, IPI!Unwritten

LEMMA IPIWalkingStep ==
  ASSUME IPIWalking, [MainNext]_<<vars, ipiVars>>
  PROVE  IPIWalking' /\ ipiStream' = ipiStream
<1>1. CASE /\ UNCHANGED <<ipiStream, ipiOffset, ipiTypeIndex, ipiRecords>>
           /\ ipiPc' = ipiPc \/ (ipiPc # "walk" /\ ipiPc' \in IPIPhases \ {"walk"})
  BY <1>1 DEF IPIWalking, IPI!RecordsAreIndexed, IPI!RecordCount, IPI!GetFirstTypeIndex,
              IPI!GetLastTypeIndex, IPI!Unwritten
<1> QED  BY <1>1, IPISteps, AddRecordStaysInStep, IPIConstructionIsComplete

LEMMA IPIIsInStep == MainSpec => []IPIWalking
  BY IPIWalkingInit, IPIWalkingStep, PTL DEF MainSpec

\* The constructor of IPIStream stores as many records as the header counts, each at
\* the place its type index gives, for streams of any length.
THEOREM RecordsAreAlwaysIndexed == MainSpec => []RecordsAreIndexed
<1>1. IPIWalking => RecordsAreIndexed  BY DEF IPIWalking, RecordsAreIndexed
<1> QED  BY <1>1, IPIIsInStep, PTL

-----------------------------------------------------------------------------
(* What ExampleIPI prints.                                                 *)

\* The records in front of record n whose empty lists end the iteration early.
Skipped(n) == {k \in 0 .. (n - 1) : IPI!EndsEarly(ipiStream.start[k])}

\* What is printed for record k.
LineOf(k) ==
  [record |-> ipiStream.start[k],
   id |-> IPI!GetFirstTypeIndex + k - Cardinality(Skipped(k)),
   strings |-> IPI!StringsOf(ipiStream.start[k]),
   types |-> IPI!TypesOf(ipiStream.start[k])]

\* The strings among the first n records, each at its own index.
StringsAmong(n) ==
  [k \in 0 .. (IPI!RecordCount - 1) |->
     IF k < n /\ ipiStream.kind[ipiStream.start[k]] = "LF_STRING_ID" THEN ipiStream.start[k]
     ELSE IPI!nullptr]

Printing ==
  /\ ipiPc \in {"collect", "print", "done"} => index \in 0 .. IPI!RecordCount
  /\ ipiPc = "collect" => strings = StringsAmong(index)
  /\ ipiPc \in {"print", "done"} =>
       /\ strings = StringsAmong(IPI!RecordCount)
       /\ identifier = IPI!GetFirstTypeIndex + index - Cardinality(Skipped(index))
  /\ ipiLine = IF ipiPc \in {"print", "done"} /\ index > 0 THEN LineOf(index - 1)
               ELSE IPI!NothingPrinted

LEMMA SkippedIsFinite ==
  ASSUME NEW n \in Nat
  PROVE  IsFiniteSet(Skipped(n)) /\ Cardinality(Skipped(n)) \in Nat
<1>1. IsFiniteSet(0 .. (n - 1))  BY FS_Interval
<1>2. IsFiniteSet(Skipped(n))  BY <1>1, FS_Subset DEF Skipped
<1> QED  BY <1>2, FS_CardinalityType

\* One more record, one more skipped if its list is empty.
LEMMA SkippedWithNext ==
  ASSUME NEW n \in Nat
  PROVE  Cardinality(Skipped(n + 1))
           = Cardinality(Skipped(n)) + (IF IPI!EndsEarly(ipiStream.start[n]) THEN 1 ELSE 0)
<1>1. IsFiniteSet(Skipped(n)) /\ Cardinality(Skipped(n)) \in Nat  BY SkippedIsFinite
<1>2. 0 .. (n + 1 - 1) = (0 .. (n - 1)) \cup {n} /\ n \notin 0 .. (n - 1)  OBVIOUS
<1>3. CASE IPI!EndsEarly(ipiStream.start[n])
  <2>1. Skipped(n + 1) = Skipped(n) \cup {n} /\ n \notin Skipped(n)
    BY <1>2, <1>3 DEF Skipped
  <2>2. Cardinality(Skipped(n) \cup {n}) = Cardinality(Skipped(n)) + 1
    BY <1>1, <2>1, FS_AddElement
  <2> QED  BY <1>3, <2>1, <2>2
<1>4. CASE ~ IPI!EndsEarly(ipiStream.start[n])
  <2>1. Skipped(n + 1) = Skipped(n)  BY <1>2, <1>4 DEF Skipped
  <2> QED  BY <1>1, <1>4, <2>1
<1> QED  BY <1>3, <1>4

\* Both passes go through the records in the order of the stream.
LEMMA RecordPrinted ==
  ASSUME IPIWalking, ipiPc # "walk", index \in 0 .. (IPI!RecordCount - 1)
  PROVE  IPI!Record = ipiStream.start[index]
<1>1. /\ ipiTypeIndex = IPI!RecordCount
      /\ ipiRecords = [k \in 0 .. (IPI!RecordCount - 1) |->
                         IF k < ipiTypeIndex THEN ipiStream.start[k] ELSE IPI!Unwritten]
  BY DEF IPIWalking, IPI!RecordsAreIndexed
<1> QED  BY <1>1, IPICountIsNatural DEF IPI!Record

LEMMA PrintingInit == MainInit => Printing
  BY DEF MainInit, IPI!Init, IPI!StreamInit, Printing

\* What is not written stays.
LEMMA SameRecords ==
  ASSUME UNCHANGED <<ipiStream, stream>>
  PROVE  /\ IPI!RecordCount' = IPI!RecordCount
         /\ IPI!GetFirstTypeIndex' = IPI!GetFirstTypeIndex
         /\ \A n : Skipped(n)' = Skipped(n)
         /\ \A n : StringsAmong(n)' = StringsAmong(n)
         /\ strings' = strings => \A k : LineOf(k)' = LineOf(k)
<1> USE DEF IPI!RecordCount, IPI!GetFirstTypeIndex, IPI!GetLastTypeIndex, IPI!nullptr
<1>1. ASSUME NEW n PROVE Skipped(n)' = Skipped(n)
  BY DEF Skipped, IPI!EndsEarly
<1>2. ASSUME NEW n PROVE StringsAmong(n)' = StringsAmong(n)
  BY DEF StringsAmong
<1>3. ASSUME strings' = strings, NEW k PROVE LineOf(k)' = LineOf(k)
  <2>1. ASSUME NEW r PROVE IPI!StringsOf(r)' = IPI!StringsOf(r)
    BY <1>3 DEF IPI!StringsOf, IPI!StringOf, IPI!NoString
  <2>2. ASSUME NEW r PROVE IPI!TypesOf(r)' = IPI!TypesOf(r)
    BY DEF IPI!TypesOf, IPI!GetTypeNameIPI
  <2>3. Skipped(k)' = Skipped(k)  BY <1>1
  <2> QED  BY <2>1, <2>2, <2>3 DEF LineOf
<1> QED  BY <1>1, <1>2, <1>3

LEMMA PrintingStep ==
  ASSUME IPIWalking, Walking, Printing, [MainNext]_<<vars, ipiVars>>
  PROVE  Printing'
<1> USE DEF ipiVars, IPIPhases
<1>1. UNCHANGED <<ipiStream, stream>>
  BY IPIWalkingStep, TableSteps DEF Callback, FinishConstruction
<1>2. /\ IPI!RecordCount \in Nat /\ IPI!GetFirstTypeIndex \in Nat
      /\ IPI!RecordCount' = IPI!RecordCount /\ IPI!GetFirstTypeIndex' = IPI!GetFirstTypeIndex
  BY <1>1, IPICountIsNatural, SameRecords
<1>10. \A n : StringsAmong(n)' = StringsAmong(n)  BY <1>1, SameRecords
<1>11. \A n : Skipped(n)' = Skipped(n)  BY <1>1, SameRecords
<1>3. CASE UNCHANGED <<ipiPc, index, strings, identifier, ipiLine>>
  BY <1>1, <1>2, <1>3, SameRecords DEF Printing, IPI!NothingPrinted, IPI!nullptr
<1>4. CASE CreateIPIStream
  <2>1. UNCHANGED <<index, strings, identifier, ipiLine>> /\ ipiPc = "walk"
          /\ ipiPc' \in {"walk", "ready"}
    BY <1>4 DEF CreateIPIStream, IPI!Construct, IPI!ConstructorStep, IPI!AddRecord,
                IPI!FinishConstruction
  <2> QED  BY <2>1 DEF Printing, IPI!NothingPrinted, IPI!nullptr
<1>5. CASE IPI!StartCollecting
  <2>1. /\ ipiPc = "ready" /\ ipiPc' = "collect" /\ index' = 0 /\ UNCHANGED <<identifier, ipiLine>>
        /\ strings' = [k \in 0 .. (IPI!RecordCount - 1) |-> IPI!nullptr]
    BY <1>5 DEF IPI!StartCollecting
  <2>2. StringsAmong(0) = [k \in 0 .. (IPI!RecordCount - 1) |-> IPI!nullptr]
    <3>1. \A k \in 0 .. (IPI!RecordCount - 1) : ~ (k < 0)  BY <1>2
    <3> QED  BY <3>1 DEF StringsAmong
  <2>3. (strings = StringsAmong(index))'  BY <1>10, <2>1, <2>2
  <2>4. index' \in 0 .. IPI!RecordCount /\ ~ (index' > 0)  BY <1>2, <2>1
  <2> QED
    BY <1>2, <2>1, <2>3, <2>4 DEF Printing, IPI!NothingPrinted, IPI!nullptr
<1>6. CASE IPI!Collect
  <2>1. /\ ipiPc = "collect" /\ index < IPI!RecordCount /\ index' = index + 1
        /\ UNCHANGED <<ipiPc, identifier, ipiLine>>
        /\ strings' = IF ipiStream.kind[IPI!Record] = "LF_STRING_ID"
                        THEN [strings EXCEPT ![index] = IPI!Record] ELSE strings
    BY <1>6 DEF IPI!Collect, IPI!streamVars
  <2>2. index \in 0 .. (IPI!RecordCount - 1) /\ index + 1 \in 0 .. IPI!RecordCount
    BY <1>2, <2>1 DEF Printing
  <2>3. IPI!Record = ipiStream.start[index]  BY <2>1, <2>2, RecordPrinted
  <2>4. strings = StringsAmong(index)  BY <2>1 DEF Printing
  <2>5. strings' = StringsAmong(index + 1)
    <3>1. strings = [k \in 0 .. (IPI!RecordCount - 1) |->
                       IF k < index /\ ipiStream.kind[ipiStream.start[k]] = "LF_STRING_ID"
                         THEN ipiStream.start[k] ELSE IPI!nullptr]
      BY <2>4 DEF StringsAmong
    <3>2. strings' = [k \in 0 .. (IPI!RecordCount - 1) |->
                       IF k = index /\ ipiStream.kind[ipiStream.start[index]] = "LF_STRING_ID"
                         THEN ipiStream.start[index] ELSE strings[k]]
      <4>1. CASE ipiStream.kind[ipiStream.start[index]] = "LF_STRING_ID"
        <5>1. strings' = [strings EXCEPT ![index] = ipiStream.start[index]]
          BY <2>1, <2>3, <4>1
        <5> QED  BY <3>1, <4>1, <5>1
      <4>2. CASE ipiStream.kind[ipiStream.start[index]] # "LF_STRING_ID"
        <5>1. strings' = strings  BY <2>1, <2>3, <4>2
        <5> QED  BY <3>1, <4>2, <5>1
      <4> QED  BY <4>1, <4>2
    <3>3. ASSUME NEW k \in 0 .. (IPI!RecordCount - 1)
          PROVE  (IF k = index /\ ipiStream.kind[ipiStream.start[index]] = "LF_STRING_ID"
                    THEN ipiStream.start[index] ELSE strings[k])
                   = IF k < index + 1 /\ ipiStream.kind[ipiStream.start[k]] = "LF_STRING_ID"
                       THEN ipiStream.start[k] ELSE IPI!nullptr
      <4>1. CASE k = index
        <5>1. k < index + 1 /\ ~ (k < index)  BY <1>2, <2>2, <4>1
        <5> QED  BY <3>1, <4>1, <5>1
      <4>2. CASE k # index
        <5>1. k < index + 1 <=> k < index  BY <1>2, <2>2, <4>2
        <5> QED  BY <3>1, <4>2, <5>1
      <4> QED  BY <4>1, <4>2
    <3> QED  BY <3>2, <3>3, Zenon DEF StringsAmong
  <2>6. (strings = StringsAmong(index))'  BY <1>10, <2>1, <2>5
  <2> QED
    BY <1>2, <2>1, <2>2, <2>6 DEF Printing, IPI!NothingPrinted, IPI!nullptr
<1>7. CASE IPI!StartPrinting
  <2>1. /\ ipiPc = "collect" /\ index >= IPI!RecordCount /\ ipiPc' = "print" /\ index' = 0
        /\ identifier' = IPI!GetFirstTypeIndex /\ UNCHANGED <<strings, ipiLine>>
    BY <1>7 DEF IPI!StartPrinting
  <2>2. index = IPI!RecordCount /\ strings = StringsAmong(index)
    BY <1>2, <2>1 DEF Printing
  <2>3. Cardinality(Skipped(0)) = 0
    <3>1. Skipped(0) = {}  BY DEF Skipped
    <3> QED  BY <3>1, FS_EmptySet
  <2>4. (strings = StringsAmong(IPI!RecordCount))'  BY <1>2, <1>10, <2>1, <2>2
  <2>5. index' \in 0 .. IPI!RecordCount /\ ~ (index' > 0)  BY <1>2, <2>1
  <2>6. Cardinality(Skipped(index))' = 0  BY <1>11, <2>1, <2>3
  <2>7. (identifier = IPI!GetFirstTypeIndex + index - Cardinality(Skipped(index)))'
    BY <1>2, <2>1, <2>6
  <2> QED
    BY <1>2, <2>1, <2>4, <2>5, <2>7 DEF Printing, IPI!NothingPrinted, IPI!nullptr
<1>8. CASE IPI!PrintRecord
  <2>1. /\ ipiPc = "print" /\ ipiPc' = "print" /\ index < IPI!RecordCount /\ index' = index + 1
        /\ strings' = strings
        /\ ipiLine' = [record |-> IPI!Record, id |-> identifier,
                       strings |-> IPI!StringsOf(IPI!Record), types |-> IPI!TypesOf(IPI!Record)]
        /\ identifier' = IF IPI!EndsEarly(IPI!Record) THEN identifier ELSE identifier + 1
    BY <1>8 DEF IPI!PrintRecord, IPI!streamVars
  <2>2. /\ index \in 0 .. (IPI!RecordCount - 1) /\ index + 1 \in 0 .. IPI!RecordCount
        /\ index \in Nat /\ strings = StringsAmong(IPI!RecordCount)
        /\ identifier = IPI!GetFirstTypeIndex + index - Cardinality(Skipped(index))
    BY <1>2, <2>1 DEF Printing
  <2>3. IPI!Record = ipiStream.start[index]  BY <2>1, <2>2, RecordPrinted
  <2>4. ipiLine' = LineOf(index)  BY <2>1, <2>2, <2>3 DEF LineOf
  <2>5. identifier' = IPI!GetFirstTypeIndex + (index + 1) - Cardinality(Skipped(index + 1))
    BY <1>2, <2>1, <2>2, <2>3, SkippedWithNext, SkippedIsFinite
  <2>6. (identifier = IPI!GetFirstTypeIndex + index - Cardinality(Skipped(index)))'
    BY <1>2, <1>11, <2>1, <2>5
  <2>7. (ipiLine = LineOf(index - 1))'
    <3>1. \A k : LineOf(k)' = LineOf(k)  BY <1>1, <2>1, SameRecords
    <3>2. index' - 1 = index  BY <2>1, <2>2
    <3> QED  BY <2>4, <3>1, <3>2
  <2>8. (strings = StringsAmong(IPI!RecordCount))'  BY <1>2, <1>10, <2>1, <2>2
  <2>9. index' \in 0 .. IPI!RecordCount /\ index' > 0  BY <1>2, <2>1, <2>2
  <2> QED
    BY <1>2, <2>1, <2>6, <2>7, <2>8, <2>9 DEF Printing
<1>9. CASE IPI!Finish
  <2>1. ipiPc = "print" /\ ipiPc' = "done" /\ UNCHANGED <<index, strings, identifier, ipiLine>>
    BY <1>9 DEF IPI!Finish
  <2>2. \A k : LineOf(k)' = LineOf(k)  BY <1>1, <2>1, SameRecords
  <2> QED
    BY <1>2, <1>10, <1>11, <2>1, <2>2 DEF Printing, IPI!NothingPrinted, IPI!nullptr
<1> QED
  BY <1>3, <1>4, <1>5, <1>6, <1>7, <1>8, <1>9
     DEF MainNext, TypesExample, IPIExample

LEMMA PrintingAlways == MainSpec => [](IPIWalking /\ Printing)
<1>1. IPIWalking /\ Walking /\ Printing /\ [MainNext]_<<vars, ipiVars>> => Printing'
  BY PrintingStep
<1> QED  BY <1>1, PrintingInit, IPIIsInStep, TableIsInStep, PTL DEF MainSpec

\* A line that was printed is that of the record in front of the loop's index.
LEMMA LineIsOfRecord ==
  ASSUME IPIWalking, Printing, ipiLine # IPI!NothingPrinted
  PROVE  /\ index \in Nat /\ index - 1 \in 0 .. (IPI!RecordCount - 1) /\ ipiPc \in {"print", "done"}
         /\ ipiLine = LineOf(index - 1) /\ strings = StringsAmong(IPI!RecordCount)
<1>1. /\ ipiPc \in {"print", "done"} /\ index > 0 /\ ipiLine = LineOf(index - 1)
      /\ strings = StringsAmong(IPI!RecordCount) /\ index \in 0 .. IPI!RecordCount
  BY DEF Printing
<1>2. IPI!RecordCount \in Nat  BY IPICountIsNatural
<1> QED  BY <1>1, <1>2

\* The ID printed for a record is its type index, less the empty lists in front of it:
\* in every file, however many records and empty lists it has.
THEOREM IdentifiersNameRecords == MainSpec => []IdentifierNamesRecord
<1>1. ASSUME IPIWalking, Printing PROVE IdentifierNamesRecord
  <2> DEFINE empty == {k \in 0 .. (index - 2) : IPI!EndsEarly(ipiRecords[k])}
  <2> SUFFICES ASSUME ipiLine # IPI!NothingPrinted
               PROVE  ipiStream.start[ipiLine.id - IPI!GetFirstTypeIndex
                                        + IPI!Cardinality(empty)] = ipiLine.record
    BY DEF IdentifierNamesRecord, IPI!IdentifierNamesRecord
  <2>1. /\ index \in Nat /\ index - 1 \in 0 .. (IPI!RecordCount - 1) /\ ipiPc # "walk"
        /\ ipiLine = LineOf(index - 1)
    BY <1>1, LineIsOfRecord
  <2>2. IPI!RecordCount \in Nat /\ IPI!GetFirstTypeIndex \in Nat  BY <1>1, IPICountIsNatural
  <2>3. \A k \in 0 .. (index - 2) : ipiRecords[k] = ipiStream.start[k]
    <3>1. /\ ipiTypeIndex = IPI!RecordCount
          /\ ipiRecords = [k \in 0 .. (IPI!RecordCount - 1) |->
                             IF k < ipiTypeIndex THEN ipiStream.start[k] ELSE IPI!Unwritten]
      BY <1>1, <2>1 DEF IPIWalking, IPI!RecordsAreIndexed
    <3>2. \A k \in 0 .. (index - 2) : k \in 0 .. (IPI!RecordCount - 1) /\ k < IPI!RecordCount
      BY <2>1, <2>2
    <3> QED  BY <3>1, <3>2
  <2>4. empty = Skipped(index - 1)
    <3>1. index - 1 - 1 = index - 2  BY <2>1, <2>2
    <3> QED  BY <2>3, <3>1 DEF Skipped
  <2>5. IPI!Cardinality(empty) = Cardinality(Skipped(index - 1))
    BY <2>4 DEF IPI!Cardinality, Cardinality
  <2>6. Cardinality(Skipped(index - 1)) \in Nat
    <3>1. index - 1 \in Nat  BY <2>1, <2>2
    <3> QED  BY <3>1, SkippedIsFinite
  <2>7. /\ ipiLine.record = ipiStream.start[index - 1]
        /\ ipiLine.id = IPI!GetFirstTypeIndex + (index - 1) - Cardinality(Skipped(index - 1))
    BY <2>1 DEF LineOf
  <2>8. ipiLine.id - IPI!GetFirstTypeIndex + IPI!Cardinality(empty) = index - 1
    <3> HIDE DEF empty
    <3>1. index - 1 \in Int  BY <2>1, <2>2
    <3> QED  BY <2>2, <2>5, <2>6, <2>7, <3>1
  <2> QED  BY <2>7, <2>8
<1> QED  BY <1>1, PrintingAlways, PTL

\* The strings a record names are those of records of the stream, or none.
LEMMA NamedStrings ==
  ASSUME IPIWalking, NEW k \in 0 .. (IPI!RecordCount - 1),
         ipiStream.kind[ipiStream.start[k]] \in IPI!StringLists \cup {"LF_UDT_SRC_LINE"},
         NEW m \in DOMAIN ipiStream.typeIndices[ipiStream.start[k]],
         NEW t, t = ipiStream.typeIndices[ipiStream.start[k]][m], t # 0
  PROVE  /\ t - ipiStream.typeIndexBegin \in 0 .. (IPI!RecordCount - 1)
         /\ ipiStream.kind[ipiStream.start[t - ipiStream.typeIndexBegin]] = "LF_STRING_ID"
<1>1. ipiStream \in IPIStreams  BY DEF IPIWalking
<1>2. k \in 0 .. (ipiStream.typeIndexEnd - ipiStream.typeIndexBegin - 1)
  BY IPICountIsNatural
<1>3. /\ t \in ipiStream.typeIndexBegin .. (ipiStream.typeIndexEnd - 1)
      /\ ipiStream.kind[ipiStream.start[t - ipiStream.typeIndexBegin]] = "LF_STRING_ID"
  <2> DEFINE s == ipiStream
             IsString(u) == /\ u \in s.typeIndexBegin .. (s.typeIndexEnd - 1)
                            /\ s.kind[s.start[u - s.typeIndexBegin]] = "LF_STRING_ID"
  <2>1. IPI!IsIPIStream(s)  BY <1>1, FilesAssumption
  <2>2. \A l \in 0 .. (s.typeIndexEnd - s.typeIndexBegin - 1) :
          s.kind[s.start[l]] \in IPI!StringLists \cup {"LF_UDT_SRC_LINE"} =>
            \A n \in DOMAIN s.typeIndices[s.start[l]] :
              \/ IsString(s.typeIndices[s.start[l]][n])
              \/ n > 1 /\ s.typeIndices[s.start[l]][n] = 0
    BY <2>1, Zenon DEF IPI!IsIPIStream
  <2> HIDE DEF IsString
  <2>3. IsString(t)  BY <1>2, <2>2
  <2> QED  BY <2>3 DEF IsString
<1>4. /\ ipiStream.typeIndexBegin \in Nat /\ ipiStream.typeIndexEnd \in Nat
      /\ IPI!RecordCount = ipiStream.typeIndexEnd - ipiStream.typeIndexBegin
  BY <1>1, IPIStreamShape, IPICountIsNatural
<1> QED  BY <1>3, <1>4

\* Whatever the order of the records, the strings printed are those the records name.
LEMMA PrintedStrings ==
  ASSUME IPIWalking, Printing, ipiLine # IPI!NothingPrinted,
         NEW m \in DOMAIN ipiLine.strings, NEW t,
         t = ipiStream.typeIndices[ipiLine.record][m]
  PROVE  IF t = 0 THEN ipiLine.strings[m] = IPI!NoString
         ELSE /\ ipiLine.strings[m] = ipiStream.start[t - ipiStream.typeIndexBegin]
              /\ ipiStream.kind[ipiLine.strings[m]] = "LF_STRING_ID"
<1> DEFINE k == index - 1
           printed == ipiStream.start[k]
<1>1. /\ k \in 0 .. (IPI!RecordCount - 1) /\ ipiLine = LineOf(k)
      /\ strings = StringsAmong(IPI!RecordCount)
  BY LineIsOfRecord
<1>2. IPI!RecordCount \in Nat /\ IPI!GetFirstTypeIndex = ipiStream.typeIndexBegin
  BY IPICountIsNatural
<1> HIDE DEF k
<1>3. ipiLine.record = printed /\ ipiLine.strings = IPI!StringsOf(printed)
  BY <1>1 DEF LineOf
<1>4. /\ ipiStream.kind[printed] \in IPI!StringLists \cup {"LF_UDT_SRC_LINE"}
      /\ m \in DOMAIN ipiStream.typeIndices[printed] /\ ipiLine.strings[m] = IPI!StringOf(t)
  BY <1>3 DEF IPI!StringsOf
<1>5. CASE t = 0
  BY <1>4, <1>5 DEF IPI!StringOf
<1>6. CASE t # 0
  <2> DEFINE l == t - ipiStream.typeIndexBegin
  <2>1. l \in 0 .. (IPI!RecordCount - 1) /\ ipiStream.kind[ipiStream.start[l]] = "LF_STRING_ID"
    BY <1>1, <1>3, <1>4, <1>6, NamedStrings
  <2> HIDE DEF l
  <2>2. l < IPI!RecordCount  BY <1>2, <2>1
  <2>3. strings[l] = ipiStream.start[l]  BY <1>1, <2>1, <2>2 DEF StringsAmong
  <2>4. ipiLine.strings[m] = strings[l]  BY <1>2, <1>4, <1>6 DEF IPI!StringOf, l
  <2> QED  BY <1>6, <2>1, <2>3, <2>4 DEF l
<1> QED  BY <1>5, <1>6

-----------------------------------------------------------------------------
(* The texts ExampleIPI asks for.                                          *)

\* They are put together from the same records by the same operators.
LEMMA SameNames ==
  ASSUME NEW s
  PROVE  IPI!Resolve(s) = Resolve(s)
  BY DEF IPI!Resolve, Resolve, IPI!ResolvedWith, ResolvedWith,
         IPI!BuiltInName, BuiltInName, IPI!BuiltIns, BuiltIns,
         IPI!BuiltInCharacters, BuiltInCharacters, IPI!BuiltInNumbers, BuiltInNumbers,
         IPI!BuiltIn, BuiltIn, IPI!Near, Near, IPI!All, All, IPI!Unhandled, Unhandled,
         IPI!IsRecord, IsRecord, IPI!RecordOf, RecordOf, IPI!KindOf, KindOf,
         IPI!Named, Named, IPI!Unnamable, Unnamable,
         IPI!NullName, NullName, IPI!NoRecord, NoRecord, IPI!Functions, Functions,
         IPI!ThroughModifiedPointer, ThroughModifiedPointer,
         IPI!LeafNameUnderTwoBytes, LeafNameUnderTwoBytes, IPI!Garbage, Garbage

\* The parts of a text.
LEMMA SameParts ==
  ASSUME NEW s
  PROVE  /\ \A t : IPI!IsRecord(s, t) <=> IsRecord(s, t)
         /\ \A t : IPI!RecordOf(s, t) = RecordOf(s, t)
         /\ \A t : IPI!KindOf(s, t) = KindOf(s, t)
         /\ \A m : IPI!ModifierName(s, m) = ModifierName(s, m)
         /\ \A p : IPI!PointerName(p) = PointerName(p)
         /\ \A p, l : IPI!EraseMarker(p, l) = EraseMarker(p, l)
         /\ \A p, w : IPI!ReplaceMarker(p, w) = ReplaceMarker(p, w)
         /\ \A l : IPI!Stars(l) = Stars(l)
         /\ \A S : IPI!Max(S) = Max(S)
         /\ \A q : IPI!FlattenSeq(q) = FlattenSeq(q)
<1>1. /\ \A t : IPI!IsRecord(s, t) <=> IsRecord(s, t)
      /\ \A t : IPI!RecordOf(s, t) = RecordOf(s, t)
      /\ \A t : IPI!KindOf(s, t) = KindOf(s, t)
  BY DEF IPI!IsRecord, IsRecord, IPI!RecordOf, RecordOf, IPI!KindOf, KindOf
<1>2. /\ \A m : IPI!ModifierName(s, m) = ModifierName(s, m)
      /\ \A p : IPI!PointerName(p) = PointerName(p)
  BY DEF IPI!ModifierName, ModifierName, IPI!PointerName, PointerName,
         IPI!RecordOf, RecordOf, IPI!NoRecord, NoRecord
<1>3. \A l : IPI!Stars(l) = Stars(l)  BY DEF IPI!Stars, Stars
<1>4. \A p, l : IPI!EraseMarker(p, l) = EraseMarker(p, l)
  BY DEF IPI!EraseMarker, EraseMarker, IPI!SelectInSeq, SelectInSeq,
         IPI!Min, Min, IPI!Marker, Marker, IPI!Stars, Stars
<1>5. \A p, w : IPI!ReplaceMarker(p, w) = ReplaceMarker(p, w)
  BY DEF IPI!ReplaceMarker, ReplaceMarker, IPI!SelectInSeq, SelectInSeq,
         IPI!Min, Min, IPI!Marker, Marker
<1>6. \A S : IPI!Max(S) = Max(S)  BY DEF IPI!Max, Max
<1>7. \A q : IPI!FlattenSeq(q) = FlattenSeq(q)  BY DEF IPI!FlattenSeq, FlattenSeq
<1> QED  BY <1>1, <1>2, <1>3, <1>4, <1>5, <1>6, <1>7

\* A text is put together from the texts in front the same way.
LEMMA SameText ==
  ASSUME NEW s, NEW n, NEW f, NEW t
  PROVE  IPI!TextsWith(s, n, f, t) = TextsWith(s, n, f, t)
<1> USE SameParts DEF IPI!NullName, NullName, IPI!NoRecord, NoRecord,
                      IPI!Functions, Functions, IPI!Marker, Marker
<1>1. \A r : IPI!ReturnedFunction(s, n, r) = ReturnedFunction(s, n, r)
  BY DEF IPI!ReturnedFunction, ReturnedFunction
<1>2. \A r : IPI!ReturnType(s, n, f, r) = ReturnType(s, n, f, r)
  BY <1>1 DEF IPI!ReturnType, ReturnType
<1>3. ASSUME NEW r, NEW args
      PROVE  IPI!UnderlyingType(s, n, r, args) = UnderlyingType(s, n, r, args)
  <2> DEFINE referenced == [k \in DOMAIN args |-> n[args[k]].referenced]
             leading == {k \in DOMAIN args : referenced[k] # NoRecord
                                             /\ IsRecord(s, RecordOf(s, referenced[k]).utype)}
             Leading == {k \in DOMAIN args : referenced[k] # NoRecord
                                             /\ IPI!IsRecord(s, IPI!RecordOf(s, referenced[k]).utype)}
  <2>1. IPI!UnderlyingType(s, n, r, args)
          = IF Leading # {} THEN IPI!RecordOf(s, referenced[IPI!Max(Leading)]).utype
            ELSE IF n[r.rvtype].name = NullName THEN IPI!ReturnedFunction(s, n, r)
            ELSE NoRecord
    BY DEF IPI!UnderlyingType
  <2>2. leading = Leading  OBVIOUS
  <2>3. UnderlyingType(s, n, r, args)
          = IF leading # {} THEN RecordOf(s, referenced[Max(leading)]).utype
            ELSE IF n[r.rvtype].name = NullName THEN ReturnedFunction(s, n, r)
            ELSE NoRecord
    BY DEF UnderlyingType
  <2> HIDE DEF referenced, leading, Leading
  <2> QED  BY <1>1, <2>1, <2>2, <2>3
<1>4. \A u, a, y : IPI!Argument(s, f, u, a, y) = Argument(s, f, u, a, y)
  BY DEF IPI!Argument, Argument
<1>5. \A r : IPI!Prototype(s, n, f, r) = Prototype(s, n, f, r)
  BY <1>2, <1>3, <1>4 DEF IPI!Prototype, Prototype
<1>6. ASSUME NEW a, NEW p PROVE IPI!TextOf(s, f, a, p) = TextOf(s, f, a, p)
  BY DEF IPI!TextOf, TextOf
<1> QED  BY <1>5, <1>6 DEF IPI!TextsWith, TextsWith

\* The recursion behind Texts has no other solution.
LEMMA TextsAreUnique ==
  ASSUME NEW s \in TPIStreams, NEW f,
         f = [t \in 0 .. (s.typeIndexEnd - 1) |-> TextsWith(s, Resolve(s), f, t)]
  PROVE  f = Texts(s, Resolve(s))
<1> DEFINE g == Texts(s, Resolve(s))
           S == 0 .. (s.typeIndexEnd - 1)
           T == {t \in S : f[t] # g[t]}
<1>1. g = [t \in S |-> TextsWith(s, Resolve(s), g, t)]  BY TextsAreFound
<1> HIDE DEF g
<1>2. S \subseteq Nat  BY TPIStreamShape
<1>3. ASSUME T # {} PROVE FALSE
  <2>1. T \in SUBSET Nat  BY <1>2
  <2>2. PICK t \in T : \A u \in T : t <= u
    <3> HIDE DEF T
    <3> QED  BY <1>3, <2>1, LeastNatural
  <2>3. t \in S /\ f[t] # g[t]  BY <2>2
  <2>4. ASSUME NEW u \in 0 .. (t - 1) PROVE f[u] = g[u]
    <3>1. u \in S /\ ~ (t <= u)  BY <1>2, <2>3, TPIStreamShape
    <3> QED  BY <2>2, <3>1
  <2>5. TextsWith(s, Resolve(s), f, t) = TextsWith(s, Resolve(s), g, t)
    BY <2>3, <2>4, TextOfTypesInFront
  <2>6. f[t] = TextsWith(s, Resolve(s), f, t) /\ g[t] = TextsWith(s, Resolve(s), g, t)
    BY <1>1, <2>3
  <2> QED  BY <2>3, <2>5, <2>6
<1>4. \A t \in S : f[t] = g[t]  BY <1>3
<1>5. f = [t \in S |-> f[t]] /\ g = [t \in S |-> g[t]]  BY <1>1
<1>6. [t \in S |-> f[t]] = [t \in S |-> g[t]]  BY <1>4
<1> QED  BY <1>5, <1>6 DEF g

\* The texts follow from the names.
LEMMA SameTexts ==
  ASSUME NEW s \in TPIStreams
  PROVE  IPI!Texts(s, Resolve(s)) = Texts(s, Resolve(s))
<1> DEFINE n == Resolve(s)
           T == Texts(s, n)
           U == IPI!Texts(s, n)
           Solves(f) == f = [t \in 0 .. (s.typeIndexEnd - 1) |-> IPI!TextsWith(s, n, f, t)]
<1>1. U = CHOOSE f : Solves(f)  BY DEF IPI!Texts
<1>2. T = [t \in 0 .. (s.typeIndexEnd - 1) |-> TextsWith(s, n, T, t)]  BY TextsAreFound
<1>3. Solves(T)
  <2> HIDE DEF n, T
  <2> QED  BY <1>2, SameText
<1>4. Solves(U)
  <2> HIDE DEF Solves, T, U
  <2> QED  BY <1>1, <1>3
<1>5. U = [t \in 0 .. (s.typeIndexEnd - 1) |-> TextsWith(s, n, U, t)]
  <2> HIDE DEF n, U
  <2> QED  BY <1>4, SameText
<1>6. U = T
  <2> HIDE DEF U
  <2> QED  BY <1>5, TextsAreUnique
<1> QED  BY <1>6

\* What is printed for a type is no format.
LEMMA PrintedTypes ==
  ASSUME IPIWalking, Walking, Printing,
         NEW place \in DOMAIN ipiLine.types
  PROVE  IPI!Marker \notin IPI!Range(ipiLine.types[place])
<1>1. ipiLine # IPI!NothingPrinted
  <2>1. IPI!NothingPrinted.types = <<>>  BY DEF IPI!NothingPrinted
  <2>2. DOMAIN <<>> = {}  OBVIOUS
  <2> QED  BY <2>1, <2>2
<1> DEFINE k == index - 1
           printed == ipiStream.start[k]
<1>2. k \in 0 .. (IPI!RecordCount - 1) /\ ipiLine = LineOf(k)  BY <1>1, LineIsOfRecord
<1> HIDE DEF k
<1>3. ipiLine.types = IPI!TypesOf(printed)  BY <1>2 DEF LineOf
<1>4. place \in DOMAIN ipiStream.types[printed]  BY <1>3 DEF IPI!TypesOf
<1> DEFINE t == ipiStream.types[printed][place]
           text == IPI!GetTypeName(stream, t)
<1>5. ipiLine.types[place] = IPI!ReplaceMarker(text, <<>>)
  BY <1>3, <1>4 DEF IPI!TypesOf, IPI!GetTypeNameIPI
<1>6. t \in Nat
  <2>1. ipiStream \in IPIStreams  BY DEF IPIWalking
  <2>2. k \in 0 .. (ipiStream.typeIndexEnd - ipiStream.typeIndexBegin - 1)
    BY <1>2, IPICountIsNatural
  <2>3. ipiStream.types[printed] \in Seq(Nat)
    BY <2>1, <2>2, FilesAssumption DEF IPI!IsIPIStream
  <2> QED  BY <1>4, <2>3
<1> HIDE DEF t
<1>7. \E W : Marker \notin W /\ (IsPlain(W, text) \/ IsFormat(W, text))
  <2>1. stream \in TPIStreams  BY DEF Walking
  <2>2. stream.typeIndexEnd \in Nat  BY <2>1, TPIStreamShape
  <2>3. CASE t < stream.typeIndexEnd
    <3> DEFINE texts == Texts(stream, Resolve(stream))
    <3>1. t \in 0 .. (stream.typeIndexEnd - 1)  BY <1>6, <2>2, <2>3
    <3>2. text = texts[t].name  BY <2>1, <2>3, SameNames, SameTexts DEF IPI!GetTypeName
    <3> HIDE DEF texts, text
    <3>3. IsSpelled(stream, t, texts[t])  BY <2>1, <3>1, EveryTextIsSpelled DEF texts
    <3>4. IsPlain(Words(stream), text) \/ IsFormat(Words(stream), text)
      BY <3>2, <3>3 DEF IsSpelled
    <3> QED  BY <2>1, <3>4, NoMarkerAmongWords
  <2>4. CASE ~ (t < stream.typeIndexEnd)
    <3> DEFINE word == "<BAD_TYPE_INDEX>"
    <3>1. text = <<word>>  BY <2>4 DEF IPI!GetTypeName, IPI!BadTypeIndex
    <3>2. word # Marker  BY DEF Marker
    <3> HIDE DEF word, text
    <3>3. Marker \notin {word} /\ IsPlain({word}, text)  BY <3>1, <3>2 DEF IsPlain
    <3> QED  BY <3>3
  <2> QED  BY <2>3, <2>4
<1> HIDE DEF text
<1>8. PICK W : Marker \notin W /\ (IsPlain(W, text) \/ IsFormat(W, text))  BY <1>7
<1>9. IPI!ReplaceMarker(text, <<>>) = ReplaceMarker(text, <<>>)
  BY SameParts
<1> DEFINE shown == ReplaceMarker(text, <<>>)
<1>10. IsPlain(W, shown)
  <2>1. IsPlain(W, <<>>)  BY DEF IsPlain
  <2> QED  BY <1>8, <2>1, MarkerIsReplaced, PlainTextIsKept
<1> HIDE DEF shown
<1>11. DOMAIN shown = 1 .. Len(shown) /\ \A n \in 1 .. Len(shown) : shown[n] \in W
  BY <1>10 DEF IsPlain
<1>12. Marker \notin IPI!Range(shown)  BY <1>8, <1>11 DEF IPI!Range
<1> QED  BY <1>5, <1>9, <1>12 DEF shown, IPI!Marker, Marker

\* Whatever the order of the records, the text printed for a type index is that of the
\* string record with the index, and no type is printed as a format.
THEOREM StringsAndTypesAlwaysResolve == MainSpec => []StringsAndTypesResolve
<1>1. ASSUME IPIWalking, Walking, Printing PROVE StringsAndTypesResolve
  <2>1. \A m \in DOMAIN ipiLine.types : IPI!Marker \notin IPI!Range(ipiLine.types[m])
    BY <1>1, PrintedTypes
  <2>2. ipiLine # IPI!NothingPrinted =>
          \A m \in DOMAIN ipiLine.strings :
            LET t == ipiStream.typeIndices[ipiLine.record][m]
            IN  IF t = 0 THEN ipiLine.strings[m] = IPI!NoString
                ELSE /\ ipiLine.strings[m] = ipiStream.start[t - ipiStream.typeIndexBegin]
                     /\ ipiStream.kind[ipiLine.strings[m]] = "LF_STRING_ID"
    BY <1>1, PrintedStrings
  <2> QED  BY <2>1, <2>2 DEF StringsAndTypesResolve, IPI!StringsAndTypesResolve
<1> QED  BY <1>1, PrintingAlways, TableIsInStep, PTL
=============================================================================
