------------------------- MODULE ExampleLinesProofs -------------------------
(***************************************************************************)
(* Proofs about ExampleLines and the ModuleLineStream it walks: for any    *)
(* number of modules, sections and items, laid out as the compiler writes  *)
(* them, the walk meets every section and item where it starts, and every  *)
(* line ends up with its own file and its own piece of the code.           *)
(***************************************************************************)
EXTENDS ExampleLines, FiniteSetTheorems, TLAPS

-----------------------------------------------------------------------------
(* Padding, and what the code computes instead.                            *)

LEMMA PaddedBounds ==
  ASSUME NEW n \in Nat
  PROVE  /\ Padded(n) \in Nat /\ Padded(n) % 4 = 0
         /\ n <= Padded(n) /\ Padded(n) <= n + 3
  BY DEF Padded

LEMMA SumOfMultiples ==
  ASSUME NEW o \in Nat, NEW n \in Nat, o % 4 = 0, n % 4 = 0
  PROVE  (o + n) % 4 = 0
  OBVIOUS

\* Rounding the end up is padding the length, since everything starts at a
\* multiple of four.
LEMMA RoundedIsPadded ==
  ASSUME NEW o \in Nat, o % 4 = 0, NEW n \in Nat
  PROVE  RoundUpToMultiple(o + n, 4) = o + Padded(n)
<1>1. PICK k \in Nat : o = 4 * k
  <2>1. o \div 4 \in Nat /\ o = 4 * (o \div 4)  OBVIOUS
  <2> QED  BY <2>1
<1>2. (o + n + 3) \div 4 = k + (n + 3) \div 4  BY <1>1
<1>3. (n + 3) \div 4 \in Nat /\ 4 * ((n + 3) \div 4) = n + ((-n) % 4)  OBVIOUS
<1>4. RoundUpToMultiple(o + n, 4) = (k + (n + 3) \div 4) * 4
  BY <1>2 DEF RoundUpToMultiple
<1> QED  BY <1>1, <1>3, <1>4 DEF Padded

LEMMA KindHeaders ==
  ASSUME NEW kind \in Kinds
  PROVE  SizeOfKindHeader(kind) \in {0, 4, 12}
  BY DEF Kinds, SizeOfKindHeader

\* The code counts 8 bytes for the header of a checksum where there are 6: with
\* the lengths that checksums have, the padding hides it.
LEMMA ChecksumsPadded ==
  ASSUME NEW size \in ChecksumSizes
  PROVE  size \in Nat /\ Padded(SizeOfChecksumHeader + size) = Padded(6 + size)
<1>1. \E k \in 0 .. 8 : size = 4 * k
  <2>1. size = 4 * 0 \/ size = 4 * 4 \/ size = 4 * 5 \/ size = 4 * 8  BY DEF ChecksumSizes
  <2> QED  BY <2>1
<1>2. PICK k \in 0 .. 8 : size = 4 * k  BY <1>1
<1>3. (-(8 + 4 * k)) % 4 = 0 /\ (-(6 + 4 * k)) % 4 = 2  OBVIOUS
<1> QED  BY <1>2, <1>3 DEF Padded, SizeOfChecksumHeader

\* Whatever the kind, the walk over the items pads to where the next one starts.
LEMMA ItemSizePadded ==
  ASSUME NEW kind \in Kinds, inSection, kind = Section.kind, IsItem(kind, Item)
  PROVE  /\ ItemSize \in Nat /\ LengthOfItem(kind, Item) \in Nat
         /\ LengthOfItem(kind, Item) # 0
         /\ Padded(ItemSize) = Padded(LengthOfItem(kind, Item))
<1>1. CASE kind = "S_LINES"
  <2>1. ItemSize = Item.size /\ LengthOfItem(kind, Item) = Item.size
    BY <1>1 DEF ItemSize, LengthOfItem
  <2>2. Item.size \in Nat \ {0}  BY <1>1 DEF IsItem
  <2> QED  BY <2>1, <2>2
<1>2. CASE kind = "S_FILECHECKSUMS"
  <2>1. /\ ItemSize = SizeOfChecksumHeader + Item.checksumSize
        /\ LengthOfItem(kind, Item) = 6 + Item.checksumSize
    BY <1>2 DEF ItemSize, LengthOfItem
  <2>2. Item.checksumSize \in ChecksumSizes  BY <1>2 DEF IsItem
  <2>3. Item.checksumSize \in Nat  BY <2>2, ChecksumsPadded
  <2>4. Padded(ItemSize) = Padded(LengthOfItem(kind, Item))  BY <2>1, <2>2, ChecksumsPadded
  <2> QED  BY <2>1, <2>3, <2>4 DEF SizeOfChecksumHeader
<1>3. CASE kind = "S_INLINEELINES"
  BY <1>3 DEF ItemSize, LengthOfItem, SizeOfInlineeLine
<1>4. CASE kind = "S_INLINEELINES_EX"
  <2>1. /\ ItemSize = SizeOfInlineeLineEx + Item.extraLines * SizeOfUInt32
        /\ LengthOfItem(kind, Item) = SizeOfInlineeLineEx + Item.extraLines * SizeOfUInt32
    BY <1>4 DEF ItemSize, LengthOfItem
  <2>2. Item.extraLines \in Nat  BY <1>4 DEF IsItem
  <2> QED  BY <2>1, <2>2 DEF SizeOfInlineeLineEx, SizeOfUInt32
<1> QED  BY <1>1, <1>2, <1>3, <1>4 DEF Kinds

-----------------------------------------------------------------------------
(* The walk: it stands on sections and items, at multiples of four.        *)

WalkInv ==
  /\ stream \in LineStreams
  /\ offset \in DOMAIN stream.sectionAt \cup {stream.size}
  /\ offset \in Nat /\ offset % 4 = 0
  /\ inSection \in BOOLEAN
  /\ inSection =>
       /\ offset \in DOMAIN stream.sectionAt
       /\ headerEnd = SectionEnds(stream, offset)
       /\ itemOffset \in stream.itemsOf[offset] \cup {headerEnd}
       /\ itemOffset \in Nat /\ itemOffset % 4 = 0

\* The end that the code computes is that of the layout.
LEMMA SectionEndIsLayout ==
  ASSUME WalkInv, offset \in DOMAIN stream.sectionAt
  PROVE  /\ SectionEnd = SectionEnds(stream, offset)
         /\ SectionEnd \in Nat /\ SectionEnd % 4 = 0 /\ offset < SectionEnd
<1>1. Section.size \in Nat
  BY LineStreamsAssumption DEF WalkInv, IsLineStream, IsSection, Section
<1>2. SectionEnd = offset + Padded(8 + Section.size)
  <2>1. SectionEnd = RoundUpToMultiple(offset + (8 + Section.size), 4)
    BY <1>1 DEF WalkInv, SectionEnd, SizeOfSubsectionHeader
  <2> QED  BY <1>1, <2>1, RoundedIsPadded DEF WalkInv
<1>3. Padded(8 + Section.size) = 8 + Padded(Section.size)  BY <1>1 DEF Padded
<1>4. Padded(Section.size) \in Nat /\ Padded(Section.size) % 4 = 0  BY <1>1, PaddedBounds
<1>5. SectionEnds(stream, offset) = offset + 8 + Padded(Section.size)
  BY DEF SectionEnds, SizeOfSubsectionHeader, Section
<1>6. (8 + Padded(Section.size)) % 4 = 0  BY <1>4
<1>7. (offset + (8 + Padded(Section.size))) % 4 = 0  BY <1>4, <1>6, SumOfMultiples DEF WalkInv
<1> QED  BY <1>2, <1>3, <1>4, <1>5, <1>7 DEF WalkInv

\* So is the start of the items.
LEMMA FirstItemIsLayout ==
  ASSUME WalkInv, offset \in DOMAIN stream.sectionAt
  PROVE  /\ FirstItem = ItemsBegin(stream, offset)
         /\ FirstItem \in Nat /\ FirstItem % 4 = 0
         /\ FirstItem \in stream.itemsOf[offset] \cup {SectionEnds(stream, offset)}
<1> DEFINE h == SizeOfKindHeader(Section.kind)
<1>1. IsSection(stream, offset)  BY LineStreamsAssumption DEF WalkInv, IsLineStream
<1>2. Section.kind \in Kinds  BY <1>1 DEF IsSection, Section
<1>3. h \in Nat /\ h % 4 = 0
  <2>1. h = 0 \/ h = 4 \/ h = 12  BY <1>2, KindHeaders
  <2> QED  BY <2>1
<1> HIDE DEF h
<1>4. FirstItem = offset + Padded(8 + h)
  <2>1. FirstItem = RoundUpToMultiple(offset + (8 + h), 4)
    BY <1>3 DEF WalkInv, FirstItem, SizeOfSubsectionHeader, h
  <2>2. 8 + h \in Nat /\ offset \in Nat /\ offset % 4 = 0  BY <1>3 DEF WalkInv
  <2> QED  BY <2>1, <2>2, RoundedIsPadded
<1>5. (8 + h) % 4 = 0 /\ Padded(8 + h) = 8 + h  BY <1>3 DEF Padded
<1>6. FirstItem = offset + (8 + h)  BY <1>4, <1>5
<1>7. FirstItem % 4 = 0  BY <1>3, <1>5, <1>6, SumOfMultiples DEF WalkInv
<1>8. FirstItem = ItemsBegin(stream, offset)
  BY <1>3, <1>6 DEF WalkInv, ItemsBegin, SizeOfSubsectionHeader, Section, h
<1>9. FirstItem \in stream.itemsOf[offset] \cup {SectionEnds(stream, offset)}
  BY <1>1, <1>8 DEF IsSection
<1> QED  BY <1>3, <1>6, <1>7, <1>8, <1>9 DEF WalkInv

\* Inside a section, in front of its end, there is an item; the next one, or the
\* end, is where the code looks for it.
LEMMA NextItemIsLayout ==
  ASSUME WalkInv, inSection, itemOffset < headerEnd
  PROVE  /\ itemOffset \in stream.itemsOf[offset] /\ IsItem(Section.kind, Item)
         /\ NextItem \in stream.itemsOf[offset] \cup {headerEnd}
         /\ NextItem \in Nat /\ NextItem % 4 = 0 /\ itemOffset < NextItem
<1>1. /\ offset \in DOMAIN stream.sectionAt /\ headerEnd = SectionEnds(stream, offset)
      /\ itemOffset \in stream.itemsOf[offset] \cup {headerEnd}
      /\ itemOffset \in Nat /\ itemOffset % 4 = 0
  BY DEF WalkInv
<1>2. IsSection(stream, offset)  BY <1>1, LineStreamsAssumption DEF WalkInv, IsLineStream
<1>3. itemOffset \in stream.itemsOf[offset]  BY <1>1
<1>4. Section.kind \in Kinds /\ IsItem(Section.kind, Item)
  BY <1>2, <1>3 DEF IsSection, Section, Item
<1> DEFINE length == LengthOfItem(Section.kind, Item)
<1>5. ItemSize \in Nat /\ length \in Nat /\ length # 0 /\ Padded(ItemSize) = Padded(length)
  BY <1>4, ItemSizePadded
<1>6. itemOffset + Padded(length) \in stream.itemsOf[offset] \cup {headerEnd}
  BY <1>1, <1>2, <1>3 DEF IsSection, Section, Item
<1> HIDE DEF length
<1>7. NextItem = itemOffset + Padded(length)
  BY <1>1, <1>5, RoundedIsPadded DEF NextItem
<1>8. Padded(length) \in Nat /\ Padded(length) % 4 = 0 /\ length <= Padded(length)
  BY <1>5, PaddedBounds
<1>9. NextItem % 4 = 0  BY <1>1, <1>7, <1>8, SumOfMultiples
<1> QED  BY <1>1, <1>3, <1>4, <1>5, <1>6, <1>7, <1>8, <1>9

LEMMA SectionOffsets ==
  ASSUME NEW s \in LineStreams, NEW o \in DOMAIN s.sectionAt
  PROVE  o \in Nat /\ s.c13LineInfoOffset \in Nat /\ o >= s.c13LineInfoOffset /\ o < s.size
<1>1. s.c13LineInfoOffset \in Nat /\ s.size \in Nat  BY LineStreamsAssumption DEF IsLineStream
<1>2. o \in s.c13LineInfoOffset .. (s.size - 1)  BY LineStreamsAssumption DEF IsLineStream
<1> QED  BY <1>1, <1>2

LEMMA StartOnWalk ==
  ASSUME NEW s \in LineStreams, StartOn(s)
  PROVE  WalkInv'
  BY LineStreamsAssumption DEF StartOn, WalkInv, IsLineStream

LEMMA EnterSectionWalk ==
  ASSUME WalkInv, EnterSection
  PROVE  offset \in DOMAIN stream.sectionAt /\ WalkInv'
<1>1. offset \in DOMAIN stream.sectionAt
  <2>1. offset # stream.size  BY LineStreamsAssumption DEF WalkInv, IsLineStream, EnterSection
  <2> QED  BY <2>1 DEF WalkInv
<1>2. SectionEnd = SectionEnds(stream, offset)  BY <1>1, SectionEndIsLayout
<1>3. /\ FirstItem \in Nat /\ FirstItem % 4 = 0
      /\ FirstItem \in stream.itemsOf[offset] \cup {SectionEnds(stream, offset)}
  BY <1>1, FirstItemIsLayout
<1>4. SectionEnds(stream, offset)' = SectionEnds(stream, offset)
  BY DEF EnterSection, SectionEnds
<1> QED  BY <1>1, <1>2, <1>3, <1>4 DEF WalkInv, EnterSection

LEMMA CallbackWalk ==
  ASSUME WalkInv, NEW kinds, CallbackWithItem(kinds)
  PROVE  WalkInv'
<1>1. /\ NextItem \in stream.itemsOf[offset] \cup {headerEnd}
      /\ NextItem \in Nat /\ NextItem % 4 = 0
  BY NextItemIsLayout DEF CallbackWithItem
<1>2. SectionEnds(stream, offset)' = SectionEnds(stream, offset)
  BY DEF CallbackWithItem, SectionEnds
<1> QED  BY <1>1, <1>2 DEF WalkInv, CallbackWithItem

LEMMA LeaveSectionWalk ==
  ASSUME WalkInv, LeaveSection
  PROVE  WalkInv' /\ offset' = SectionEnds(stream, offset)
<1>1. offset \in DOMAIN stream.sectionAt  BY DEF WalkInv, LeaveSection
<1>2. /\ SectionEnd = SectionEnds(stream, offset)
      /\ SectionEnd \in Nat /\ SectionEnd % 4 = 0
  BY <1>1, SectionEndIsLayout
<1>3. SectionEnd \in DOMAIN stream.sectionAt \cup {stream.size}
  BY <1>1, <1>2, LineStreamsAssumption DEF WalkInv, IsLineStream
<1> QED  BY <1>2, <1>3 DEF WalkInv, LeaveSection

-----------------------------------------------------------------------------
(* The example: its modules, its three vectors, and what is already known  *)
(* of the lines in them.                                                   *)

Opened == pc \in {"sections", "assign"}

ModuleInv ==
  /\ program \in Programs
  /\ module \in 1 .. (Len(program) + 1)
  /\ pc \in {"module", "sections", "assign", "sorted"}
  /\ Opened => module \in DOMAIN program /\ stream = program[module]
  /\ pc = "assign" => offset >= stream.size

TypeInv ==
  /\ filenames \in Seq([fileChecksumOffset : Nat, namesFilenameOffset : Int])
  /\ sections \in Seq([index : Nat, offset : Nat, lineIndex : Nat])
  /\ lines \in Seq([lineNumber : Nat, codeSize : Int, filenameIndex : Nat])
  /\ moduleFilenamesStartIndex \in Nat \ {0} /\ filename \in Nat \ {0}
  /\ pc = "sections" => moduleFilenamesStartIndex <= Len(filenames) + 1

\* The section of checksums is known once the walk has come by it.
ChecksumsInv ==
  Opened =>
    \A q \in DOMAIN stream.sectionAt :
      /\ stream.sectionAt[q].kind = "S_FILECHECKSUMS"
      /\ q < offset \/ (q = offset /\ inSection)
      => moduleFileChecksumHeader = q + SizeOfSubsectionHeader

\* The files of the module at hand that are not resolved yet.
Pending == CASE pc = "sections" -> moduleFilenamesStartIndex .. Len(filenames)
             [] pc = "assign" -> filename .. Len(filenames)
             [] OTHER -> {}

\* The checksum that names a file, at the offset kept until the module is done.
FoundAt(f, name) ==
  \E q \in DOMAIN stream.sectionAt :
    LET checksum == q + SizeOfSubsectionHeader + filenames[f].fileChecksumOffset
    IN  /\ stream.sectionAt[q].kind = "S_FILECHECKSUMS"
        /\ checksum \in stream.itemsOf[q] /\ HasFilename(stream, checksum)
        /\ stream.itemAt[checksum].filenameOffset = name

IsNumber(n) == \E m \in DOMAIN program : n \in DOMAIN program[m].truth

Resolved(f, name) ==
  IF f \in Pending THEN FoundAt(f, name) ELSE filenames[f].namesFilenameOffset = name

FilesInv ==
  \A i \in DOMAIN lines :
    /\ IsNumber(lines[i].lineNumber)
    /\ lines[i].filenameIndex \in DOMAIN filenames
    /\ Resolved(lines[i].filenameIndex, Truth(lines[i].lineNumber).file)

\* An entry and the line it leads to.
Covers(entry, line) ==
  Truth(line.lineNumber).onlyBlock =>
    /\ entry.index = Truth(line.lineNumber).section
    /\ entry.offset = Truth(line.lineNumber).address
    /\ line.codeSize = Truth(line.lineNumber).codeSize

CoverInv ==
  /\ DOMAIN sections = DOMAIN lines
  /\ pc # "sorted" => \A i \in DOMAIN sections : /\ sections[i].lineIndex = i
                                                 /\ Covers(sections[i], lines[i])
  /\ LinesCoverCode

IInv == WalkInv /\ ModuleInv /\ TypeInv /\ ChecksumsInv /\ FilesInv /\ CoverInv

-----------------------------------------------------------------------------
(* What the assumptions say of the module at hand.                         *)

LEMMA ProgramFacts ==
  ASSUME ModuleInv
  PROVE  /\ Len(program) \in Nat /\ DOMAIN program = 1 .. Len(program)
         /\ 1 \in DOMAIN program
         /\ \A m \in DOMAIN program : program[m] \in LineStreams /\ IsModule(program[m])
<1>1. program \in Seq(LineStreams) /\ program # <<>>
  BY ProgramsAssumption DEF ModuleInv
<1>2. Len(program) \in Nat /\ DOMAIN program = 1 .. Len(program)  BY <1>1
<1>3. Len(program) # 0  BY <1>1
<1>4. \A m \in DOMAIN program : IsModule(program[m])  BY ProgramsAssumption DEF ModuleInv
<1> QED  BY <1>1, <1>2, <1>3, <1>4

\* The number of a line leads to the module that has it.
LEMMA TruthIs ==
  ASSUME ModuleInv, NEW m \in DOMAIN program, NEW n \in DOMAIN program[m].truth
  PROVE  IsNumber(n) /\ Truth(n) = program[m].truth[n]
<1>1. \A k \in DOMAIN program : n \in DOMAIN program[k].truth => k = m
  BY ProgramsAssumption DEF ModuleInv
<1>2. (CHOOSE k \in DOMAIN program : n \in DOMAIN program[k].truth) = m  BY <1>1
<1> QED  BY <1>2 DEF Truth, IsNumber

\* The block a callback is called with.
LEMMA BlockFacts ==
  ASSUME IInv, pc = "sections", CallbackWithItem({"S_LINES"})
  PROVE  /\ offset \in DOMAIN stream.sectionAt /\ Section.kind = "S_LINES"
         /\ Section.sectionIndex \in Nat /\ Section.sectionOffset \in Nat /\ Section.codeSize \in Nat
         /\ itemOffset \in stream.itemsOf[offset]
         /\ IsBlock(stream, offset, itemOffset)
         /\ module \in DOMAIN program /\ stream = program[module]
         /\ IsModule(stream)
<1>1. module \in DOMAIN program /\ stream = program[module]
  BY DEF IInv, ModuleInv, Opened
<1>2. IsModule(stream)  BY <1>1, ProgramFacts DEF IInv
<1>3. inSection /\ itemOffset < headerEnd /\ Section.kind = "S_LINES"
  BY DEF CallbackWithItem
<1>4. offset \in DOMAIN stream.sectionAt  BY <1>3 DEF IInv, WalkInv
<1>5. itemOffset \in stream.itemsOf[offset]  BY <1>3, NextItemIsLayout DEF IInv
<1> QED  BY <1>1, <1>2, <1>3, <1>4, <1>5 DEF IsModule, Section

-----------------------------------------------------------------------------
(* Steps that leave the vectors alone.                                     *)

\* The files stay what they are if the same ones are pending in the same module.
LEMMA FilesStay ==
  ASSUME FilesInv, UNCHANGED <<program, lines, filenames>>,
         \A f \in DOMAIN filenames :
           (f \in Pending') = (f \in Pending) /\ (f \in Pending => stream' = stream)
  PROVE  FilesInv'
<1> SUFFICES ASSUME NEW i \in DOMAIN lines
             PROVE  /\ IsNumber(lines[i].lineNumber)'
                    /\ lines[i].filenameIndex \in DOMAIN filenames
                    /\ Resolved(lines[i].filenameIndex, Truth(lines[i].lineNumber).file)'
  BY DEF FilesInv
<1> DEFINE f == lines[i].filenameIndex
           name == Truth(lines[i].lineNumber).file
<1>1. IsNumber(lines[i].lineNumber) /\ f \in DOMAIN filenames /\ Resolved(f, name)
  BY DEF FilesInv
<1>2. IsNumber(lines[i].lineNumber)'  BY <1>1 DEF IsNumber
<1>3. name' = name /\ f' = f  BY DEF Truth
<1>4. CASE f \in Pending
  <2>1. stream' = stream /\ (f \in Pending)'  BY <1>1, <1>4, <1>3
  <2>2. FoundAt(f, name)  BY <1>1, <1>4 DEF Resolved
  <2>3. FoundAt(f, name)'  BY <1>3, <2>1, <2>2 DEF FoundAt
  <2> QED  BY <1>1, <1>2, <2>1, <2>3 DEF Resolved
<1>5. CASE f \notin Pending
  <2>1. ~ (f \in Pending)'  BY <1>1, <1>5, <1>3
  <2>2. filenames[f].namesFilenameOffset = name  BY <1>1, <1>5 DEF Resolved
  <2> QED  BY <1>1, <1>2, <1>3, <2>1, <2>2 DEF Resolved
<1> QED  BY <1>4, <1>5

LEMMA CoverStays ==
  ASSUME CoverInv, UNCHANGED <<program, lines, sections>>, pc # "sorted", pc' # "sorted"
  PROVE  CoverInv'
<1>1. \A i \in DOMAIN sections : Covers(sections[i], lines[i])' = Covers(sections[i], lines[i])
  BY DEF Covers, Truth
<1> QED  BY <1>1 DEF CoverInv, LinesCoverCode

LEMMA InitIInv == Init => IInv
<1> SUFFICES ASSUME Init PROVE IInv  OBVIOUS
<1>1. program \in Seq(LineStreams) /\ program # <<>>  BY ProgramsAssumption DEF Init
<1>2. Len(program) \in Nat /\ DOMAIN program = 1 .. Len(program) /\ Len(program) # 0  BY <1>1
<1>3. ModuleInv  BY <1>2 DEF Init, ModuleInv, Opened
<1>4. WalkInv
  <2>1. stream \in LineStreams  BY <1>1, <1>2 DEF Init
  <2> QED  BY <2>1, LineStreamsAssumption DEF Init, WalkInv, IsLineStream
<1>5. TypeInv  BY DEF Init, TypeInv
<1>6. ChecksumsInv /\ FilesInv /\ CoverInv
  BY DEF Init, ChecksumsInv, Opened, FilesInv, CoverInv, LinesCoverCode
<1> QED  BY <1>3, <1>4, <1>5, <1>6 DEF IInv

LEMMA SkipModuleStep ==
  ASSUME IInv, SkipModule
  PROVE  IInv'
<1> USE DEF SkipModule, lineStreamVars
<1>1. WalkInv'  BY DEF IInv, WalkInv, SectionEnds
<1>2. ModuleInv'
  <2>1. Len(program) \in Nat  BY ProgramFacts DEF IInv
  <2> QED  BY <2>1 DEF IInv, ModuleInv, Opened
<1>3. TypeInv'  BY DEF IInv, TypeInv
<1>4. ChecksumsInv'  BY DEF ChecksumsInv, Opened
<1>5. FilesInv'
  <2>1. Pending' = Pending  BY DEF Pending
  <2> QED  BY <2>1, FilesStay DEF IInv
<1>6. CoverInv'  BY CoverStays DEF IInv
<1> QED  BY <1>1, <1>2, <1>3, <1>4, <1>5, <1>6 DEF IInv

LEMMA StartModuleStep ==
  ASSUME IInv, StartModule
  PROVE  IInv'
<1> USE DEF StartModule
<1>1. module \in DOMAIN program /\ program[module] \in LineStreams
  BY ProgramFacts DEF IInv, ModuleInv
<1>2. WalkInv'  BY <1>1, StartOnWalk
<1>3. ModuleInv'  BY <1>1 DEF IInv, ModuleInv, Opened, StartOn
<1>4. Len(filenames) \in Nat  BY DEF IInv, TypeInv
<1>5. TypeInv'  BY <1>4 DEF IInv, TypeInv
<1>6. ChecksumsInv'
  <2>1. /\ stream' = program[module] /\ offset' = program[module].c13LineInfoOffset
        /\ inSection' = FALSE
    BY DEF StartOn
  <2>2. \A q \in DOMAIN program[module].sectionAt :
          ~ (q < program[module].c13LineInfoOffset)
    BY <1>1, SectionOffsets
  <2> QED  BY <2>1, <2>2 DEF ChecksumsInv
<1>7. FilesInv'
  <2>1. Pending = {}  BY DEF Pending
  <2>2. Pending' = (Len(filenames) + 1) .. Len(filenames)  BY DEF Pending
  <2>3. Pending' = {}  BY <1>4, <2>2
  <2> QED  BY <2>1, <2>3, FilesStay DEF IInv
<1>8. CoverInv'  BY CoverStays DEF IInv
<1> QED  BY <1>2, <1>3, <1>5, <1>6, <1>7, <1>8 DEF IInv

\* Of the sections of checksums there is one, so that none is known when the walk
\* comes to it.
LEMMA EnterLineSectionStep ==
  ASSUME IInv, EnterLineSection
  PROVE  IInv'
<1> USE DEF EnterLineSection, ExampleUnchanged
<1>1. offset \in DOMAIN stream.sectionAt /\ WalkInv'  BY EnterSectionWalk DEF IInv
<1>2. UNCHANGED <<stream, offset>> /\ inSection' = TRUE  BY DEF EnterSection
<1>3. ModuleInv'  BY <1>2 DEF IInv, ModuleInv, Opened
<1>4. TypeInv'  BY DEF IInv, TypeInv
<1>5. ChecksumsInv'
  <2>1. module \in DOMAIN program /\ stream = program[module]  BY DEF IInv, ModuleInv, Opened
  <2>2. IsModule(stream)  BY <2>1, ProgramFacts DEF IInv
  <2> SUFFICES ASSUME NEW q \in DOMAIN stream.sectionAt,
                      stream.sectionAt[q].kind = "S_FILECHECKSUMS",
                      q < offset \/ q = offset
               PROVE  moduleFileChecksumHeader' = q + SizeOfSubsectionHeader
    BY <1>2 DEF ChecksumsInv
  <2>3. CASE q = offset  BY <2>3 DEF Section
  <2>4. CASE q < offset
    <3>1. ~ inSection  BY DEF EnterSection
    <3>2. moduleFileChecksumHeader = q + SizeOfSubsectionHeader
      BY <2>4 DEF IInv, ChecksumsInv, Opened
    <3>3. q # offset
      <4>1. offset \in Nat  BY DEF IInv, WalkInv
      <4> QED  BY <2>4, <4>1
    <3>4. Section.kind # "S_FILECHECKSUMS"  BY <1>1, <2>2, <3>3 DEF IsModule, Section
    <3> QED  BY <3>2, <3>4
  <2> QED  BY <2>3, <2>4
<1>6. FilesInv'
  <2>1. Pending' = Pending  BY DEF Pending
  <2> QED  BY <1>2, <2>1, FilesStay DEF IInv
<1>7. CoverInv'  BY CoverStays DEF IInv
<1> QED  BY <1>1, <1>3, <1>4, <1>5, <1>6, <1>7 DEF IInv

LEMMA OtherItemStep ==
  ASSUME IInv, OtherItem
  PROVE  IInv'
<1> USE DEF OtherItem, ExampleUnchanged
<1>1. WalkInv'  BY CallbackWalk DEF IInv
<1>2. UNCHANGED <<stream, offset, inSection>>  BY DEF CallbackWithItem
<1>3. ModuleInv'  BY <1>2 DEF IInv, ModuleInv, Opened
<1>4. TypeInv'  BY DEF IInv, TypeInv
<1>5. ChecksumsInv'  BY <1>2 DEF IInv, ChecksumsInv, Opened
<1>6. FilesInv'
  <2>1. Pending' = Pending  BY DEF Pending
  <2> QED  BY <1>2, <2>1, FilesStay DEF IInv
<1>7. CoverInv'  BY CoverStays DEF IInv
<1> QED  BY <1>1, <1>3, <1>4, <1>5, <1>6, <1>7 DEF IInv

\* Between the section left and the next one there is no other.
LEMMA ReturnFromSectionStep ==
  ASSUME IInv, ReturnFromSection
  PROVE  IInv'
<1> USE DEF ReturnFromSection, ExampleUnchanged
<1>1. WalkInv' /\ offset' = SectionEnds(stream, offset)  BY LeaveSectionWalk DEF IInv
<1>2. UNCHANGED stream /\ inSection /\ inSection' = FALSE  BY DEF LeaveSection
<1>3. ModuleInv'  BY <1>2 DEF IInv, ModuleInv, Opened
<1>4. TypeInv'  BY DEF IInv, TypeInv
<1>5. ChecksumsInv'
  <2>1. stream \in LineStreams /\ offset \in DOMAIN stream.sectionAt
    BY <1>2 DEF IInv, WalkInv
  <2>2. IsLineStream(stream)  BY <2>1, LineStreamsAssumption
  <2> SUFFICES ASSUME NEW q \in DOMAIN stream.sectionAt,
                      stream.sectionAt[q].kind = "S_FILECHECKSUMS", q < offset'
               PROVE  moduleFileChecksumHeader = q + SizeOfSubsectionHeader
    BY <1>2 DEF ChecksumsInv
  <2>3. ~ (offset < q)
    <3>1. offset < q => offset' <= q  BY <1>1, <2>1, <2>2 DEF IsLineStream
    <3>2. q \in Nat  BY <2>1, SectionOffsets
    <3>3. offset' \in Nat  BY <1>1 DEF WalkInv
    <3> QED  BY <3>1, <3>2, <3>3
  <2>4. q \in Nat /\ offset \in Nat  BY <2>1, SectionOffsets
  <2>5. q < offset \/ (q = offset /\ inSection)  BY <1>2, <2>3, <2>4
  <2> QED  BY <2>5 DEF IInv, ChecksumsInv, Opened
<1>6. FilesInv'
  <2>1. Pending' = Pending  BY DEF Pending
  <2> QED  BY <1>2, <2>1, FilesStay DEF IInv
<1>7. CoverInv'  BY CoverStays DEF IInv
<1> QED  BY <1>1, <1>3, <1>4, <1>5, <1>6, <1>7 DEF IInv

LEMMA StartAssigningStep ==
  ASSUME IInv, StartAssigning
  PROVE  IInv'
<1> USE DEF StartAssigning, lineStreamVars
<1>1. WalkInv'  BY DEF IInv, WalkInv, SectionEnds
<1>2. ModuleInv'  BY DEF IInv, ModuleInv, Opened, AtEnd
<1>3. TypeInv'  BY DEF IInv, TypeInv
<1>4. ChecksumsInv'  BY DEF IInv, ChecksumsInv, Opened
<1>5. FilesInv'
  <2>1. Pending' = Pending  BY DEF Pending
  <2> QED  BY <2>1, FilesStay DEF IInv
<1>6. CoverInv'  BY CoverStays DEF IInv
<1> QED  BY <1>1, <1>2, <1>3, <1>4, <1>5, <1>6 DEF IInv

LEMMA NextModuleStep ==
  ASSUME IInv, NextModule
  PROVE  IInv'
<1> USE DEF NextModule, lineStreamVars
<1>1. WalkInv'  BY DEF IInv, WalkInv, SectionEnds
<1>2. ModuleInv'
  <2>1. Len(program) \in Nat /\ module \in 1 .. Len(program)
    BY ProgramFacts DEF IInv, ModuleInv, Opened
  <2> QED  BY <2>1 DEF IInv, ModuleInv, Opened
<1>3. TypeInv'  BY DEF IInv, TypeInv
<1>4. ChecksumsInv'  BY DEF ChecksumsInv, Opened
<1>5. FilesInv'
  <2>1. Len(filenames) \in Nat /\ filename \in Nat  BY DEF IInv, TypeInv
  <2>2. Pending = filename .. Len(filenames)  BY DEF Pending
  <2>3. Pending = {}  BY <2>1, <2>2
  <2>4. Pending' = {}  BY DEF Pending
  <2> QED  BY <2>3, <2>4, FilesStay DEF IInv
<1>6. CoverInv'  BY CoverStays DEF IInv
<1> QED  BY <1>1, <1>2, <1>3, <1>4, <1>5, <1>6 DEF IInv

-----------------------------------------------------------------------------
(* Files are resolved when the module is done.                             *)

\* All sections have been passed, the one of checksums among them: what its start
\* and the offset of the file lead to is the name of the file.
LEMMA ChecksumIsFound ==
  ASSUME IInv, pc = "assign", NEW f \in DOMAIN filenames, NEW name, FoundAt(f, name)
  PROVE  FilenameAt(ChecksumHeader(filenames[f])) = name
<1>1. module \in DOMAIN program /\ stream = program[module] /\ offset >= stream.size
  BY DEF IInv, ModuleInv, Opened
<1>2. stream \in LineStreams /\ IsModule(stream)  BY <1>1, ProgramFacts DEF IInv
<1>3. PICK q \in DOMAIN stream.sectionAt :
        /\ stream.sectionAt[q].kind = "S_FILECHECKSUMS"
        /\ q + SizeOfSubsectionHeader + filenames[f].fileChecksumOffset \in stream.itemsOf[q]
        /\ HasFilename(stream, q + SizeOfSubsectionHeader + filenames[f].fileChecksumOffset)
        /\ stream.itemAt[q + SizeOfSubsectionHeader
                           + filenames[f].fileChecksumOffset].filenameOffset = name
  BY DEF FoundAt
<1>4. q < offset
  <2>1. q \in Nat /\ q < stream.size  BY <1>2, SectionOffsets
  <2>2. stream.size \in Nat /\ offset \in Nat
    BY <1>2, LineStreamsAssumption DEF IsLineStream, IInv, WalkInv
  <2> QED  BY <1>1, <2>1, <2>2
<1>5. moduleFileChecksumHeader = q + SizeOfSubsectionHeader
  BY <1>3, <1>4 DEF IInv, ChecksumsInv, Opened
<1> DEFINE checksum == q + SizeOfSubsectionHeader + filenames[f].fileChecksumOffset
<1>6. ChecksumHeader(filenames[f]) = checksum  BY <1>5 DEF ChecksumHeader
<1>7. checksum \in DOMAIN stream.itemAt
  BY <1>2, <1>3, LineStreamsAssumption DEF IsLineStream, IsSection
<1>8. HasFilename(stream, checksum)  BY <1>3
<1>9. stream.itemAt[checksum].filenameOffset = name  BY <1>3
<1> HIDE DEF checksum
<1> QED  BY <1>6, <1>7, <1>8, <1>9 DEF FilenameAt

LEMMA AssignChecksumStep ==
  ASSUME IInv, AssignChecksum
  PROVE  IInv'
<1> USE DEF AssignChecksum, lineStreamVars
<1> DEFINE found == FilenameAt(ChecksumHeader(filenames[filename]))
<1>1. WalkInv'  BY DEF IInv, WalkInv, SectionEnds
<1>2. ModuleInv'  BY DEF IInv, ModuleInv, Opened
<1>3. found \in Int
  <2>1. IsModule(stream)  BY ProgramFacts DEF IInv, ModuleInv, Opened
  <2>2. found = Garbage \/ found \in Nat  BY <2>1 DEF FilenameAt, IsModule
  <2> QED  BY <2>2 DEF Garbage
<1>4. /\ filename \in DOMAIN filenames /\ Len(filenames) \in Nat
      /\ DOMAIN filenames = 1 .. Len(filenames)
      /\ filenames[filename] \in [fileChecksumOffset : Nat, namesFilenameOffset : Int]
  <2> DEFINE Records == [fileChecksumOffset : Nat, namesFilenameOffset : Int]
  <2>1. filenames \in Seq(Records)  BY DEF IInv, TypeInv
  <2> HIDE DEF Records
  <2>2. filename \in Nat \ {0} /\ filename <= Len(filenames)  BY DEF IInv, TypeInv
  <2>3. Len(filenames) \in Nat /\ DOMAIN filenames = 1 .. Len(filenames)  BY <2>1
  <2>4. filename \in DOMAIN filenames  BY <2>2, <2>3
  <2>5. filenames[filename] \in Records  BY <2>1, <2>4
  <2> QED  BY <2>3, <2>4, <2>5 DEF Records
<1> HIDE DEF found
<1>5. filenames' = [filenames EXCEPT ![filename].namesFilenameOffset = found]  BY DEF found
<1>6. /\ DOMAIN filenames' = DOMAIN filenames /\ Len(filenames') = Len(filenames)
      /\ filenames' \in Seq([fileChecksumOffset : Nat, namesFilenameOffset : Int])
      /\ \A f \in DOMAIN filenames : f # filename => filenames'[f] = filenames[f]
      /\ filenames'[filename].namesFilenameOffset = found
  <2> DEFINE Records == [fileChecksumOffset : Nat, namesFilenameOffset : Int]
  <2>1. [filenames[filename] EXCEPT !.namesFilenameOffset = found] \in Records
    BY <1>3, <1>4
  <2>2. [filenames[filename] EXCEPT !.namesFilenameOffset = found].namesFilenameOffset = found
    BY <1>4
  <2> DEFINE r == [filenames[filename] EXCEPT !.namesFilenameOffset = found]
  <2>3. filenames' = [filenames EXCEPT ![filename] = r]  BY <1>5
  <2>4. r \in Records /\ r.namesFilenameOffset = found  BY <2>1, <2>2
  <2>5. filenames \in Seq(Records)  BY DEF IInv, TypeInv
  <2> HIDE DEF r, Records
  <2>6. filenames' \in Seq(Records) /\ Len(filenames') = Len(filenames)
    BY <1>4, <2>3, <2>4, <2>5
  <2>7. filenames'[filename] = r  BY <1>4, <2>3
  <2> QED  BY <1>4, <2>3, <2>4, <2>6, <2>7 DEF Records
<1>7. TypeInv'  BY <1>6 DEF IInv, TypeInv
<1>8. ChecksumsInv'  BY DEF IInv, ChecksumsInv, Opened
<1>9. FilesInv'
  <2> SUFFICES ASSUME NEW n \in DOMAIN lines
               PROVE  /\ IsNumber(lines[n].lineNumber)'
                      /\ lines[n].filenameIndex \in DOMAIN filenames'
                      /\ Resolved(lines[n].filenameIndex, Truth(lines[n].lineNumber).file)'
    BY DEF FilesInv
  <2> DEFINE f == lines[n].filenameIndex
             name == Truth(lines[n].lineNumber).file
  <2>1. IsNumber(lines[n].lineNumber) /\ f \in DOMAIN filenames /\ Resolved(f, name)
    BY DEF IInv, FilesInv
  <2>2. IsNumber(lines[n].lineNumber)'  BY <2>1 DEF IsNumber
  <2>3. name' = name /\ f' = f  BY DEF Truth
  <2>4. /\ Pending = filename .. Len(filenames)
        /\ Pending' = (filename + 1) .. Len(filenames)
    BY <1>6 DEF Pending
  <2>5. f \in Nat /\ filename \in Nat  BY <1>4, <2>1
  <2>6. CASE f = filename
    <3>1. f \in Pending /\ f \notin Pending'  BY <1>4, <2>4, <2>5, <2>6
    <3>2. FoundAt(f, name)  BY <2>1, <3>1 DEF Resolved
    <3>3. found = name  BY <2>1, <2>6, <3>2, ChecksumIsFound DEF found
    <3>4. filenames'[f].namesFilenameOffset = name  BY <1>6, <2>6, <3>3
    <3>5. Resolved(f, name)'  BY <2>3, <3>1, <3>4 DEF Resolved
    <3> QED  BY <1>6, <2>1, <2>2, <3>5
  <2>7. CASE f # filename
    <3>1. f \in Pending <=> f \in Pending'  BY <1>4, <2>4, <2>5, <2>7
    <3>2. filenames'[f] = filenames[f]  BY <1>6, <2>1, <2>7
    <3>3. FoundAt(f, name)' = FoundAt(f, name)  BY <2>3, <3>2 DEF FoundAt
    <3>4. Resolved(f, name)'  BY <2>1, <2>3, <3>1, <3>2, <3>3 DEF Resolved
    <3> QED  BY <1>6, <2>1, <2>2, <3>4
  <2> QED  BY <2>6, <2>7
<1>10. CoverInv'  BY CoverStays DEF IInv
<1> QED  BY <1>1, <1>2, <1>7, <1>8, <1>9, <1>10 DEF IInv

-----------------------------------------------------------------------------
(* A block of lines is added to the three vectors.                         *)

\* What follows the entries there are.
LEMMA Appended ==
  ASSUME NEW S, NEW s \in Seq(S), NEW t \in Seq(S)
  PROVE  /\ s \o t \in Seq(S) /\ Len(s \o t) = Len(s) + Len(t)
         /\ \A k \in DOMAIN s : k \in DOMAIN (s \o t) /\ (s \o t)[k] = s[k]
         /\ \A j \in 1 .. Len(t) : (s \o t)[Len(s) + j] = t[j]
         /\ \A k \in DOMAIN (s \o t) : k \in DOMAIN s \/ \E j \in 1 .. Len(t) : k = Len(s) + j
<1>1. s \o t \in Seq(S) /\ Len(s \o t) = Len(s) + Len(t)  OBVIOUS
<1>2. /\ Len(s) \in Nat /\ Len(t) \in Nat /\ DOMAIN s = 1 .. Len(s)
      /\ DOMAIN (s \o t) = 1 .. (Len(s) + Len(t))
  BY <1>1
<1>3. \A k \in DOMAIN s : k \in DOMAIN (s \o t) /\ (s \o t)[k] = s[k]  BY <1>2
<1>4. \A j \in 1 .. Len(t) : (s \o t)[Len(s) + j] = t[j]  BY <1>2
<1>5. ASSUME NEW k \in DOMAIN (s \o t), k \notin DOMAIN s
      PROVE  \E j \in 1 .. Len(t) : k = Len(s) + j
  <2>1. k - Len(s) \in 1 .. Len(t) /\ k = Len(s) + (k - Len(s))  BY <1>2, <1>5
  <2> QED  BY <2>1
<1> QED  BY <1>1, <1>3, <1>4, <1>5

NewSections == [k \in 1 .. Item.numLines |->
                  [index |-> Section.sectionIndex, offset |-> SectionOffset(k),
                   lineIndex |-> Len(lines) + k]]
NewLines == [k \in 1 .. Item.numLines |->
               [lineNumber |-> Item.lines[k].linenumStart, codeSize |-> CodeSize(k),
                filenameIndex |-> FilenameIndex]]
NewFilename == [fileChecksumOffset |-> Item.fileChecksumOffset,
                namesFilenameOffset |-> nullptr]

\* The fields of a line, as the compiler wrote them.
LEMMA LineFields ==
  ASSUME IInv, pc = "sections", CallbackWithItem({"S_LINES"}),
         NEW k \in 1 .. Item.numLines
  PROVE  /\ Item.numLines \in Nat
         /\ Item.lines[k].offset \in Nat /\ Item.lines[k].linenumStart \in Nat
         /\ Item.lines[k].linenumStart \in DOMAIN stream.truth
         /\ k < Item.numLines => Item.lines[k + 1].offset \in Nat
         /\ SectionOffset(k) \in Nat /\ CodeSize(k) \in Int
<1>1. IsBlock(stream, offset, itemOffset) /\ IsModule(stream)
      /\ Section.sectionOffset \in Nat /\ Section.codeSize \in Nat
  BY BlockFacts
<1>2. /\ Item.numLines \in Nat
      /\ Item.lines \in [1 .. Item.numLines -> [offset : Nat, linenumStart : DOMAIN stream.truth]]
  BY <1>1 DEF IsBlock, Item
<1>3. \A l \in 1 .. Item.numLines : /\ Item.lines[l].offset \in Nat
                                    /\ Item.lines[l].linenumStart \in DOMAIN stream.truth
  BY <1>2
<1>4. Item.lines[k].linenumStart \in Nat  BY <1>1, <1>3 DEF IsModule
<1>5. k < Item.numLines => k + 1 \in 1 .. Item.numLines  BY <1>2
<1>6. k < Item.numLines => Item.lines[k + 1].offset \in Nat  BY <1>3, <1>5
<1>7. SectionOffset(k) \in Nat  BY <1>1, <1>3 DEF SectionOffset
<1>8. CodeSize(k) \in Int  BY <1>1, <1>3, <1>6 DEF CodeSize
<1> QED  BY <1>2, <1>3, <1>4, <1>6, <1>7, <1>8

\* A new line has the file of its block, whose checksum is found once the module
\* is done.
LEMMA NewLineFile ==
  ASSUME IInv, pc = "sections", CallbackWithItem({"S_LINES"}),
         NEW k \in 1 .. Item.numLines
  PROVE  /\ IsNumber(Item.lines[k].linenumStart)
         /\ \E q \in DOMAIN stream.sectionAt :
              LET checksum == q + SizeOfSubsectionHeader + Item.fileChecksumOffset
              IN  /\ stream.sectionAt[q].kind = "S_FILECHECKSUMS"
                  /\ checksum \in stream.itemsOf[q] /\ HasFilename(stream, checksum)
                  /\ stream.itemAt[checksum].filenameOffset
                       = Truth(Item.lines[k].linenumStart).file
<1>1. IsBlock(stream, offset, itemOffset) /\ module \in DOMAIN program
      /\ stream = program[module]
  BY BlockFacts
<1>2. Item.lines[k].linenumStart \in DOMAIN stream.truth  BY LineFields
<1>3. /\ IsNumber(Item.lines[k].linenumStart)
      /\ Truth(Item.lines[k].linenumStart) = stream.truth[Item.lines[k].linenumStart]
  BY <1>1, <1>2, TruthIs DEF IInv
<1> QED  BY <1>1, <1>3 DEF IsBlock, Item

\* A new entry has the address of its line, and the line the size of its code.
LEMMA NewLineCode ==
  ASSUME IInv, pc = "sections", CallbackWithItem({"S_LINES"}),
         NEW k \in 1 .. Item.numLines
  PROVE  Covers(NewSections[k], NewLines[k])
<1> DEFINE truth == Truth(Item.lines[k].linenumStart)
           begin == Section.sectionOffset
<1>1. /\ IsBlock(stream, offset, itemOffset) /\ module \in DOMAIN program
      /\ stream = program[module] /\ IsModule(stream)
      /\ begin \in Nat /\ Section.codeSize \in Nat
  BY BlockFacts
<1>2. /\ Item.numLines \in Nat
      /\ Item.lines[k].offset \in Nat
      /\ Item.lines[k].linenumStart \in DOMAIN stream.truth
      /\ k < Item.numLines => Item.lines[k + 1].offset \in Nat
  BY LineFields
<1>3. truth = stream.truth[Item.lines[k].linenumStart]  BY <1>1, <1>2, TruthIs DEF IInv
<1> SUFFICES ASSUME truth.onlyBlock
             PROVE  /\ Section.sectionIndex = truth.section
                    /\ SectionOffset(k) = truth.address /\ CodeSize(k) = truth.codeSize
  BY DEF Covers, NewSections, NewLines
<1>4. CoversCode(stream, offset, Item)  BY <1>1, <1>3 DEF IsBlock, Item
<1>5. /\ truth.section = Section.sectionIndex
      /\ truth.address = begin + Item.lines[k].offset
      /\ k = 1 => truth.address = begin
      /\ truth.address + truth.codeSize
           = IF k < Item.numLines THEN begin + Item.lines[k + 1].offset
                                  ELSE begin + Section.codeSize
  BY <1>3, <1>4 DEF CoversCode, Section
<1>6. truth.address \in Nat /\ truth.codeSize \in Nat  BY <1>1, <1>2, <1>3 DEF IsModule
<1> HIDE DEF truth
<1>7. SectionOffset(k) = truth.address  BY <1>5 DEF SectionOffset
<1>8. CodeSize(k) = truth.codeSize  BY <1>1, <1>2, <1>5, <1>6 DEF CodeSize
<1> QED  BY <1>5, <1>7, <1>8

LEMMA LinesBlockStep ==
  ASSUME IInv, LinesBlock
  PROVE  IInv'
<1> USE DEF LinesBlock
<1>1. WalkInv'  BY CallbackWalk DEF IInv
<1>2. UNCHANGED <<stream, offset, inSection>>  BY DEF CallbackWithItem
<1>3. ModuleInv'  BY <1>2 DEF IInv, ModuleInv, Opened
<1>4. ChecksumsInv'  BY <1>2 DEF IInv, ChecksumsInv, Opened
<1>5. CASE Item.numLines = 0
  <2>1. UNCHANGED <<filenames, sections, lines>>  BY <1>5
  <2>2. TypeInv'  BY <2>1 DEF IInv, TypeInv
  <2>3. FilesInv'
    <3>1. Pending' = Pending  BY <2>1 DEF Pending
    <3> QED  BY <1>2, <2>1, <3>1, FilesStay DEF IInv
  <2>4. CoverInv'  BY <2>1, CoverStays DEF IInv
  <2> QED  BY <1>1, <1>3, <1>4, <2>2, <2>3, <2>4 DEF IInv
<1>6. CASE Item.numLines # 0
  <2> DEFINE Filenames == [fileChecksumOffset : Nat, namesFilenameOffset : Int]
             Sections == [index : Nat, offset : Nat, lineIndex : Nat]
             Lines == [lineNumber : Nat, codeSize : Int, filenameIndex : Nat]
             n == Item.numLines
  <2>1. /\ filenames' = Append(filenames, NewFilename)
        /\ sections' = sections \o NewSections
        /\ lines' = lines \o NewLines
    BY <1>6 DEF NewFilename, NewSections, NewLines
  <2>2. IsBlock(stream, offset, itemOffset)  BY BlockFacts
  <2>3. n \in Nat /\ Item.fileChecksumOffset \in Nat  BY <2>2 DEF IsBlock, Item
  <2>4. /\ filenames \in Seq(Filenames) /\ sections \in Seq(Sections) /\ lines \in Seq(Lines)
        /\ Len(filenames) \in Nat /\ Len(lines) \in Nat
    BY DEF IInv, TypeInv
  <2>5. NewFilename \in Filenames  BY <2>3 DEF NewFilename, nullptr
  <2>6. NewSections \in [1 .. n -> Sections]
    <3> SUFFICES ASSUME NEW k \in 1 .. n
                 PROVE  [index |-> Section.sectionIndex, offset |-> SectionOffset(k),
                         lineIndex |-> Len(lines) + k] \in Sections
      BY DEF NewSections
    <3>1. SectionOffset(k) \in Nat /\ Section.sectionIndex \in Nat
      BY LineFields, BlockFacts
    <3>2. Len(lines) + k \in Nat  BY <2>3, <2>4
    <3> QED  BY <3>1, <3>2
  <2>7. NewLines \in [1 .. n -> Lines]
    <3> SUFFICES ASSUME NEW k \in 1 .. n
                 PROVE  [lineNumber |-> Item.lines[k].linenumStart, codeSize |-> CodeSize(k),
                         filenameIndex |-> FilenameIndex] \in Lines
      BY DEF NewLines
    <3>1. Item.lines[k].linenumStart \in Nat /\ CodeSize(k) \in Int  BY LineFields
    <3>2. FilenameIndex \in Nat  BY <2>4 DEF FilenameIndex
    <3> QED  BY <3>1, <3>2
  <2> HIDE DEF Filenames, Sections, Lines, n
  <2>8. /\ filenames' \in Seq(Filenames) /\ Len(filenames') = Len(filenames) + 1
        /\ filenames'[Len(filenames) + 1] = NewFilename
        /\ \A f \in DOMAIN filenames : f \in DOMAIN filenames' /\ filenames'[f] = filenames[f]
        /\ Len(filenames) + 1 \in DOMAIN filenames'
        /\ DOMAIN filenames = 1 .. Len(filenames)
    BY <2>1, <2>4, <2>5
  <2>9. /\ sections' \in Seq(Sections) /\ Len(sections') = Len(sections) + n
        /\ \A k \in DOMAIN sections : sections'[k] = sections[k]
        /\ \A k \in 1 .. n : sections'[Len(sections) + k] = NewSections[k]
    <3>1. NewSections \in Seq(Sections) /\ Len(NewSections) = n  BY <2>3, <2>6
    <3>2. sections' = sections \o NewSections /\ sections \in Seq(Sections)  BY <2>1, <2>4
    <3> HIDE DEF LinesBlock
    <3>3. sections' \in Seq(Sections) /\ Len(sections') = Len(sections) + n
      BY <3>1, <3>2, Appended
    <3>4. \A k \in DOMAIN sections : sections'[k] = sections[k]  BY <3>1, <3>2, Appended
    <3>5. \A k \in 1 .. n : sections'[Len(sections) + k] = NewSections[k]
      BY <3>1, <3>2, Appended
    <3> QED  BY <3>3, <3>4, <3>5
  <2>10. /\ lines' \in Seq(Lines) /\ Len(lines') = Len(lines) + n
         /\ \A k \in DOMAIN lines : k \in DOMAIN lines' /\ lines'[k] = lines[k]
         /\ \A k \in 1 .. n : lines'[Len(lines) + k] = NewLines[k]
         /\ \A i \in DOMAIN lines' : i \in DOMAIN lines \/ \E k \in 1 .. n : i = Len(lines) + k
    <3>1. NewLines \in Seq(Lines) /\ Len(NewLines) = n  BY <2>3, <2>7
    <3>2. lines' = lines \o NewLines /\ lines \in Seq(Lines)  BY <2>1, <2>4
    <3> HIDE DEF LinesBlock
    <3>3. lines' \in Seq(Lines) /\ Len(lines') = Len(lines) + n  BY <3>1, <3>2, Appended
    <3>4. \A k \in DOMAIN lines : k \in DOMAIN lines' /\ lines'[k] = lines[k]
      BY <3>1, <3>2, Appended
    <3>5. \A k \in 1 .. n : lines'[Len(lines) + k] = NewLines[k]  BY <3>1, <3>2, Appended
    <3>6. \A i \in DOMAIN lines' : i \in DOMAIN lines \/ \E k \in 1 .. n : i = Len(lines) + k
      BY <3>1, <3>2, Appended
    <3> QED  BY <3>3, <3>4, <3>5, <3>6
  <2>11. TypeInv'
    BY <2>4, <2>8, <2>9, <2>10 DEF IInv, TypeInv, Filenames, Sections, Lines
  <2>12. FilesInv'
    <3>1. /\ Pending = moduleFilenamesStartIndex .. Len(filenames)
          /\ Pending' = moduleFilenamesStartIndex .. (Len(filenames) + 1)
          /\ moduleFilenamesStartIndex \in Nat
          /\ moduleFilenamesStartIndex <= Len(filenames) + 1
      BY <2>8 DEF Pending, IInv, TypeInv
    <3> SUFFICES ASSUME NEW i \in DOMAIN lines'
                 PROVE  /\ IsNumber(lines[i].lineNumber)'
                        /\ lines'[i].filenameIndex \in DOMAIN filenames'
                        /\ Resolved(lines[i].filenameIndex, Truth(lines[i].lineNumber).file)'
      BY DEF FilesInv
    <3>2. CASE i \in DOMAIN lines
      <4> DEFINE f == lines[i].filenameIndex
                 name == Truth(lines[i].lineNumber).file
      <4>1. IsNumber(lines[i].lineNumber) /\ f \in DOMAIN filenames /\ Resolved(f, name)
        BY <3>2 DEF IInv, FilesInv
      <4>2. lines'[i] = lines[i]  BY <2>10, <3>2
      <4>3. IsNumber(lines[i].lineNumber)'  BY <4>1, <4>2 DEF IsNumber
      <4>4. name' = name /\ f' = f  BY <4>2 DEF Truth
      <4>5. f \in Pending <=> f \in Pending'  BY <2>4, <2>8, <3>1, <4>1
      <4>6. filenames'[f] = filenames[f] /\ f \in DOMAIN filenames'  BY <2>8, <4>1
      <4>7. FoundAt(f, name)' = FoundAt(f, name)  BY <1>2, <4>4, <4>6 DEF FoundAt
      <4>8. Resolved(f, name)'  BY <4>1, <4>4, <4>5, <4>6, <4>7 DEF Resolved
      <4> QED  BY <4>3, <4>4, <4>6, <4>8
    <3>3. CASE \E k \in 1 .. n : i = Len(lines) + k
      <4>1. PICK k \in 1 .. n : i = Len(lines) + k  BY <3>3
      <4>0. PICK number : number = Item.lines[k].linenumStart  OBVIOUS
      <4>2. /\ lines'[i].lineNumber = number
            /\ lines'[i].filenameIndex = Len(filenames) + 1
        <5>1. lines'[i] = NewLines[k]  BY <2>10, <4>1
        <5> QED  BY <4>0, <5>1 DEF NewLines, FilenameIndex, n
      <4>3. Truth(number)' = Truth(number) /\ IsNumber(number)' = IsNumber(number)
        BY DEF Truth, IsNumber
      <4>4. IsNumber(number) /\ \E q \in DOMAIN stream.sectionAt :
              LET checksum == q + SizeOfSubsectionHeader + Item.fileChecksumOffset
              IN  /\ stream.sectionAt[q].kind = "S_FILECHECKSUMS"
                  /\ checksum \in stream.itemsOf[q] /\ HasFilename(stream, checksum)
                  /\ stream.itemAt[checksum].filenameOffset = Truth(number).file
        BY <4>0, NewLineFile DEF n
      <4>5. Len(filenames) + 1 \in Pending'  BY <2>4, <3>1
      <4>6. filenames'[Len(filenames) + 1].fileChecksumOffset = Item.fileChecksumOffset
        BY <2>8 DEF NewFilename
      <4>7. FoundAt(lines[i].filenameIndex, Truth(number).file)'
        BY <1>2, <4>2, <4>3, <4>4, <4>6 DEF FoundAt
      <4>8. Resolved(lines[i].filenameIndex, Truth(number).file)'
        BY <4>2, <4>5, <4>7 DEF Resolved
      <4> QED  BY <2>8, <4>2, <4>3, <4>4, <4>8
    <3> QED  BY <2>10, <3>2, <3>3
  <2>13. CoverInv'
    <3>1. DOMAIN sections = DOMAIN lines /\ Len(sections) = Len(lines)
      BY <2>4 DEF IInv, CoverInv
    <3>2. DOMAIN sections' = DOMAIN lines'  BY <2>9, <2>10, <3>1
    <3>3. ASSUME NEW i \in DOMAIN sections'
          PROVE  sections'[i].lineIndex = i /\ Covers(sections[i], lines[i])'
      <4>1. CASE i \in DOMAIN lines
        <5>1. sections'[i] = sections[i] /\ lines'[i] = lines[i]
          BY <2>9, <2>10, <3>1, <4>1
        <5>2. sections[i].lineIndex = i /\ Covers(sections[i], lines[i])
          BY <3>1, <4>1 DEF IInv, CoverInv
        <5> QED  BY <5>1, <5>2 DEF Covers, Truth
      <4>2. CASE \E k \in 1 .. n : i = Len(lines) + k
        <5>1. PICK k \in 1 .. n : i = Len(lines) + k  BY <4>2
        <5>2. sections'[i] = NewSections[k] /\ lines'[i] = NewLines[k]
          BY <2>9, <2>10, <3>1, <5>1
        <5>3. Covers(NewSections[k], NewLines[k])  BY NewLineCode DEF n
        <5>4. NewSections[k].lineIndex = i  BY <5>1 DEF NewSections, n
        <5> QED  BY <5>2, <5>3, <5>4 DEF Covers, Truth
      <4> QED  BY <2>10, <3>2, <3>3, <4>1, <4>2
    <3> QED  BY <3>2, <3>3 DEF CoverInv, LinesCoverCode
  <2> QED  BY <1>1, <1>3, <1>4, <2>11, <2>12, <2>13 DEF IInv
<1> QED  BY <1>5, <1>6

-----------------------------------------------------------------------------
(* Sorting: the entries are totally ordered, so each has a place of its    *)
(* own and each place an entry.                                            *)

IsOrder(order) == order \in Bijection(Tied, Tied)

LEMMA SectionsTyped ==
  ASSUME TypeInv
  PROVE  /\ Len(sections) \in Nat /\ DOMAIN sections = 1 .. Len(sections)
         /\ \A i \in DOMAIN sections : sections[i].index \in Nat /\ sections[i].offset \in Nat
         /\ Tied \subseteq DOMAIN sections
<1> DEFINE Sections == [index : Nat, offset : Nat, lineIndex : Nat]
<1>1. sections \in Seq(Sections)  BY DEF TypeInv
<1>2. \A r \in Sections : r.index \in Nat /\ r.offset \in Nat  OBVIOUS
<1> HIDE DEF Sections
<1>3. Len(sections) \in Nat /\ DOMAIN sections = 1 .. Len(sections)  BY <1>1
<1>4. \A i \in DOMAIN sections : sections[i] \in Sections  BY <1>1, <1>3
<1> QED  BY <1>2, <1>3, <1>4 DEF Tied

\* Neither of two entries is less than the other at the same address only.
SameAddress(lhs, rhs) == lhs.index = rhs.index /\ lhs.offset = rhs.offset

LEMMA LessIsStrict ==
  ASSUME TypeInv, NEW i \in DOMAIN sections, NEW j \in DOMAIN sections
  PROVE  /\ ~ Less(sections[i], sections[i])
         /\ Less(sections[i], sections[j]) => ~ Less(sections[j], sections[i])
         /\ ~ Less(sections[i], sections[j]) /\ ~ Less(sections[j], sections[i])
              <=> SameAddress(sections[i], sections[j])
  BY SectionsTyped DEF Less, SameAddress

LEMMA LessIsTransitive ==
  ASSUME TypeInv,
         NEW i \in DOMAIN sections, NEW j \in DOMAIN sections, NEW k \in DOMAIN sections,
         Less(sections[i], sections[j]) \/ SameAddress(sections[i], sections[j]),
         Less(sections[j], sections[k]) \/ SameAddress(sections[j], sections[k])
  PROVE  /\ Less(sections[i], sections[k]) \/ SameAddress(sections[i], sections[k])
         /\ SameAddress(sections[i], sections[k]) => SameAddress(sections[i], sections[j])
                                                   /\ SameAddress(sections[j], sections[k])
  BY SectionsTyped DEF Less, SameAddress

\* Entries at the same address are all numbered, each with a number of its own.
LEMMA TiedNumbered ==
  ASSUME TypeInv, NEW order, IsOrder(order),
         NEW i \in DOMAIN sections, NEW j \in DOMAIN sections,
         i # j, SameAddress(sections[i], sections[j])
  PROVE  order[i] \in Nat /\ order[j] \in Nat /\ order[i] # order[j]
<1>1. i \in Tied /\ j \in Tied  BY LessIsStrict DEF Tied
<1>2. \A k \in Tied : k \in Nat  BY SectionsTyped
<1>3. order \in [Tied -> Tied] /\ (order[i] = order[j] => i = j)
  BY <1>1 DEF IsOrder, Bijection, Injection, IsInjective
<1> QED  BY <1>1, <1>2, <1>3

LEMMA BeforeIsTotal ==
  ASSUME TypeInv, NEW order, IsOrder(order),
         NEW i \in DOMAIN sections, NEW j \in DOMAIN sections
  PROVE  /\ i # j => Before(order, i, j) \/ Before(order, j, i)
         /\ ~ Before(order, i, i)
<1>1. ~ Before(order, i, i)  BY LessIsStrict DEF Before
<1>2. CASE SameAddress(sections[i], sections[j])
  <2>1. ~ Less(sections[i], sections[j]) /\ ~ Less(sections[j], sections[i])
    BY <1>2, LessIsStrict
  <2>2. i # j => /\ order[i] \in Nat /\ order[j] \in Nat /\ order[i] # order[j]
    BY <1>2, TiedNumbered
  <2> QED  BY <1>1, <2>1, <2>2 DEF Before
<1>3. CASE ~ SameAddress(sections[i], sections[j])
  BY <1>1, <1>3, LessIsStrict DEF Before
<1> QED  BY <1>2, <1>3

LEMMA BeforeIsTransitive ==
  ASSUME TypeInv, NEW order, IsOrder(order),
         NEW i \in DOMAIN sections, NEW j \in DOMAIN sections, NEW k \in DOMAIN sections,
         Before(order, i, j), Before(order, j, k)
  PROVE  Before(order, i, k)
<1>1. /\ Less(sections[i], sections[j]) \/ SameAddress(sections[i], sections[j])
      /\ Less(sections[j], sections[k]) \/ SameAddress(sections[j], sections[k])
  BY LessIsStrict DEF Before
<1>2. CASE Less(sections[i], sections[k])  BY <1>2 DEF Before
<1>3. CASE ~ Less(sections[i], sections[k])
  <2>1. /\ SameAddress(sections[i], sections[j]) /\ SameAddress(sections[j], sections[k])
        /\ SameAddress(sections[i], sections[k])
    BY <1>1, <1>3, LessIsTransitive
  <2>2. ~ Less(sections[i], sections[j]) /\ ~ Less(sections[j], sections[k])
        /\ ~ Less(sections[k], sections[i])
    BY <2>1, LessIsStrict
  <2>3. i # j /\ order[i] < order[j] /\ j # k /\ order[j] < order[k]
    BY <2>2 DEF Before
  <2>4. order[i] \in Nat /\ order[j] \in Nat /\ order[k] \in Nat
    BY <2>1, <2>3, TiedNumbered
  <2>5. order[i] < order[k] /\ i # k  BY <2>3, <2>4
  <2> QED  BY <2>2, <2>5 DEF Before
<1> QED  BY <1>2, <1>3

\* An entry has fewer in front of it than one that comes later.
LEMMA PlacesGrow ==
  ASSUME TypeInv, NEW order, IsOrder(order),
         NEW i \in DOMAIN sections, NEW j \in DOMAIN sections, Before(order, i, j)
  PROVE  Place(order, i) < Place(order, j)
<1> DEFINE D == DOMAIN sections
           InFront(k) == {l \in D : Before(order, l, k)}
<1>1. IsFiniteSet(D)  BY SectionsTyped, FS_Interval
<1>2. IsFiniteSet(InFront(i)) /\ IsFiniteSet(InFront(j))
  <2>1. InFront(i) \in SUBSET D /\ InFront(j) \in SUBSET D  OBVIOUS
  <2> QED  BY <1>1, <2>1, FS_Subset
<1>3. i \notin InFront(i)  BY BeforeIsTotal
<1>4. InFront(i) \cup {i} \in SUBSET InFront(j)  BY BeforeIsTransitive
<1>5. Cardinality(InFront(i)) \in Nat /\ Cardinality(InFront(j)) \in Nat
  BY <1>2, FS_CardinalityType
<1>6. Cardinality(InFront(i) \cup {i}) = Cardinality(InFront(i)) + 1
  BY <1>2, <1>3, FS_AddElement
<1>7. Cardinality(InFront(i) \cup {i}) <= Cardinality(InFront(j))
  BY <1>2, <1>4, FS_Subset
<1>8. /\ Place(order, i) = 1 + Cardinality(InFront(i))
      /\ Place(order, j) = 1 + Cardinality(InFront(j))
  BY DEF Place
<1> HIDE DEF InFront
<1> QED  BY <1>5, <1>6, <1>7, <1>8

LEMMA FromOneTo ==
  ASSUME NEW n \in Nat
  PROVE  IsFiniteSet(1 .. n) /\ Cardinality(1 .. n) = n
<1>1. IsFiniteSet(1 .. n)  BY FS_Interval
<1>2. Cardinality(1 .. n) = IF 1 > n THEN 0 ELSE n - 1 + 1  BY FS_Interval
<1> QED  BY <1>1, <1>2

\* So every place is taken, by one entry.
LEMMA PlacesTaken ==
  ASSUME TypeInv, NEW order, IsOrder(order), NEW k \in DOMAIN sections
  PROVE  \E i \in DOMAIN sections : Place(order, i) = k
<1> DEFINE D == DOMAIN sections
           InFront(i) == {l \in D : Before(order, l, i)}
           place == [i \in D |-> Place(order, i)]
<1>1. IsFiniteSet(D) /\ D = 1 .. Len(sections) /\ Len(sections) \in Nat
      /\ Cardinality(D) = Len(sections)
  <2>1. D = 1 .. Len(sections) /\ Len(sections) \in Nat
    <3>1. Len(sections) \in Nat  BY SectionsTyped
    <3>2. D = 1 .. Len(sections)  BY SectionsTyped
    <3> QED  BY <3>1, <3>2
  <2> HIDE DEF D
  <2>2. IsFiniteSet(1 .. Len(sections)) /\ Cardinality(1 .. Len(sections)) = Len(sections)
    BY <2>1, FromOneTo
  <2> QED  BY <2>1, <2>2
<1>2. ASSUME NEW i \in D  PROVE  Place(order, i) \in D
  <2>1. InFront(i) \in SUBSET (D \ {i})  BY BeforeIsTotal
  <2>2. IsFiniteSet(D \ {i}) /\ Cardinality(D \ {i}) = Len(sections) - 1
    BY <1>1, FS_RemoveElement
  <2>3. IsFiniteSet(InFront(i)) /\ Cardinality(InFront(i)) <= Len(sections) - 1
    BY <2>1, <2>2, FS_Subset
  <2>4. Cardinality(InFront(i)) \in Nat  BY <2>3, FS_CardinalityType
  <2>5. Place(order, i) = 1 + Cardinality(InFront(i))  BY DEF Place
  <2> HIDE DEF InFront
  <2> QED  BY <1>1, <2>3, <2>4, <2>5
<1>3. ASSUME NEW i \in D, NEW j \in D, Place(order, i) = Place(order, j)  PROVE  i = j
  <2>1. Place(order, i) \in Nat  BY <1>1, <1>2
  <2>2. ~ (Place(order, i) < Place(order, j)) /\ ~ (Place(order, j) < Place(order, i))
    BY <1>3, <2>1
  <2> QED  BY <2>2, BeforeIsTotal, PlacesGrow
<1>4. place \in Injection(D, D)  BY <1>2, <1>3 DEF Injection, IsInjective
<1> HIDE DEF place
<1>5. place \in Surjection(D, D)  BY <1>1, <1>4, FS_Injection
<1>6. PICK i \in D : place[i] = k  BY <1>5 DEF Surjection
<1> QED  BY <1>6 DEF place

LEMMA SortStep ==
  ASSUME IInv, Sort
  PROVE  IInv'
<1> USE DEF Sort, lineStreamVars
<1> DEFINE D == DOMAIN sections
<1>1. PICK order \in Bijection(Tied, Tied) :
        sections' = [k \in D |-> sections[CHOOSE i \in D : Place(order, i) = k]]
  OBVIOUS
<1>2. TypeInv /\ IsOrder(order)  BY <1>1 DEF IInv, IsOrder
<1> DEFINE at(k) == CHOOSE i \in D : Place(order, i) = k
           Sorted == [k \in D |-> sections[at(k)]]
<1>0. sections' = Sorted  BY <1>1
<1>3. ASSUME NEW k \in D  PROVE  at(k) \in D /\ Place(order, at(k)) = k
  BY <1>2, PlacesTaken
<1> HIDE DEF at
<1>4. DOMAIN sections' = D /\ \A k \in D : sections'[k] = sections[at(k)]
  BY <1>0
<1> HIDE DEF Sorted
<1>5. /\ D = DOMAIN lines
      /\ \A i \in D : sections[i].lineIndex = i /\ Covers(sections[i], lines[i])
  BY DEF IInv, CoverInv
<1>6. ASSUME NEW i \in D, NEW j \in D, i < j
      PROVE  /\ sections'[i].lineIndex # sections'[j].lineIndex
             /\ \/ sections'[i].index < sections'[j].index
                \/ /\ sections'[i].index = sections'[j].index
                   /\ sections'[i].offset <= sections'[j].offset
  <2>1. at(i) \in D /\ at(j) \in D /\ Place(order, at(i)) = i /\ Place(order, at(j)) = j
    BY <1>3
  <2>2. i \in Nat /\ j \in Nat  BY <1>2, SectionsTyped
  <2>3. at(i) # at(j) /\ ~ (Place(order, at(j)) < Place(order, at(i)))
    BY <1>6, <2>1, <2>2
  <2>4. Before(order, at(i), at(j))  BY <1>2, <2>1, <2>3, BeforeIsTotal, PlacesGrow
  <2>5. Less(sections[at(i)], sections[at(j)]) \/ SameAddress(sections[at(i)], sections[at(j)])
    BY <1>2, <2>1, <2>4, LessIsStrict DEF Before
  <2>6. \/ sections[at(i)].index < sections[at(j)].index
        \/ /\ sections[at(i)].index = sections[at(j)].index
           /\ sections[at(i)].offset <= sections[at(j)].offset
    BY <1>2, <2>1, <2>5, SectionsTyped DEF Less, SameAddress
  <2> QED  BY <1>4, <1>5, <2>1, <2>3, <2>6
<1>7. ASSUME NEW i \in D
      PROVE  Covers(sections'[i], lines[sections'[i].lineIndex])
  <2>1. sections'[i] = sections[at(i)] /\ at(i) \in D  BY <1>3, <1>4
  <2>2. sections'[i].lineIndex = at(i)  BY <1>5, <2>1
  <2> QED  BY <1>5, <2>1, <2>2
<1>8. CoverInv'
  <2>1. \A i \in D : Covers(sections'[i], lines[sections'[i].lineIndex])
                       = Covers(sections[i], lines[sections[i].lineIndex])'
    BY DEF Covers, Truth
  <2>2. \A i \in D : Covers(sections[i], lines[sections[i].lineIndex])'  BY <1>7, <2>1
  <2>3. LinesCoverCode'  BY <1>4, <1>5, <1>6, <2>2 DEF LinesCoverCode, Covers
  <2> QED  BY <1>4, <1>5, <2>3 DEF CoverInv
<1>9. TypeInv'
  <2> DEFINE Sections == [index : Nat, offset : Nat, lineIndex : Nat]
  <2>1. sections \in Seq(Sections)  BY DEF IInv, TypeInv
  <2> HIDE DEF Sections
  <2>2. D = 1 .. Len(sections) /\ Len(sections) \in Nat  BY <2>1
  <2>3. sections' = [k \in 1 .. Len(sections) |-> sections[at(k)]]  BY <1>0, <2>2 DEF Sorted
  <2>4. \A k \in 1 .. Len(sections) : sections[at(k)] \in Sections  BY <1>3, <2>1, <2>2
  <2>5. sections' \in Seq(Sections)  BY <2>2, <2>3, <2>4
  <2> QED  BY <2>5 DEF IInv, TypeInv, Sections
<1>10. WalkInv'  BY DEF IInv, WalkInv, SectionEnds
<1>11. ModuleInv'  BY DEF IInv, ModuleInv, Opened
<1>12. ChecksumsInv'  BY DEF ChecksumsInv, Opened
<1>13. FilesInv'
  <2>1. Pending' = Pending  BY DEF Pending
  <2> QED  BY <2>1, FilesStay DEF IInv
<1> QED  BY <1>8, <1>9, <1>10, <1>11, <1>12, <1>13 DEF IInv

-----------------------------------------------------------------------------

LEMMA NextIInv == IInv /\ [Next]_vars => IInv'
<1> SUFFICES ASSUME IInv, [Next]_vars PROVE IInv'  OBVIOUS
<1>1. CASE SkipModule  BY <1>1, SkipModuleStep
<1>2. CASE StartModule  BY <1>2, StartModuleStep
<1>3. CASE EnterLineSection  BY <1>3, EnterLineSectionStep
<1>4. CASE LinesBlock  BY <1>4, LinesBlockStep
<1>5. CASE OtherItem  BY <1>5, OtherItemStep
<1>6. CASE ReturnFromSection  BY <1>6, ReturnFromSectionStep
<1>7. CASE StartAssigning  BY <1>7, StartAssigningStep
<1>8. CASE AssignChecksum  BY <1>8, AssignChecksumStep
<1>9. CASE NextModule  BY <1>9, NextModuleStep
<1>10. CASE Sort  BY <1>10, SortStep
<1>11. CASE UNCHANGED vars
  <2> USE <1>11 DEF vars, lineStreamVars
  <2>1. WalkInv'  BY DEF IInv, WalkInv, SectionEnds
  <2>2. ModuleInv' /\ TypeInv' /\ ChecksumsInv'
    BY DEF IInv, ModuleInv, TypeInv, ChecksumsInv, Opened
  <2>3. FilesInv'
    <3>1. Pending' = Pending  BY DEF Pending
    <3> QED  BY <3>1, FilesStay DEF IInv
  <2>4. CoverInv'
    <3>1. \A e, l : Covers(e, l)' = Covers(e, l)  BY DEF Covers, Truth
    <3>2. \A n : Truth(n)' = Truth(n)  BY DEF Truth
    <3> QED  BY <3>1, <3>2 DEF IInv, CoverInv, LinesCoverCode
  <2> QED  BY <2>1, <2>2, <2>3, <2>4 DEF IInv
<1> QED
  BY <1>1, <1>2, <1>3, <1>4, <1>5, <1>6, <1>7, <1>8, <1>9, <1>10, <1>11 DEF Next

\* The strengthened invariant, which the theorems below are read off.
THEOREM InvariantHolds == Spec => []IInv
<1> QED  BY InitIInv, NextIInv, PTL DEF Spec

\* ForEachSection and the ForEach functions of PDB_ModuleLineStream.h stand, before
\* each read, on a section and an item of the layout, or on the end of both, for
\* every padding and every number of extra files.
THEOREM WalkMeetsEveryItem == Spec => []WalkFollowsLayout
<1>1. IInv => WalkFollowsLayout  BY DEF IInv, WalkInv, WalkFollowsLayout
<1> QED  BY <1>1, InvariantHolds, PTL

\* ExampleLines.cpp resolves each line's file in the checksums of its own module,
\* wherever these come among the sections.
THEOREM EveryFileResolves == Spec => []FilesResolve
<1>1. IInv => FilesResolve
  <2> SUFFICES ASSUME IInv, pc \in {"module", "sorted"}, NEW i \in DOMAIN lines
               PROVE  filenames[lines[i].filenameIndex].namesFilenameOffset
                        = Truth(lines[i].lineNumber).file
    BY DEF FilesResolve
  <2>1. Pending = {}  BY DEF Pending
  <2> QED  BY <2>1 DEF IInv, FilesInv, Resolved
<1> QED  BY <1>1, InvariantHolds, PTL

\* The sorted entries lead to every line once, by address, and the lines of a
\* section with one block share out its code.
THEOREM EveryLineHasItsCode == Spec => []LinesCoverCode
<1>1. IInv => LinesCoverCode  BY DEF IInv, CoverInv
<1> QED  BY <1>1, InvariantHolds, PTL

=============================================================================
