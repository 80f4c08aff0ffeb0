---------------------------- MODULE ExampleLines ----------------------------
(***************************************************************************)
(* Examples/ExampleLines.cpp, the client of ModuleLineStream: it collects  *)
(* the lines of all modules.  The file a block of lines is from is known   *)
(* as an offset into the module's checksums, which may come before or      *)
(* after the lines, so the files are filled in when the module is done.    *)
(***************************************************************************)
EXTENDS ModuleLineStream, Sequences, FiniteSets, Functions, TLC

CONSTANT Programs             \* sequences of line streams, one for each module

\* s.truth[n] is what the compiler knew about the line numbered n: the file, the
\* section of the image its code is in, the address there and the size, and whether
\* its section of lines has one block only.  In such a section the code of a line
\* reaches up to that of the next line, from the first line at the start of the
\* section's code to the last at its end.
CoversCode(s, o, block) ==
  LET TruthOf(i) == s.truth[block.lines[i].linenumStart]
      begin == s.sectionAt[o].sectionOffset
  IN  \A i \in 1 .. block.numLines :
        /\ TruthOf(i).section = s.sectionAt[o].sectionIndex
        /\ TruthOf(i).address = begin + block.lines[i].offset
        /\ i = 1 => TruthOf(i).address = begin
        /\ TruthOf(i).address + TruthOf(i).codeSize
             = IF i < block.numLines THEN begin + block.lines[i + 1].offset
                                     ELSE begin + s.sectionAt[o].codeSize

HasFilename(s, x) == "filenameOffset" \in DOMAIN s.itemAt[x]

\* The checksum of a block's file stands in the section of checksums, at the
\* distance from its start that the block gives.
IsBlock(s, o, x) ==
  LET block == s.itemAt[x]
  IN  /\ block.numLines \in Nat /\ block.fileChecksumOffset \in Nat
      /\ block.lines \in [1 .. block.numLines -> [offset : Nat, linenumStart : DOMAIN s.truth]]
      /\ \A i \in 1 .. block.numLines : \E q \in DOMAIN s.sectionAt :
           LET checksum == q + SizeOfSubsectionHeader + block.fileChecksumOffset
           IN  /\ s.sectionAt[q].kind = "S_FILECHECKSUMS"
               /\ checksum \in s.itemsOf[q] /\ HasFilename(s, checksum)
               /\ s.itemAt[checksum].filenameOffset
                    = s.truth[block.lines[i].linenumStart].file
      /\ (\E i \in 1 .. block.numLines : s.truth[block.lines[i].linenumStart].onlyBlock)
           => CoversCode(s, o, block)

\* One section of checksums a module, and a number of its own for each line.
IsModule(s) ==
  /\ s \in LineStreams
  /\ \A n \in DOMAIN s.truth :
       /\ n \in Nat /\ s.truth[n].section \in Nat /\ s.truth[n].address \in Nat /\ s.truth[n].codeSize \in Nat
       /\ s.truth[n].onlyBlock \in BOOLEAN
  /\ \A o, q \in DOMAIN s.sectionAt :
       s.sectionAt[o].kind = "S_FILECHECKSUMS" /\ s.sectionAt[q].kind = "S_FILECHECKSUMS"
         => o = q
  /\ \A o \in DOMAIN s.sectionAt :
       s.sectionAt[o].kind = "S_LINES" =>
         /\ s.sectionAt[o].sectionIndex \in Nat
         /\ s.sectionAt[o].sectionOffset \in Nat /\ s.sectionAt[o].codeSize \in Nat
         /\ \A x \in s.itemsOf[o] : IsBlock(s, o, x)
  /\ \A x \in DOMAIN s.itemAt : HasFilename(s, x) => s.itemAt[x].filenameOffset \in Nat

ASSUME ProgramsAssumption ==
  \A p \in Programs :
    /\ p # <<>> /\ p \in Seq(LineStreams)
    /\ \A m \in DOMAIN p : IsModule(p[m])
    /\ \A m, n \in DOMAIN p : m # n => DOMAIN p[m].truth \cap DOMAIN p[n].truth = {}

VARIABLES program, module,
          pc,
          filenames, sections, lines,
          moduleFilenamesStartIndex,
          moduleFileChecksumHeader,   \* where the module's checksums start
          filename,                   \* loop over the files of the module
          columns                     \* of the last block: pointer, and its header

vars == <<lineStreamVars, program, module, pc, filenames, sections, lines,
          moduleFilenamesStartIndex, moduleFileChecksumHeader, filename, columns>>

NoColumns == [pointer |-> nullptr, block |-> nullptr]

Init ==
  /\ program \in Programs
  /\ module = 1
  /\ pc = "module"
  /\ stream = program[1] /\ offset = stream.c13LineInfoOffset /\ inSection = FALSE
  /\ itemOffset = 0 /\ headerEnd = 0
  /\ filenames = <<>> /\ sections = <<>> /\ lines = <<>>
  /\ moduleFilenamesStartIndex = 1
  /\ moduleFileChecksumHeader = nullptr
  /\ filename = 1
  /\ columns = NoColumns

\* A module without line information is skipped.
HasLineStream(s) == s.size > s.c13LineInfoOffset

SkipModule ==
  /\ pc = "module" /\ module <= Len(program)
  /\ ~ HasLineStream(program[module])
  /\ module' = module + 1
  /\ UNCHANGED <<lineStreamVars, program, pc, filenames, sections, lines,
                 moduleFilenamesStartIndex, moduleFileChecksumHeader, filename, columns>>

\* Variant: the files of the modules before are assigned again.
StartModuleKeepingIndex ==
  /\ pc = "module" /\ module <= Len(program)
  /\ HasLineStream(program[module])
  /\ StartOn(program[module])
  /\ moduleFileChecksumHeader' = nullptr
  /\ columns' = NoColumns
  /\ pc' = "sections"
  /\ UNCHANGED <<program, module, filenames, sections, lines, filename,
                 moduleFilenamesStartIndex>>

StartModule ==
  /\ pc = "module" /\ module <= Len(program)
  /\ HasLineStream(program[module])
  /\ StartOn(program[module])
  /\ moduleFilenamesStartIndex' = Len(filenames) + 1
  /\ moduleFileChecksumHeader' = nullptr
  /\ columns' = NoColumns
  /\ pc' = "sections"
  /\ UNCHANGED <<program, module, filenames, sections, lines, filename>>

ExampleUnchanged ==
  UNCHANGED <<program, module, pc, filenames, sections, lines,
              moduleFilenamesStartIndex, filename, columns>>

\* "Module File Checksum Header already set": one section of checksums a module.
EnterLineSection ==
  /\ pc = "sections"
  /\ EnterSection
  /\ moduleFileChecksumHeader' = IF Section.kind = "S_FILECHECKSUMS"
                                   THEN offset + SizeOfSubsectionHeader
                                   ELSE moduleFileChecksumHeader
  /\ ExampleUnchanged

\* Variant: the code of the last line of a block is counted from its start.
CodeSizeOfSection(i) ==
  IF i < Item.numLines THEN Item.lines[i + 1].offset - Item.lines[i].offset
                       ELSE Section.codeSize

\* What a line of the block is stored with: the code size is the distance to the
\* next line, or to the end of the section's code.
CodeSize(i) ==
  IF i < Item.numLines THEN Item.lines[i + 1].offset - Item.lines[i].offset
                       ELSE Section.codeSize - Item.lines[i].offset

\* The first line is stored with the offset of the section, the others with
\* their own added.
SectionOffset(i) ==
  IF i = 1 THEN Section.sectionOffset ELSE Section.sectionOffset + Item.lines[i].offset

FilenameIndex == Len(filenames) + 1

LinesBlock ==
  /\ pc = "sections"
  /\ CallbackWithItem({"S_LINES"})
  /\ IF Item.numLines = 0
       THEN UNCHANGED <<filenames, sections, lines>>
       ELSE /\ filenames' = Append(filenames,
                 [fileChecksumOffset |-> Item.fileChecksumOffset,
                  namesFilenameOffset |-> nullptr])
            /\ sections' = sections \o [i \in 1 .. Item.numLines |->
                 [index |-> Section.sectionIndex, offset |-> SectionOffset(i),
                  lineIndex |-> Len(lines) + i]]
            /\ lines' = lines \o [i \in 1 .. Item.numLines |->
                 [lineNumber |-> Item.lines[i].linenumStart, codeSize |-> CodeSize(i),
                  filenameIndex |-> FilenameIndex]]
  /\ columns' = [pointer |-> BlockColumns, block |-> itemOffset]
  /\ UNCHANGED <<program, module, pc, moduleFilenamesStartIndex,
                 moduleFileChecksumHeader, filename>>

\* The other items are read, nothing is stored.
OtherItem ==
  /\ pc = "sections"
  /\ CallbackWithItem(Kinds \ {"S_LINES"})
  /\ ExampleUnchanged
  /\ UNCHANGED moduleFileChecksumHeader

ReturnFromSection ==
  /\ pc = "sections"
  /\ LeaveSection
  /\ ExampleUnchanged
  /\ UNCHANGED moduleFileChecksumHeader

StartAssigning ==
  /\ pc = "sections"
  /\ AtEnd
  /\ pc' = "assign"
  /\ filename' = moduleFilenamesStartIndex
  /\ UNCHANGED <<lineStreamVars, program, module, filenames, sections, lines,
                 moduleFilenamesStartIndex, moduleFileChecksumHeader, columns>>

\* Pointer::Offset(moduleFileChecksumHeader, filename.fileChecksumOffset)
ChecksumHeader(f) == moduleFileChecksumHeader + f.fileChecksumOffset

\* What an offset shows that is not the start of a checksum cannot be told.
Garbage == -2
FilenameAt(o) == IF o \in DOMAIN stream.itemAt /\ HasFilename(stream, o)
                   THEN stream.itemAt[o].filenameOffset ELSE Garbage

AssignChecksum ==
  /\ pc = "assign"
  /\ filename <= Len(filenames)
  /\ filenames' = [filenames EXCEPT ![filename].namesFilenameOffset =
                     FilenameAt(ChecksumHeader(filenames[filename]))]
  /\ filename' = filename + 1
  /\ UNCHANGED <<lineStreamVars, program, module, pc, sections, lines,
                 moduleFilenamesStartIndex, moduleFileChecksumHeader, columns>>

NextModule ==
  /\ pc = "assign"
  /\ filename > Len(filenames)
  /\ module' = module + 1
  /\ pc' = "module"
  /\ UNCHANGED <<lineStreamVars, program, filenames, sections, lines, filename,
                 moduleFilenamesStartIndex, moduleFileChecksumHeader, columns>>

\* The comparator: by the section of the image, in a section by the offset.
Less(lhs, rhs) ==
  IF lhs.index = rhs.index THEN lhs.offset < rhs.offset ELSE lhs.index < rhs.index

\* std::sort may leave lines at the same address in any order.
Tied == {i \in DOMAIN sections : \E j \in DOMAIN sections \ {i} :
           ~ Less(sections[i], sections[j]) /\ ~ Less(sections[j], sections[i])}

\* Entry i comes before entry j.
Before(order, i, j) ==
  \/ Less(sections[i], sections[j])
  \/ i # j /\ ~ Less(sections[j], sections[i]) /\ order[i] < order[j]

Place(order, i) == 1 + Cardinality({j \in DOMAIN sections : Before(order, j, i)})

Sort ==
  /\ pc = "module" /\ module > Len(program)
  /\ \E order \in Permutations(Tied) \cap Bijection(Tied, Tied) :
       sections' = [k \in DOMAIN sections |->
                      sections[CHOOSE i \in DOMAIN sections : Place(order, i) = k]]
  /\ pc' = "sorted"
  /\ UNCHANGED <<lineStreamVars, program, module, filenames, lines, filename,
                 moduleFilenamesStartIndex, moduleFileChecksumHeader, columns>>

Next == \/ SkipModule \/ StartModule
        \/ EnterLineSection \/ LinesBlock \/ OtherItem \/ ReturnFromSection
        \/ StartAssigning \/ AssignChecksum \/ NextModule
        \/ Sort

Spec == Init /\ [][Next]_vars

-----------------------------------------------------------------------------

Truth(number) ==
  LET m == CHOOSE m \in DOMAIN program : number \in DOMAIN program[m].truth
  IN  program[m].truth[number]

\* "there might be more lines after the checksums, so lines will get their checksum
\* header values assigned after processing all line sections in the module":
\* wherever the checksums come, whatever modules come before and after, a line
\* ends up with the name of its own file, looked up in its own module.
FilesResolve ==
  pc \in {"module", "sorted"} =>
    \A i \in DOMAIN lines :
      filenames[lines[i].filenameIndex].namesFilenameOffset = Truth(lines[i].lineNumber).file

\* "sort sections, so we can iterate over lines by address order": the entries lead
\* to every line once, section by section of the image, in the order of their offsets
\* there.  The line an entry leads to
\* has the address of the entry, and as much code as there is up to the next line:
\* the lines of a section with one block cover its code without a gap or an overlap.
LinesCoverCode ==
  pc = "sorted" =>
    /\ DOMAIN sections = DOMAIN lines
    /\ \A i, j \in DOMAIN sections :
         i < j => /\ sections[i].lineIndex # sections[j].lineIndex
                  /\ \/ sections[i].index < sections[j].index
                     \/ /\ sections[i].index = sections[j].index
                        /\ sections[i].offset <= sections[j].offset
    /\ \A i \in DOMAIN sections :
         LET line == lines[sections[i].lineIndex]
             truth == Truth(line.lineNumber)
         IN  truth.onlyBlock => /\ sections[i].index = truth.section
                                /\ sections[i].offset = truth.address
                                /\ line.codeSize = truth.codeSize

\* "Line lines[numLines]; Column columns[numLines];" behind a block's header: the
\* columns handed out are those behind the lines.
ColumnsBehindLines ==
  columns.pointer # nullptr =>
    columns.pointer = columns.block + SizeOfBlockHeader
                        + stream.itemAt[columns.block].numLines * SizeOfLine
=============================================================================
