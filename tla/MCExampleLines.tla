--------------------------- MODULE MCExampleLines ---------------------------
(* Instances of ExampleLines for TLC: layouts computed from what the sections *)
(* of a module contain.                                                       *)
EXTENDS ExampleLines, SequencesExt

CONSTANT MaxSections

\* What a section can contain: blocks of lines at code offsets, of file 1 or 2,
\* two checksums, or inlined lines, one of them with an extra file.
Block(file, offsets, cols) == [file |-> file, offsets |-> offsets, hasColumns |-> cols]
OneBlock == [kind |-> "S_LINES", items |-> << Block(1, <<0, 4>>, FALSE) >>]
TwoBlocks == [kind |-> "S_LINES",
              items |-> << Block(2, <<0, 3>>, TRUE), Block(1, <<6>>, FALSE) >>]
NoLines == [kind |-> "S_LINES", items |-> << Block(1, <<>>, FALSE) >>]
Checksums == [kind |-> "S_FILECHECKSUMS", items |-> << 0, 16 >>]
Inlined == [kind |-> "S_INLINEELINES_EX", items |-> << 1, 0 >>]
Simple == [kind |-> "S_INLINEELINES", items |-> << 0, 0 >>]
Palette == {OneBlock, TwoBlocks, NoLines, Checksums, Inlined, Simple}

CodeOf(s) == 10               \* bytes of code of every section of lines
ItemBytes(kind, item) ==
  CASE kind = "S_LINES" -> 12 + Len(item.offsets) * (IF item.hasColumns THEN 12 ELSE 8)
    [] kind = "S_FILECHECKSUMS" -> 8 + item
    [] kind = "S_INLINEELINES" -> 12
    [] kind = "S_INLINEELINES_EX" -> 16 + 4 * item
HeaderBytes(kind) == CASE kind = "S_LINES" -> 12 [] kind = "S_FILECHECKSUMS" -> 0
                       [] OTHER -> 4

Sum(s) == FoldLeft(LAMBDA x, y : x + y, 0, s)
PaddedBytes(section) == HeaderBytes(section.kind) +
  Sum([i \in DOMAIN section.items |-> ItemBytes(section.kind, section.items[i])])
\* A section of checksums may leave out the padding of the last one, 2 of its bytes.
Bytes(section) == PaddedBytes(section) - (IF section.kind = "S_FILECHECKSUMS" THEN 2 ELSE 0)
SectionStart(parts, k, begin) ==
  begin + Sum([i \in 1 .. (k - 1) |-> 8 + PaddedBytes(parts[i])])
ItemStart(section, start, i) == start + 8 + HeaderBytes(section.kind) +
  Sum([j \in 1 .. (i - 1) |-> ItemBytes(section.kind, section.items[j])])

\* Numbers are unique: module, section, block and line.
Number(m, k, b, l) == 1000 * m + 100 * k + 10 * b + l
FilenameOf(m, f) == 10 * m + f
\* One section of code is in another section of the image, at the same offset as
\* one of the second module.
SectionOfImage(m, k) == IF m = 1 /\ k = 1 THEN 2 ELSE 1
Address(m, k) == IF m = 1 /\ k = 1 THEN 2100 ELSE 1000 * m + 100 * k

ItemFor(m, section, k, start, i) ==
  LET item == section.items[i] IN
  CASE section.kind = "S_LINES" ->
         [fileChecksumOffset |-> IF item.file = 1 THEN 0 ELSE 8,
          numLines |-> Len(item.offsets), size |-> ItemBytes("S_LINES", item),
          hasColumns |-> item.hasColumns,
          lines |-> [l \in DOMAIN item.offsets |->
                       [offset |-> item.offsets[l], linenumStart |-> Number(m, k, i, l)]]]
    [] section.kind = "S_FILECHECKSUMS" ->
         [checksumSize |-> item, filenameOffset |-> FilenameOf(m, i)]
    [] OTHER -> [extraLines |-> item]

StreamFor(m, parts, begin) ==
  LET start == [k \in DOMAIN parts |-> SectionStart(parts, k, begin)]
      item == [k \in DOMAIN parts |-> [i \in DOMAIN parts[k].items |->
                                            ItemStart(parts[k], start[k], i)]]
      Sec(o) == CHOOSE k \in DOMAIN parts : start[k] = o
      items == UNION {{item[k][i] : i \in DOMAIN item[k]} : k \in DOMAIN parts}
      SecOf(o) == CHOOSE k \in DOMAIN parts : \E i \in DOMAIN item[k] : item[k][i] = o
      Idx(o) == CHOOSE i \in DOMAIN item[SecOf(o)] : item[SecOf(o)][i] = o
      numbers == {n \in {Number(m, k, b, l) : k \in DOMAIN parts, b \in 1 .. 2, l \in 1 .. 2} :
                   LET k == (n \div 100) % 10  b == (n \div 10) % 10  l == n % 10
                   IN  /\ parts[k].kind = "S_LINES" /\ b \in DOMAIN parts[k].items
                       /\ l \in DOMAIN parts[k].items[b].offsets}
  IN  [c13LineInfoOffset |-> begin,
       size |-> SectionStart(parts, Len(parts) + 1, begin),
       sectionAt |-> [o \in {start[k] : k \in DOMAIN parts} |->
                        [kind |-> parts[Sec(o)].kind, size |-> Bytes(parts[Sec(o)]),
                         codeSize |-> 10, sectionIndex |-> SectionOfImage(m, Sec(o)),
                         sectionOffset |-> Address(m, Sec(o))]],
       itemsOf |-> [o \in {start[k] : k \in DOMAIN parts} |->
                      {item[Sec(o)][i] : i \in DOMAIN item[Sec(o)]}],
       itemAt |-> [o \in items |-> ItemFor(m, parts[SecOf(o)], SecOf(o), o, Idx(o))],
       truth |-> [n \in numbers |->
                    LET k == (n \div 100) % 10  b == (n \div 10) % 10  l == n % 10
                        block == parts[k].items[b]
                    IN  [file |-> FilenameOf(m, block.file),
                         section |-> SectionOfImage(m, k),
                         address |-> Address(m, k) + block.offsets[l],
                         onlyBlock |-> Len(parts[k].items) = 1,
                         codeSize |-> IF l < Len(block.offsets)
                                        THEN block.offsets[l + 1] - block.offsets[l]
                                        ELSE 10 - block.offsets[l]]]]

\* Lines need the checksums of their module, of which there is one section.
Modules ==
  { parts \in SeqOf(Palette, MaxSections) :
      /\ \A i, j \in DOMAIN parts : i # j => parts[i] # parts[j]
      /\ (\E i \in DOMAIN parts : parts[i].kind = "S_LINES")
           => \E i \in DOMAIN parts : parts[i] = Checksums }

\* A second module finds the state the first one left.
SecondModules == {<<>>, << OneBlock, Checksums >>, << Checksums, TwoBlocks >>}

MCPrograms ==
  {<< StreamFor(1, first, 4), StreamFor(2, second, 8) >> :
     first \in Modules, second \in SecondModules}
MCLineStreams == UNION { { p[m] : m \in DOMAIN p } : p \in MCPrograms }
=============================================================================
