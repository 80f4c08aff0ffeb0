------------------------ MODULE MCModuleInfoStream ------------------------
(* Instances of ModuleInfoStream and SourceFileStream for TLC. *)
EXTENDS SourceFileStream, FiniteSets

CONSTANTS MaxModules, NameLengths, ObjectNameLengths,
          MaxFiles            \* of a module

StartsFor(n, nameLength, objectNameLength) ==
  LET start[k \in 0 .. n] ==
        IF k = 0 THEN 0
        ELSE RoundUpToMultiple(start[k - 1] + SizeOfModuleInfo + nameLength[k - 1] + 1
                                 + objectNameLength[k - 1] + 1, 4)
  IN  start

StreamFor(n, nameLength, objectNameLength, linker) ==
  LET start == StartsFor(n, nameLength, objectNameLength)
      name == [k \in 0 .. (n - 1) |-> start[k] + SizeOfModuleInfo]
      objectName == [k \in 0 .. (n - 1) |-> name[k] + nameLength[k] + 1]
      At(o, offset, length) == { offset[k] + length[k] - o : k \in
             { l \in 0 .. (n - 1) : o \in offset[l] .. (offset[l] + length[l]) } }
      lengths == [o \in 0 .. (start[n] + 80) |-> At(o, name, nameLength)
                                             \cup At(o, objectName, objectNameLength)]
  IN  [count |-> n, start |-> [k \in 0 .. n |-> start[k]], size |-> start[n],
       linker |-> linker, linkerText |-> { name[k] : k \in linker },
       nameLength |-> nameLength, objectNameLength |-> objectNameLength,
       \* Everywhere else there are zeros, in the padding and behind the stream.
       strlen |-> [o \in 0 .. (start[n] + 80) |->
                     IF lengths[o] = {} THEN 0 ELSE CHOOSE l \in lengths[o] : TRUE]]

MCModuleStreams ==
  UNION { { StreamFor(n, names, objectNames, linker) :
              names \in [0 .. (n - 1) -> NameLengths],
              objectNames \in [0 .. (n - 1) -> ObjectNameLengths],
              linker \in { {} } \cup { {k} : k \in 0 .. (n - 1) } } :
          n \in 0 .. MaxModules }

\* No file is shared: file f of module k is <<k, f>>, and the names are put into the
\* string table from the last to the first.
SourceStreamFor(n, fileCount) ==
  LET filesBefore[k \in 0 .. n] == IF k = 0 THEN 0 ELSE filesBefore[k - 1] + fileCount[k - 1]
      total == filesBefore[n]
      stringTable == 4 + 4 * n + 4 * total
      End == stringTable + 3 * total + 8
      Offset(k, f) == 3 * (total - filesBefore[k] - f)
      \* Everywhere else there are zeros and empty names.
      At(o, entries, none) == LET here == {e \in entries : e[1] = o}
                              IN  IF here = {} THEN none ELSE (CHOOSE e \in here : TRUE)[2]
      modules == 0 .. (n - 1)
      files == UNION {{<<k, f>> : f \in 1 .. fileCount[k]} : k \in modules}
      shorts == {<<0, n>>, <<2, total % UInt16Range>>}
                \cup {<<4 + 2 * k, filesBefore[k] % UInt16Range>> : k \in modules}
                \cup {<<4 + 2 * (n + k), fileCount[k]>> : k \in modules}
      longs == {<<4 + 4 * n + 4 * (filesBefore[f[1]] + f[2] - 1), Offset(f[1], f[2])>> : f \in files}
      texts == {<<stringTable + Offset(f[1], f[2]), f>> : f \in files}
  IN  [moduleCount |-> n, names |-> files, filesBefore |-> [k \in 0 .. n |-> filesBefore[k]],
       files |-> [k \in modules |-> [f \in 1 .. fileCount[k] |-> <<k, f>>]],
       short |-> [o \in 0 .. End |-> At(o, shorts, 0)],
       long |-> [o \in 0 .. (End + 8 * UInt16Range) |-> At(o, longs, 0)],
       text |-> [o \in 0 .. End |-> At(o, texts, <<>>)]]

MCSourceStreams ==
  UNION { { SourceStreamFor(n, fileCount) : fileCount \in [0 .. (n - 1) -> 0 .. MaxFiles] } :
          n \in 0 .. MaxModules }
=============================================================================
