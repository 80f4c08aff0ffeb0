--------------------------- MODULE MCExampleMain ---------------------------
(* Files for ExampleMain: one that every check accepts, and that file with up *)
(* to two of the things a check or a read depends on changed.                 *)
EXTENDS ExampleMain, SequencesExt

\* The info stream a linker writes for w.  What is none of its parts is 3.
InfoFor(w) ==
  LET table == SizeOfHeader + 4 + w.length
      start == table + 8 + 4 + 4 * w.present + 4 + 4 * w.deleted
      codesStart == start + 8 * Len(w.entries)
      size == codesStart + 4 * Len(w.codes)
      written == (SizeOfHeader :> w.length) @@ (table :> Len(w.entries))
                   @@ (table + 8 :> w.present) @@ (table + 12 + 4 * w.present :> w.deleted)
                   @@ [o \in {start + 8 * (i - 1) : i \in DOMAIN w.entries} |->
                         w.entries[(o - start) \div 8 + 1].name]
                   @@ [o \in {start + 8 * (i - 1) + 4 : i \in DOMAIN w.entries} |->
                         w.entries[(o - start) \div 8 + 1].stream]
                   @@ [o \in {codesStart + 4 * (i - 1) : i \in DOMAIN w.codes} |->
                         w.codes[(o - codesStart) \div 4 + 1]]
  IN  [size |-> size, word |-> written @@ [o \in 0 .. size |-> 3],
       string |-> (1 :> "/LinkInfo") @@ (4 :> "/names") @@ [o \in 0 .. 99 |-> ""]]

LinkInfoEntry == [name |-> 1, stream |-> 5]
NamesEntry == [name |-> 4, stream |-> 9]

WithInfo(f, length, present, deleted, entries, codes) ==
  LET w == [length |-> length, present |-> present, deleted |-> deleted,
            entries |-> entries, codes |-> codes]
  IN  [f EXCEPT !.writer = w, !.info = InfoFor(w), !.featureCodes = Range(codes),
                !.names = IF NamesEntry \in Range(entries) THEN NamesEntry.stream ELSE 0]

SoundHeader ==
  [moduleInfoSize |-> 128, sectionContributionSize |-> 32, sectionMapSize |-> 12,
   sourceInfoSize |-> 20, typeServerMapSize |-> 0, ecSize |-> 8,
   optionalDebugHeaderSize |-> SizeOfDebugHeader,
   symbolRecordStreamIndex |-> 7, publicStreamIndex |-> 5, globalStreamIndex |-> 6]

\* Up to the debug header the stream holds 264 bytes.
WithoutInfo ==
  [maps |-> TRUE, size |-> 512, magic |-> TRUE, blockCount |-> 4, blockSize |-> 128,
   freeBlockMapIndex |-> 1,
   streamSize |-> (0 :> 24 @@ 1 :> 100 @@ 2 :> 80 @@ 3 :> 286 @@ 4 :> 60 @@ 5 :> 60 @@ 6 :> 40 @@ 7 :> 64 @@ 8 :> 80),
   moduleSymbolStreamIndices |-> <<4, NilStreamIndex, 0, 8>>,
   dbiVerdict |-> "ok", dbiHeader |-> SoundHeader,
   contributionVerdict |-> "ok", publicVerdict |-> "ok", globalVerdict |-> "ok",
   sectionHeaderStreamIndex |-> 8,
   tpiVerdict |-> "ok", ipiVerdict |-> "ok",
   writer |-> <<>>, info |-> <<>>, featureCodes |-> {}, names |-> 0]
SoundFile == WithInfo(WithoutInfo, 9, 1, 0, <<NamesEntry>>, <<VC140>>)

Headers(h) ==
  {[h EXCEPT !.symbolRecordStreamIndex = NilStreamIndex],
   [h EXCEPT !.publicStreamIndex = NilStreamIndex],
   [h EXCEPT !.globalStreamIndex = NilStreamIndex],
   [h EXCEPT !.sectionContributionSize = 3], [h EXCEPT !.sectionContributionSize = 4],
   [h EXCEPT !.sectionMapSize = 0], [h EXCEPT !.moduleInfoSize = 0],
   [h EXCEPT !.optionalDebugHeaderSize = 0]}

\* The DBI stream is as long as its sub-streams, but may end in its debug header.
Changed(f) ==
  {[f EXCEPT !.maps = FALSE], [f EXCEPT !.magic = FALSE]}
  \cup {[f EXCEPT !.size = n] : n \in {SizeOfSuperBlock - 1, 511}}
  \cup {[f EXCEPT !.freeBlockMapIndex = n] : n \in {0, 2}}
  \cup {[f EXCEPT !.streamSize[DBIStreamIndex] = n] : n \in {SizeOfDBIHeader - 1, 264, 285}}
  \cup {[f EXCEPT !.streamSize[TPIStreamIndex] = n] : n \in {0, SizeOfTPIHeader}}
  \cup {[f EXCEPT !.dbiVerdict = v] : v \in Verdicts}
  \cup {[f EXCEPT !.dbiHeader = h] : h \in Headers(f.dbiHeader)}
  \cup {[f EXCEPT !.contributionVerdict = "version"]}
  \cup {[f EXCEPT !.publicVerdict = v] : v \in Verdicts}
  \cup {[f EXCEPT !.globalVerdict = v] : v \in Verdicts}
  \cup {[f EXCEPT !.sectionHeaderStreamIndex = NilStreamIndex]}
  \cup {[f EXCEPT !.tpiVerdict = "version"], [f EXCEPT !.ipiVerdict = "version"]}
  \cup {WithInfo(f, length, present, deleted, entries, <<VC140>>) :
           length \in {8, 11}, present \in {0, 2}, deleted \in {0, 1},
           entries \in {<<>>, <<LinkInfoEntry, NamesEntry>>, <<NamesEntry, LinkInfoEntry>>}}
  \cup {WithInfo(f, 9, 1, 1, <<NamesEntry>>, codes) :
           codes \in {<<>>, <<VC110>>, <<NoTypeMerge>>, <<VC140, MinimalDebugInfo>>,
                     <<MinimalDebugInfo, NoTypeMerge, VC140>>}}
  \cup {[WithInfo(f, 9, 1, 1, <<NamesEntry>>, <<>>) EXCEPT !.streamSize[IPIStreamIndex] = 0]}

\* A file whose feature codes promise an IPI stream has one.
MCFiles ==
  {f \in Changed(SoundFile) \cup UNION {Changed(g) : g \in Changed(SoundFile)} : KeepsIPIPromise(f)}

\* Files whose feature codes promise an IPI stream they have no header of.
ShortIPIFiles == {[SoundFile EXCEPT !.streamSize[IPIStreamIndex] = n] :
                    n \in {0, SizeOfIPIHeader - 1, SizeOfIPIHeader}}
=============================================================================
