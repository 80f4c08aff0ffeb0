----------------------------- MODULE InfoStream -----------------------------
(***************************************************************************)
(* PDB_InfoStream: the constructor walks over the parts of the stream, each *)
(* of which says how long it is, to the entries of the named stream map and *)
(* to the feature codes that fill what is left of the stream.              *)
(*                                                                         *)
(* s.word[o] is the 32-bit word at offset o of stream s, and s.string[o]   *)
(* the name at offset o of its string table.                               *)
(***************************************************************************)
EXTENDS PDBUtil, Sequences, FiniteSetsExt

SizeOfHeader == 28            \* sizeof(Header)

VC110 == 20091201
VC140 == 20140508
NoTypeMerge == 1297371982
MinimalDebugInfo == 1229868365

\* Stream s as a linker writes it, for what w says: the length of the names, the words
\* of either bit vector, the entries of the map and the codes.
WrittenTable(w) == SizeOfHeader + SizeOfUInt32 + w.length
WrittenDeleted(w) == WrittenTable(w) + 3 * SizeOfUInt32 + SizeOfUInt32 * w.present
WrittenEntries(w) == WrittenDeleted(w) + SizeOfUInt32 + SizeOfUInt32 * w.deleted
WrittenCodes(w) == WrittenEntries(w) + 2 * SizeOfUInt32 * Len(w.entries)

IsWritten(s, w) ==
  /\ {w.length, w.present, w.deleted} \subseteq Nat
  /\ s.word[SizeOfHeader] = w.length
  /\ s.word[WrittenTable(w)] = Len(w.entries)
  /\ s.word[WrittenTable(w) + 2 * SizeOfUInt32] = w.present
  /\ s.word[WrittenDeleted(w)] = w.deleted
  /\ \A i \in DOMAIN w.entries :
       LET entry == WrittenEntries(w) + 2 * SizeOfUInt32 * (i - 1)
       IN  s.word[entry] = w.entries[i].name /\ s.word[entry + SizeOfUInt32] = w.entries[i].stream
  /\ \A i \in DOMAIN w.codes : s.word[WrittenCodes(w) + SizeOfUInt32 * (i - 1)] = w.codes[i]
  /\ s.size = WrittenCodes(w) + SizeOfUInt32 * Len(w.codes)

IsNames(s, w, i) == s.string[w.entries[i].name] = "/names"

HashTable(s) == SizeOfHeader + SizeOfUInt32 + s.word[SizeOfHeader]
EntryCount(s) == s.word[HashTable(s)]

\* Variant: the words of a bit vector are not skipped.
BehindEmptyBitVector(s, o) == o + SizeOfUInt32

BehindBitVector(s, o) == o + SizeOfUInt32 + SizeOfUInt32 * s.word[o]

\* Behind the header of the table come the vectors of present and deleted entries.
HashEntries(s) == BehindBitVector(s, BehindBitVector(s, HashTable(s) + 2 * SizeOfUInt32))
HashEntry(s, i) == HashEntries(s) + 2 * SizeOfUInt32 * i

\* The last entry with the name decides; 0 says that there is none.
NamesStreamIndex(s) ==
  LET named == {i \in 0 .. (EntryCount(s) - 1) : s.string[s.word[HashEntry(s, i)]] = "/names"}
  IN  IF named = {} THEN 0 ELSE s.word[HashEntry(s, Max(named)) + SizeOfUInt32]

FeatureCodes(s) ==
  LET start == HashEntry(s, EntryCount(s))
      count == (s.size - start) \div SizeOfUInt32
  IN  {s.word[start + SizeOfUInt32 * i] : i \in 0 .. (count - 1)}

\* InfoStream::InfoStream(file)
InfoStreamOf(s) ==
  [namesStreamIndex |-> NamesStreamIndex(s),
   usesDebugFastLink |-> MinimalDebugInfo \in FeatureCodes(s),
   hasIPIStream |-> FeatureCodes(s) \cap {VC110, VC140} # {}]
=============================================================================
