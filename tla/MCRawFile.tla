----------------------------- MODULE MCRawFile -----------------------------
(* Instances of RawFile for TLC: files a linker could have written, with    *)
(* blocks of two words.                                                     *)
EXTENDS RawFile, FiniteSets

CONSTANTS MaxCount, Sizes

WordsPerBlock == BlockSize \div SizeOfUInt32
FileBlocks == 14

\* Where the block indices of stream i start, for streams of these sizes.
StartsFor(sizes, count) ==
  LET start[n \in 0 .. count] ==
        IF n = 0 THEN 1 + count
        ELSE start[n - 1] + ConvertSizeToBlockCount(SizeOf(sizes[n - 1]), BlockSize)
  IN  start

\* The directory of streams of these sizes; block indices start from 100.
DirectoryFor(sizes, count) ==
  [w \in 0 .. (StartsFor(sizes, count)[count] - 1) |->
     IF w = 0 THEN count
     ELSE IF w <= count THEN sizes[w - 1]
     ELSE 100 + w]

\* Four ways to place the blocks of the directory, and of its indices.
Placements ==
  { [index |-> [n \in 0 .. 3 |-> 3 + n],       dir |-> [n \in 0 .. 7 |-> 6 + n]],
    [index |-> [n \in 0 .. 3 |-> 4 - n],       dir |-> [n \in 0 .. 7 |-> 13 - n]],
    [index |-> [n \in 0 .. 3 |-> 2 + 3 * n],   dir |-> [n \in 0 .. 7 |-> IF n < 2 THEN 3 + n ELSE 4 + n + (n \div 4)]],
    [index |-> [n \in 0 .. 3 |-> 2 + n],       dir |-> [n \in 0 .. 7 |-> IF n % 2 = 0 THEN 6 + n ELSE 8 + n - 2]] }

\* The words of a file that holds this directory in this placement.
WordsFor(directory, p, dirBlockCount) ==
  [o \in 0 .. (FileBlocks * WordsPerBlock - 1) |->
    LET block == o \div WordsPerBlock
        within == o % WordsPerBlock
        inDir == { n \in 0 .. (dirBlockCount - 1) :
                     p.dir[n] = block /\ n * WordsPerBlock + within \in DOMAIN directory }
        inIndex == { n \in 0 .. 3 : p.index[n] = block /\ n * WordsPerBlock + within < dirBlockCount }
    IN  IF inDir # {} THEN directory[(CHOOSE n \in inDir : TRUE) * WordsPerBlock + within]
        ELSE IF inIndex # {} THEN p.dir[(CHOOSE n \in inIndex : TRUE) * WordsPerBlock + within]
        ELSE 0]

FileFor(sizes, count, p) ==
  LET directory == DirectoryFor(sizes, count)
      start == StartsFor(sizes, count)
      dirSize == start[count] * SizeOfUInt32
      dirBlockCount == ConvertSizeToBlockCount(dirSize, BlockSize)
  IN  [count |-> count, start |-> start, directory |-> directory,
       directorySize |-> dirSize, directoryBlockIndices |-> p.index,
       words |-> WordsFor(directory, p, dirBlockCount)]

MCFiles == UNION { { FileFor(sizes, count, p) : sizes \in [0 .. (count - 1) -> Sizes],
                                                p \in Placements } :
                   count \in 0 .. MaxCount }
=============================================================================
