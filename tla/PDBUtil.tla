------------------------------ MODULE PDBUtil ------------------------------
(***************************************************************************)
(* The arithmetic of PDB_Util.h and Foundation/PDB_BitUtil.h that the      *)
(* other modules are built from.  The library works on powers of two with  *)
(* shifts and masks; the operators here are the same functions written     *)
(* with \div and %, which is the form the proofs use.  BitUtil.tla states  *)
(* the shift-and-mask forms and checks that the two agree.                 *)
(***************************************************************************)
EXTENDS Integers

\* Sizes in bytes of the structures the library overlays on streams.
SizeOfUInt32 == 4

\* A block of the file starts at this byte; the product is taken in size_t.
ConvertBlockIndexToFileOffset(blockIndex, blockSize) == blockIndex * blockSize

\* Integer ceiling: blocks needed for a number of bytes.  The sum is taken in
\* size_t and the quotient of a 32-bit size always fits 32 bits.
ConvertSizeToBlockCount(sizeInBytes, blockSize) ==
  (sizeInBytes + blockSize - 1) \div blockSize

\* The next multiple of a power of two.
RoundUpToMultiple(numToRound, multipleOf) ==
  ((numToRound + multipleOf - 1) \div multipleOf) * multipleOf

\* Block that holds a stream offset, and the offset inside that block:
\* "offset >> blockSizeLog2" and "offset & (blockSize - 1)".
BlockOf(offset, blockSize) == offset \div blockSize
OffsetWithinBlock(offset, blockSize) == offset % blockSize

\* memcpy(buffer + at, file + source, n).  A buffer maps each of its bytes to
\* the file byte it was copied from, so the contents of the file never matter.
\* Bytes outside the buffer become part of it: an overrun shows in its DOMAIN.
Memcpy(buffer, at, source, n) ==
  [k \in DOMAIN buffer \cup (at .. (at + n - 1)) |->
     IF k \in at .. (at + n - 1) THEN source + (k - at) ELSE buffer[k]]

\* A byte nothing has been copied to yet, and the buffer of no bytes.
Unwritten == -1
FreshBuffer(size) == [k \in 0 .. (size - 1) |-> Unwritten]
=============================================================================
