----------------------------- MODULE MSFBlocks -----------------------------
(***************************************************************************)
(* How an MSF file scatters a stream over its blocks: where in the file    *)
(* the bytes of a stream with given block indices are.                     *)
(***************************************************************************)
EXTENDS PDBUtil

CONSTANT BlockSize            \* superBlock->blockSize

ASSUME BlockSizeAssumption == BlockSize \in Nat \ {0}

\* File offset of the byte at an offset of a stream with these block indices.
DataOffset(blockIndices, offset) ==
  ConvertBlockIndexToFileOffset(blockIndices[BlockOf(offset, BlockSize)], BlockSize)
    + OffsetWithinBlock(offset, BlockSize)

\* The bytes offset .. offset + size - 1 of a stream.
Slice(blockIndices, offset, size) ==
  [k \in 0 .. (size - 1) |-> DataOffset(blockIndices, offset + k)]
=============================================================================
