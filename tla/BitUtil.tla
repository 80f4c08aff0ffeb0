------------------------------ MODULE BitUtil ------------------------------
(***************************************************************************)
(* Foundation/PDB_BitUtil.h and the block arithmetic of PDB_DirectMSFStream*)
(* with the masks and shifts of the code, on unsigned numbers of Width     *)
(* bits, against the \div and % of PDBUtil that the other modules use.     *)
(***************************************************************************)
EXTENDS PDBUtil, Bitwise

CONSTANT Width                \* bits of the unsigned type

Numbers == 0 .. (2 ^ Width - 1)
PowersOfTwo == {2 ^ k : k \in 0 .. (Width - 1)}

\* ~x, and the wrapping + and -, of unsigned numbers
Complement(x) == 2 ^ Width - 1 - x
Plus(x, y) == (x + y) % 2 ^ Width
Minus(x, y) == (x + 2 ^ Width - y) % 2 ^ Width

IsPowerOfTwo(x) == (x & Minus(x, 1)) = 0

RoundUpToMultipleMasked(numToRound, multipleOf) ==
  Plus(numToRound, Minus(multipleOf, 1)) & Complement(Minus(multipleOf, 1))

\* The 1-based position __builtin_ffs returns.
BuiltinFFS(x) == CHOOSE k \in 1 .. Width : /\ (x \div 2 ^ (k - 1)) % 2 = 1
                                           /\ x % 2 ^ (k - 1) = 0

FindFirstSetBit(x) == BuiltinFFS(x) - 1

\* "offset >> m_blockSizeLog2", "offset & (m_blockSize - 1u)"
BlockOfShifted(offset, blockSize) == shiftR(offset, FindFirstSetBit(blockSize))
OffsetWithinBlockMasked(offset, blockSize) == offset & Minus(blockSize, 1)

\* "m_blockSizeLog2": the shift by the position of a power of two's only bit and the
\* mask below it split every offset the way division does, and both halves fit
\* together again; and the assertion accepts the powers of two and no other.
SplitsOffsets ==
  \A value \in Numbers :
    /\ value # 0 => (IsPowerOfTwo(value) <=> value \in PowersOfTwo)
    /\ \A blockSize \in PowersOfTwo :
         /\ BlockOfShifted(value, blockSize) = BlockOf(value, blockSize)
         /\ OffsetWithinBlockMasked(value, blockSize) = OffsetWithinBlock(value, blockSize)
         /\ BlockOfShifted(value, blockSize) * blockSize
              + OffsetWithinBlockMasked(value, blockSize) = value

\* Adding and masking yields the next multiple, up to the last one that fits the
\* type; behind it the sum wraps around and 0 comes out.
RoundsUp ==
  \A value \in Numbers, multipleOf \in PowersOfTwo :
    RoundUpToMultipleMasked(value, multipleOf) =
      IF value <= 2 ^ Width - multipleOf THEN RoundUpToMultiple(value, multipleOf) ELSE 0

\* What the other modules take for granted; TLC evaluates it.
ASSUME BitArithmetic == Width \in Nat \ {0} /\ SplitsOffsets /\ RoundsUp
=============================================================================
