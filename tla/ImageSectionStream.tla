------------------------ MODULE ImageSectionStream ------------------------
(***************************************************************************)
(* PDB_ImageSectionStream: the headers of the sections of the executable,  *)
(* by which an offset in a section becomes an address in the image.        *)
(***************************************************************************)
EXTENDS Integers, Sequences

CONSTANT UInt32Range          \* 2^32: uint32_t wraps around; instances make it small

\* 0 stands for no address: sections are numbered from 1, and the symbols of a
\* section the image does not have are made up by the compiler or the linker.
ConvertSectionOffsetToRVA(virtualAddresses, oneBasedSectionIndex, offsetInSection) ==
  IF oneBasedSectionIndex = 0 \/ oneBasedSectionIndex > Len(virtualAddresses) THEN 0
  ELSE (virtualAddresses[oneBasedSectionIndex] + offsetInSection) % UInt32Range
=============================================================================
