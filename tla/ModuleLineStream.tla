-------------------------- MODULE ModuleLineStream --------------------------
(***************************************************************************)
(* PDB_ModuleLineStream: the C13 line information of a module is a list of *)
(* sections, each a list of blocks, checksums or inlined lines of varying  *)
(* length.  ForEachSection hands each section to a callback, which may     *)
(* iterate over its items with the ForEach function of its kind.           *)
(***************************************************************************)
EXTENDS PDBUtil

CONSTANT LineStreams          \* the well-formed line streams

SizeOfSubsectionHeader == 8   \* sizeof(CodeView::DBI::DebugSubsectionHeader)
SizeOfBlockHeader == 12       \* sizeof(CodeView::DBI::LinesFileBlockHeader)
SizeOfLine == 8               \* sizeof(CodeView::DBI::Line)
SizeOfChecksumHeader == 8     \* sizeof(FileChecksumHeader): 6 bytes and padding
SizeOfInlineeLine == 12       \* sizeof(CodeView::DBI::InlineeSourceLine)
SizeOfInlineeLineEx == 16     \* sizeof(CodeView::DBI::InlineeSourceLineEx)

\* S_INLINEELINES_EX stands for S_INLINEELINES with the signature SignatureEx.
Kinds == {"S_LINES", "S_FILECHECKSUMS", "S_INLINEELINES", "S_INLINEELINES_EX"}

\* sizeof(LinesHeader), nothing, sizeof(InlineeSourceLineHeader)
SizeOfKindHeader(kind) ==
  CASE kind = "S_LINES" -> 12
    [] kind = "S_FILECHECKSUMS" -> 0
    [] kind \in {"S_INLINEELINES", "S_INLINEELINES_EX"} -> 4

-----------------------------------------------------------------------------
(* What the compiler writes.  s.sectionAt[o] is the section that starts at *)
(* offset o, s.itemAt[o] the item, and s.itemsOf[o] the offsets of the     *)
(* items in the section that starts at o.                                  *)

\* Sections and items are followed by up to three bytes of padding.
Padded(size) == size + ((-size) % 4)

\* None, MD5, SHA1, SHA256
ChecksumSizes == {0, 16, 20, 32}

\* A block knows its length.  A checksum follows the 6 bytes of its header.
LengthOfItem(kind, item) ==
  CASE kind = "S_LINES" -> item.size
    [] kind = "S_FILECHECKSUMS" -> 6 + item.checksumSize
    [] kind = "S_INLINEELINES" -> SizeOfInlineeLine
    [] kind = "S_INLINEELINES_EX" -> SizeOfInlineeLineEx + item.extraLines * SizeOfUInt32

IsItem(kind, item) ==
  CASE kind = "S_LINES" -> item.size \in Nat \ {0}
    [] kind = "S_FILECHECKSUMS" -> item.checksumSize \in ChecksumSizes
    [] kind = "S_INLINEELINES" -> TRUE
    [] kind = "S_INLINEELINES_EX" -> item.extraLines \in Nat

\* Where the section at o has its first item, and where it ends: the size of a
\* section may leave out the padding of its last item.
ItemsBegin(s, o) == o + SizeOfSubsectionHeader + SizeOfKindHeader(s.sectionAt[o].kind)
SectionEnds(s, o) == o + SizeOfSubsectionHeader + Padded(s.sectionAt[o].size)

\* The items of a section follow each other, and nothing follows the last one.
IsSection(s, o) ==
  LET kind == s.sectionAt[o].kind
      items == s.itemsOf[o]
      End(x) == x + Padded(LengthOfItem(kind, s.itemAt[x]))
  IN  /\ kind \in Kinds /\ s.sectionAt[o].size \in Nat
      /\ items \subseteq DOMAIN s.itemAt
      /\ ItemsBegin(s, o) \in items \cup {SectionEnds(s, o)}
      /\ \A x \in items : /\ x \in ItemsBegin(s, o) .. (SectionEnds(s, o) - 1)
                          /\ IsItem(kind, s.itemAt[x])
                          /\ End(x) \in items \cup {SectionEnds(s, o)}

\* So do the sections, from the start of the line information to the end of the
\* stream, all of them at multiples of four.
IsLineStream(s) ==
  /\ s.c13LineInfoOffset \in Nat /\ s.c13LineInfoOffset % 4 = 0 /\ s.size \in Nat
  /\ s.c13LineInfoOffset \in DOMAIN s.sectionAt \cup {s.size}
  /\ \A o \in DOMAIN s.sectionAt :
       /\ o \in s.c13LineInfoOffset .. (s.size - 1)
       /\ IsSection(s, o)
       /\ SectionEnds(s, o) \in DOMAIN s.sectionAt \cup {s.size}
       /\ \A p \in DOMAIN s.sectionAt : o < p => SectionEnds(s, o) <= p

ASSUME LineStreamsAssumption == \A s \in LineStreams : IsLineStream(s)

-----------------------------------------------------------------------------

VARIABLES stream,             \* m_stream and m_c13LineInfoOffset
          offset,             \* local of ForEachSection
          inSection,          \* its callback is running
          itemOffset, headerEnd   \* locals of the callback's ForEach function

lineStreamVars == <<stream, offset, inSection, itemOffset, headerEnd>>

Section == stream.sectionAt[offset]
Item == stream.itemAt[itemOffset]

SectionEnd ==
  RoundUpToMultiple(offset + SizeOfSubsectionHeader + Section.size, 4)

FirstItem ==
  RoundUpToMultiple(offset + SizeOfSubsectionHeader + SizeOfKindHeader(Section.kind), 4)

\* Variant: the extra files of an inlined line are not skipped.
ItemSizeWithoutExtraFiles ==
  CASE Section.kind = "S_LINES" -> Item.size
    [] Section.kind = "S_FILECHECKSUMS" -> SizeOfChecksumHeader + Item.checksumSize
    [] Section.kind = "S_INLINEELINES" -> SizeOfInlineeLine
    [] Section.kind = "S_INLINEELINES_EX" -> SizeOfInlineeLineEx

ItemSize ==
  CASE Section.kind = "S_LINES" -> Item.size
    [] Section.kind = "S_FILECHECKSUMS" -> SizeOfChecksumHeader + Item.checksumSize
    [] Section.kind = "S_INLINEELINES" -> SizeOfInlineeLine
    [] Section.kind = "S_INLINEELINES_EX" ->
         SizeOfInlineeLineEx + Item.extraLines * SizeOfUInt32

NextItem == RoundUpToMultiple(itemOffset + ItemSize, 4)

\* ModuleLineStream's constructor and the call of ForEachSection.
StartOn(s) ==
  /\ stream' = s
  /\ offset' = s.c13LineInfoOffset
  /\ inSection' = FALSE
  /\ itemOffset' = 0
  /\ headerEnd' = 0

\* The callback is called with the next section and starts on its items.
EnterSection ==
  /\ ~ inSection
  /\ offset < stream.size
  /\ inSection' = TRUE
  /\ itemOffset' = FirstItem
  /\ headerEnd' = SectionEnd
  /\ UNCHANGED <<stream, offset>>

\* The inner callback is called with the next item of a section of this kind.
CallbackWithItem(kinds) ==
  /\ inSection
  /\ Section.kind \in kinds
  /\ itemOffset < headerEnd
  /\ itemOffset' = NextItem
  /\ UNCHANGED <<stream, offset, inSection, headerEnd>>

\* The ForEach function and the callback return.
LeaveSection ==
  /\ inSection
  /\ itemOffset >= headerEnd
  /\ inSection' = FALSE
  /\ offset' = SectionEnd
  /\ UNCHANGED <<stream, itemOffset, headerEnd>>

AtEnd == ~ inSection /\ offset >= stream.size

\* The pointers handed out with a block: nullptr where there are no columns.
nullptr == -1
BlockLines == itemOffset + SizeOfBlockHeader
BlockColumnsOffset == SizeOfBlockHeader + Item.numLines * SizeOfLine

BlockColumns == IF BlockColumnsOffset < Item.size THEN itemOffset ELSE nullptr

-----------------------------------------------------------------------------

\* "Mismatch between offset and header end": the walk stands on a section, inside
\* one on an item, and where the items end the section ends, so that both loops
\* meet every item of the module exactly once, whatever the padding.
WalkFollowsLayout ==
  /\ offset \in DOMAIN stream.sectionAt \cup {stream.size}
  /\ inSection => /\ offset \in DOMAIN stream.sectionAt
                  /\ itemOffset \in stream.itemsOf[offset] \cup {headerEnd}
=============================================================================
