------------------------ MODULE ModuleSymbolStream ------------------------
(***************************************************************************)
(* PDB_ModuleSymbolStream: the symbols of a module, CodeView records of    *)
(* varying length behind a signature, which ForEachSymbol hands to a       *)
(* callback one after the other.                                           *)
(***************************************************************************)
EXTENDS PDBUtil

CONSTANT SymbolStreams        \* the well-formed symbol streams

SizeOfSignature == 4          \* sizeof(uint32_t)
SizeOfRecordHeader == 4       \* sizeof(CodeView::DBI::RecordHeader)
SizeOfUInt16 == 2

NextRecordIn(s, o) ==
  RoundUpToMultiple(o + SizeOfRecordHeader + (s.recordAt[o].size - SizeOfUInt16), 4)

\* recordAt[o] is the record whose header is at offset o; its size counts the kind.
\* The records follow one another from the signature to the end of the stream.
ASSUME SymbolStreamsAssumption ==
  \A s \in SymbolStreams :
    /\ s.size \in Nat
    /\ SizeOfSignature \in DOMAIN s.recordAt \cup {s.size}
    /\ \A o \in DOMAIN s.recordAt :
         /\ o \in SizeOfSignature .. (s.size - 1)
         /\ s.recordAt[o].size \in Nat \ {0, 1}
         /\ NextRecordIn(s, o) \in DOMAIN s.recordAt \cup {s.size}
         /\ \A p \in DOMAIN s.recordAt : p <= o \/ NextRecordIn(s, o) <= p

\* The kinds of records that open a scope: those of a function, which lies in no
\* other, and those within one.  Such a record names the one that ends its scope.
ProcedureKinds == {"S_LPROC32", "S_GPROC32", "S_LPROC32_ID", "S_GPROC32_ID"}
OutermostScopes == ProcedureKinds \cup {"S_THUNK32"}
InnerScopes == {"S_BLOCK32", "S_INLINESITE"}
ScopeEnds == {"S_END", "S_INLINESITE_END"}

Scopes(s) == {o \in DOMAIN s.recordAt : "end" \in DOMAIN s.recordAt[o]}

\* The scopes open in front of an offset: those whose record is in front of it and
\* whose end is not.
OpenIn(s, o) == {p \in Scopes(s) : p < o /\ o <= s.recordAt[p].end}

\* What compilers write: every scope has an end of its own, functions lie in no
\* scope, frame information lies in its function, and the thunks of incremental
\* linking are S_TRAMPOLINE ("we have never seen incremental linking thunks stored
\* inside a S_THUNK32 symbol").
ASSUME ScopesAssumption ==
  \A s \in SymbolStreams : \A o \in DOMAIN s.recordAt :
    /\ o \in Scopes(s) <=> s.recordAt[o].kind \in OutermostScopes \cup InnerScopes
    /\ o \in Scopes(s) =>
         /\ s.recordAt[o].end \in DOMAIN s.recordAt /\ o < s.recordAt[o].end
         /\ s.recordAt[s.recordAt[o].end].kind \in ScopeEnds
    /\ s.recordAt[o].kind \in ScopeEnds =>
         \E p \in Scopes(s) : \A q \in Scopes(s) : s.recordAt[q].end = o <=> q = p
    /\ s.recordAt[o].kind \in OutermostScopes \cup {"S_TRAMPOLINE"} => OpenIn(s, o) = {}
    /\ s.recordAt[o].kind = "S_FRAMEPROC" =>
         \E p \in OpenIn(s, o) : s.recordAt[p].kind \in ProcedureKinds
    /\ s.recordAt[o].kind = "S_THUNK32" => s.recordAt[o].thunk # "TrampolineIncremental"

VARIABLES stream,             \* m_stream
          offset              \* local of ForEachSymbol

symbolStreamVars == <<stream, offset>>

nullptr == -1

Record == stream.recordAt[offset]

NextRecord(o) == NextRecordIn(stream, o)

\* A module without debug information has no such stream: Module::HasSymbolStream.
NoSymbolStream == [size |-> 0, recordAt |-> <<>>]
HasSymbolStream(s) == s # NoSymbolStream

\* Module::CreateSymbolStream, then ForEachSymbol.
StartOn(s) == stream' = s /\ offset' = SizeOfSignature

\* One iteration: the callback runs on the record, the offset moves on.
Callback ==
  /\ offset < stream.size
  /\ offset' = NextRecord(offset)
  /\ UNCHANGED stream

AtEnd == offset >= stream.size

=============================================================================
