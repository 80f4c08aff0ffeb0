--------------------------- MODULE ExampleSymbols ---------------------------
(***************************************************************************)
(* Examples/ExampleSymbols.cpp: collects everything in a program that has a *)
(* name and an address, first from the public symbols, then from the       *)
(* global ones, then from the symbols of all modules.                      *)
(***************************************************************************)
EXTENDS ModuleSymbolStream, ImageSectionStream, FiniteSets

VARIABLES program, module, pc,
          hashRecord,         \* position of either loop over hash records
          symbols

InModules == {"S_LPROC32", "S_GPROC32", "S_LPROC32_ID", "S_GPROC32_ID", "S_LDATA32", "S_LTHREAD32"}
InGlobals == {"S_GDATA32", "S_GTHREAD32", "S_LDATA32", "S_LTHREAD32"}

RVA(section, o) == ConvertSectionOffsetToRVA(program.virtualAddresses, section, o)

\* The address of a record in the public and the global stream and in a module; 0
\* if it has none, or if it is of a kind that is not looked at there.
PublicRVA(record) == IF record.kind = "S_PUB32" THEN RVA(record.section, record.offset) ELSE 0
GlobalRVA(record) == IF record.kind \in InGlobals THEN RVA(record.section, record.offset) ELSE 0
ModuleRVA(record) ==
  CASE record.kind \in InModules -> RVA(record.section, record.offset)
    [] record.kind = "S_THUNK32" /\ record.thunk = "TrampolineIncremental" ->
         RVA(record.section, record.offset)
    [] record.kind = "S_TRAMPOLINE" -> RVA(record.thunkSection, record.thunkOffset)
    [] OTHER -> 0

\* A symbol is told apart by the record it was made from, which has its name.
PushBack(from, rva) ==
  symbols' = IF rva = 0 THEN symbols ELSE Append(symbols, [from |-> from, rva |-> rva])

Start ==
  /\ pc' = "publics"
  /\ hashRecord' = 1
  /\ UNCHANGED <<symbolStreamVars, program, module, symbols>>

\* GetRecord of the PublicSymbolStream: the offsets of hash records start at 1.
GetPublicRecord(record) == program.symbolRecords[record - 1]

StorePublic ==
  /\ pc = "publics" /\ hashRecord <= Len(program.hashRecords)
  /\ LET at == program.hashRecords[hashRecord]
     IN  PushBack(<<0, at - 1>>, PublicRVA(GetPublicRecord(at)))
  /\ hashRecord' = hashRecord + 1
  /\ UNCHANGED <<symbolStreamVars, program, module, pc>>

StartGlobals ==
  /\ pc = "publics" /\ hashRecord > Len(program.hashRecords)
  /\ pc' = "globals"
  /\ hashRecord' = 1
  /\ UNCHANGED <<symbolStreamVars, program, module, symbols>>

\* Variant: the offset is taken as it is, where there is a record at all.
GetRecordAtOffset(record) ==
  program.symbolRecords[IF record \in DOMAIN program.symbolRecords THEN record ELSE record - 1]

\* GetRecord of the GlobalSymbolStream.
GetGlobalRecord(record) == program.symbolRecords[record - 1]

StoreGlobal ==
  /\ pc = "globals" /\ hashRecord <= Len(program.globalHashRecords)
  /\ LET at == program.globalHashRecords[hashRecord]
     IN  PushBack(<<0, at - 1>>, GlobalRVA(GetGlobalRecord(at)))
  /\ hashRecord' = hashRecord + 1
  /\ UNCHANGED <<symbolStreamVars, program, module, pc>>

StartModules ==
  /\ pc = "globals" /\ hashRecord > Len(program.globalHashRecords)
  /\ pc' = "symbol modules"
  /\ module' = 1
  /\ UNCHANGED <<symbolStreamVars, program, hashRecord, symbols>>

AtModule == pc = "symbol modules" /\ module <= Len(program.modules)

SkipModule ==
  /\ AtModule
  /\ ~ HasSymbolStream(program.modules[module])
  /\ module' = module + 1
  /\ UNCHANGED <<symbolStreamVars, program, pc, hashRecord, symbols>>

StartModule ==
  /\ AtModule
  /\ HasSymbolStream(program.modules[module])
  /\ StartOn(program.modules[module])
  /\ pc' = "module symbols"
  /\ UNCHANGED <<program, module, hashRecord, symbols>>

StoreModuleSymbol ==
  /\ pc = "module symbols"
  /\ Callback
  /\ PushBack(<<module, offset>>, ModuleRVA(Record))
  /\ UNCHANGED <<program, module, pc, hashRecord>>

FinishModule ==
  /\ pc = "module symbols"
  /\ AtEnd
  /\ module' = module + 1
  /\ pc' = "symbol modules"
  /\ UNCHANGED <<symbolStreamVars, program, hashRecord, symbols>>

Next == \/ StorePublic \/ StartGlobals \/ StoreGlobal \/ StartModules
        \/ SkipModule \/ StartModule \/ StoreModuleSymbol \/ FinishModule

Finished == pc = "symbol modules" /\ module > Len(program.modules)

-----------------------------------------------------------------------------

\* What the linker wrote that has an address, told from the program alone.
Addressed(hashRecords, kinds) ==
  {k \in DOMAIN hashRecords :
     LET record == program.symbolRecords[hashRecords[k] - 1]
     IN  /\ record.kind \in kinds
         /\ record.section \in DOMAIN program.virtualAddresses}
AddressedInModule(m) ==
  {o \in DOMAIN program.modules[m].recordAt : ModuleRVA(program.modules[m].recordAt[o]) # 0}

\* Every record with an address is a symbol exactly once, a public and a global of
\* the same thing once each, wherever it comes, whichever records without an address,
\* or without a meaning in that stream, come before it; and no other record is.
SymbolsComplete ==
  Finished =>
    LET publics == Addressed(program.hashRecords, {"S_PUB32"})
        globals == Addressed(program.globalHashRecords, InGlobals)
        inModules == UNION {{<<m, o>> : o \in AddressedInModule(m)} : m \in DOMAIN program.modules}
        froms == {symbols[i].from : i \in DOMAIN symbols}
    IN  /\ Len(symbols) = Cardinality(publics) + Cardinality(globals) + Cardinality(inModules)
        /\ froms = {<<0, program.hashRecords[k] - 1>> : k \in publics}
                   \cup {<<0, program.globalHashRecords[k] - 1>> : k \in globals}
                   \cup inModules
=============================================================================
