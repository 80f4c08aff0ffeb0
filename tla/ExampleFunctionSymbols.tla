----------------------- MODULE ExampleFunctionSymbols -----------------------
(***************************************************************************)
(* Examples/ExampleFunctionSymbols.cpp: collects the functions of a        *)
(* program, those the modules describe and then the public ones no module  *)
(* knows, sorts them by address, and looks the size of the last one up in  *)
(* the section contributions.                                              *)
(***************************************************************************)
EXTENDS ModuleSymbolStream, ImageSectionStream, FiniteSets, Functions, TLC

VARIABLES program, module,
          pc,
          functionSymbols,
          seenFunctionRVAs,
          hashRecord,         \* loop over the public symbols
          foundCount          \* sizes that follow from the next symbol

symbolVars == <<functionSymbols, seenFunctionRVAs, hashRecord, foundCount>>

Procedures == {"S_LPROC32", "S_GPROC32", "S_LPROC32_ID", "S_GPROC32_ID"}

RVA(section, o) == ConvertSectionOffsetToRVA(program.virtualAddresses, section, o)

Init ==
  /\ functionSymbols = <<>> /\ seenFunctionRVAs = {}
  /\ foundCount = 0

Start ==
  /\ module' = 1
  /\ pc' = "module"
  /\ hashRecord' = 1
  /\ UNCHANGED <<symbolStreamVars, program, functionSymbols, seenFunctionRVAs, foundCount>>

SkipModule ==
  /\ pc = "module" /\ module <= Len(program.modules)
  /\ ~ HasSymbolStream(program.modules[module])
  /\ module' = module + 1
  /\ UNCHANGED <<symbolStreamVars, program, pc, symbolVars>>

StartModule ==
  /\ pc = "module" /\ module <= Len(program.modules)
  /\ HasSymbolStream(program.modules[module])
  /\ StartOn(program.modules[module])
  /\ pc' = "symbols"
  /\ UNCHANGED <<program, module, symbolVars>>

\* A symbol is told apart by the record it was made from, which has its name.
\* That the address is 0 says that the record is of no use.
NoAddress == [rva |-> 0, size |-> 0]
FunctionOf(record) ==
  CASE record.kind \in Procedures ->
         [rva |-> RVA(record.section, record.offset), size |-> record.codeSize]
    [] record.kind = "S_THUNK32" /\ record.thunk = "TrampolineIncremental" ->
         [rva |-> RVA(record.section, record.offset), size |-> 5]
    [] record.kind = "S_TRAMPOLINE" ->
         [rva |-> RVA(record.thunkSection, record.thunkOffset), size |-> 5]
    [] OTHER -> NoAddress

\* Variant: the information belongs to the first symbol not to have any.
StoreFrameProcWhereNone ==
  /\ pc = "symbols"
  /\ Callback /\ Record.kind = "S_FRAMEPROC"
  /\ LET free == {i \in DOMAIN functionSymbols : functionSymbols[i].frameProc = nullptr}
         first == CHOOSE i \in free : \A j \in free : i <= j
     IN  functionSymbols' = IF free = {} THEN functionSymbols
                            ELSE [functionSymbols EXCEPT ![first].frameProc = offset]
  /\ UNCHANGED <<program, module, pc, seenFunctionRVAs, hashRecord, foundCount>>

\* The information is about the function stored last.  There is one: in front of
\* an S_FRAMEPROC comes the function it is about.
StoreFrameProc ==
  /\ pc = "symbols"
  /\ Callback /\ Record.kind = "S_FRAMEPROC"
  /\ functionSymbols' = [functionSymbols EXCEPT ![Len(functionSymbols)].frameProc = offset]
  /\ UNCHANGED <<program, module, pc, seenFunctionRVAs, hashRecord, foundCount>>

StoreFunction ==
  /\ pc = "symbols"
  /\ Callback /\ Record.kind # "S_FRAMEPROC"
  /\ LET function == FunctionOf(Record) IN
     IF function.rva = 0
       THEN UNCHANGED <<functionSymbols, seenFunctionRVAs>>
       ELSE /\ functionSymbols' = Append(functionSymbols,
                 [from |-> <<module, offset>>, rva |-> function.rva,
                  size |-> function.size, frameProc |-> nullptr])
            /\ seenFunctionRVAs' = seenFunctionRVAs \cup {function.rva}
  /\ UNCHANGED <<program, module, pc, hashRecord, foundCount>>

FinishModule ==
  /\ pc = "symbols"
  /\ AtEnd
  /\ module' = module + 1
  /\ pc' = "module"
  /\ UNCHANGED <<symbolStreamVars, program, symbolVars>>

\* PublicSymbolStream::GetRecord: the offsets of hash records start at 1.
GetRecord(record) == program.symbolRecords[record - 1]

\* Variant: a public symbol is stored whether or not a module knows the function.
IsNewAlways(record) ==
  /\ record.kind = "S_PUB32" /\ record.isFunction
  /\ RVA(record.section, record.offset) # 0

IsNew(record) ==
  /\ record.kind = "S_PUB32" /\ record.isFunction
  /\ RVA(record.section, record.offset) \notin {0} \cup seenFunctionRVAs

\* The address of a new public function is not added to those seen.
StorePublic ==
  /\ pc = "module" /\ module > Len(program.modules)
  /\ hashRecord <= Len(program.hashRecords)
  /\ LET at == program.hashRecords[hashRecord]
         record == GetRecord(at)
     IN  functionSymbols' =
           IF IsNew(record)
             THEN Append(functionSymbols,
                    [from |-> <<0, at - 1>>, rva |-> RVA(record.section, record.offset),
                     size |-> 0, frameProc |-> nullptr])
             ELSE functionSymbols
  /\ hashRecord' = hashRecord + 1
  /\ UNCHANGED <<symbolStreamVars, program, module, pc, seenFunctionRVAs, foundCount>>

\* std::sort may leave symbols with the same address in any order: any of the
\* permutations, which are the bijections, that sorts them.
Sort ==
  /\ pc = "module" /\ module > Len(program.modules)
  /\ hashRecord > Len(program.hashRecords)
  /\ \E sorted \in Permutations(DOMAIN functionSymbols)
            \cap Bijection(DOMAIN functionSymbols, DOMAIN functionSymbols) :
       /\ \A i, j \in DOMAIN functionSymbols :
            i < j => functionSymbols[sorted[i]].rva <= functionSymbols[sorted[j]].rva
       /\ functionSymbols' = [i \in DOMAIN functionSymbols |-> functionSymbols[sorted[i]]]
  /\ pc' = "sorted"
  /\ UNCHANGED <<symbolStreamVars, program, module, seenFunctionRVAs, hashRecord, foundCount>>

Last == functionSymbols[Len(functionSymbols)]

\* The contributions that end the search: the first of those is the one taken, or
\* the first behind the address if there is none for it.
Deciding ==
  {c \in DOMAIN program.contributions :
     LET rva == RVA(program.contributions[c].section, program.contributions[c].offset)
     IN  rva # 0 /\ rva >= Last.rva}
ContributionRVA(c) == RVA(program.contributions[c].section, program.contributions[c].offset)

\* Variant: the search takes the contribution it ends at, wherever that starts.
SizeFromNextContribution ==
  IF Deciding = {} THEN 0
  ELSE program.contributions[CHOOSE c \in Deciding : \A d \in Deciding : c <= d].size

SizeFromContributions ==
  IF Deciding = {} THEN 0
  ELSE LET c == CHOOSE c \in Deciding : \A d \in Deciding : c <= d
       IN  IF ContributionRVA(c) = Last.rva THEN program.contributions[c].size ELSE 0

\* The sizes in front of the last one are only counted, not stored.
FindSizes ==
  /\ pc = "sorted"
  /\ IF functionSymbols = <<>>
       THEN UNCHANGED <<functionSymbols, foundCount>>
       ELSE /\ foundCount' = Cardinality({i \in 1 .. (Len(functionSymbols) - 1) :
                                            functionSymbols[i].size = 0})
            /\ functionSymbols' =
                 IF Last.size # 0 THEN functionSymbols
                 ELSE [functionSymbols EXCEPT ![Len(functionSymbols)].size =
                         SizeFromContributions]
  /\ pc' = "done"
  /\ UNCHANGED <<symbolStreamVars, program, module, seenFunctionRVAs, hashRecord>>

Next == \/ SkipModule \/ StartModule \/ FinishModule
        \/ StoreFrameProc \/ StoreFunction
        \/ StorePublic \/ Sort \/ FindSizes

-----------------------------------------------------------------------------

ModuleFunctions ==
  UNION {{<<m, o>> : o \in {o \in DOMAIN program.modules[m].recordAt :
                              FunctionOf(program.modules[m].recordAt[o]).rva # 0}} :
         m \in DOMAIN program.modules}
ModuleRecord(f) == program.modules[f[1]].recordAt[f[2]]
ModuleRVAs == {FunctionOf(ModuleRecord(f)).rva : f \in ModuleFunctions}
PublicFunctions ==
  {i \in DOMAIN program.hashRecords :
     LET record == GetRecord(program.hashRecords[i])
     IN  /\ record.kind = "S_PUB32" /\ record.isFunction
         /\ RVA(record.section, record.offset) \notin {0} \cup ModuleRVAs}

\* What "most profilers need": every function of every module comes out once, with
\* its own address and the size its record has, if any, and a public function only if
\* no module has one at its address, whatever the order of modules and publics.
FunctionsComplete ==
  pc = "done" =>
    /\ Len(functionSymbols) = Cardinality(ModuleFunctions) + Cardinality(PublicFunctions)
    /\ \A f \in ModuleFunctions : \E i \in DOMAIN functionSymbols :
         /\ functionSymbols[i].from = f
         /\ functionSymbols[i].rva = FunctionOf(ModuleRecord(f)).rva
         /\ FunctionOf(ModuleRecord(f)).size \in {0, functionSymbols[i].size}
    /\ \A p \in PublicFunctions : \E i \in DOMAIN functionSymbols :
         functionSymbols[i].from = <<0, program.hashRecords[p] - 1>>
    /\ \A i \in 1 .. (Len(functionSymbols) - 1) :
         functionSymbols[i].rva <= functionSymbols[i + 1].rva

\* The frame information stored with a function, found by position while the
\* records went by, is still that of the function when all have been sorted: its
\* record lies between those that start and end the function.
FrameProcOfOwnFunction ==
  pc = "done" =>
    \A i \in DOMAIN functionSymbols :
      functionSymbols[i].frameProc # nullptr =>
        LET f == functionSymbols[i].from
        IN  /\ f[1] # 0 /\ ModuleRecord(f).kind \in Procedures
            /\ functionSymbols[i].frameProc \in f[2] .. ModuleRecord(f).end
            /\ ModuleRecord(<<f[1], functionSymbols[i].frameProc>>).kind = "S_FRAMEPROC"

\* "we can't deduce the last symbol's size, so have to consult the contributions":
\* the last one's size is the one some module contributes at its address, however
\* many contributions have no address, and is left unknown only if none does.
LastSizeContributed ==
  (pc = "done" /\ functionSymbols # <<>> /\ Last.from[1] = 0) =>
    LET own == {c \in DOMAIN program.contributions : ContributionRVA(c) = Last.rva}
    IN  IF own = {} THEN Last.size = 0
        ELSE \E c \in own : Last.size = program.contributions[c].size
=============================================================================
