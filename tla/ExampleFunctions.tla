-------------------------- MODULE ExampleFunctions --------------------------
(***************************************************************************)
(* The examples main runs one after the other on the symbols of a file:    *)
(* ExampleContributions, ExampleSymbols, ExampleFunctionSymbols and        *)
(* ExampleFunctionVariables.  The last three go through the symbols of all *)
(* modules.                                                                *)
(***************************************************************************)
EXTENDS ModuleSymbolStream, ImageSectionStream, Sequences

CONSTANTS Programs, CountToShow

VARIABLES program, module, pc,
          contribution, contributions, shown,
          hashRecord, symbols,
          functionSymbols, seenFunctionRVAs, foundCount,
          blockLevel, recordCount, failed

contributionVars == <<contribution, contributions, shown>>
functionSymbolVars == <<functionSymbols, seenFunctionRVAs, foundCount>>
functionVariableVars == <<blockLevel, recordCount, failed>>

vars == <<symbolStreamVars, program, module, pc, contributionVars, hashRecord, symbols,
          functionSymbolVars, functionVariableVars>>

Contributions == INSTANCE ExampleContributions
Symbols == INSTANCE ExampleSymbols
FunctionSymbols == INSTANCE ExampleFunctionSymbols
FunctionVariables == INSTANCE ExampleFunctionVariables

\* The fields by which records, publics and contributions give an address.
IsLocated(record) == record.section \in Nat /\ record.offset \in Nat

\* Streams are smaller than 4 GiB, and within scopes come the kinds of records the
\* last example knows.
ASSUME SymbolsAssumption ==
  /\ UInt32Range \in Nat \ {0} /\ CountToShow \in Nat
  /\ \A s \in SymbolStreams :
       /\ s.size < UInt32Range
       /\ \A o \in DOMAIN s.recordAt :
            LET record == s.recordAt[o]
            IN  /\ OpenIn(s, o) # {} =>
                     record.kind \in InnerScopes \cup ScopeEnds \cup FunctionVariables!Printed
                /\ record.kind \in OutermostScopes \cup Symbols!InModules => IsLocated(record)
                /\ record.kind \in ProcedureKinds => record.codeSize \in Nat
                /\ record.kind = "S_TRAMPOLINE" =>
                     record.thunkSection \in Nat /\ record.thunkOffset \in Nat

ModuleStreams == SymbolStreams \cup {NoSymbolStream}

\* A program: the symbol streams of its modules, the addresses of the sections of
\* the image, the symbol records by their offset, the offsets the public and the
\* global stream have for them, and the contributions, each by a module there is.
\* The image has less than 4 GiB, and its headers are in front of the sections.
ASSUME ProgramsAssumption ==
  \A p \in Programs :
    /\ p.modules \in Seq(ModuleStreams)
    /\ p.virtualAddresses \in Seq(Nat \ {0})
    /\ p.hashRecords \in Seq(Nat \ {0}) /\ p.globalHashRecords \in Seq(Nat \ {0})
    /\ \A i \in DOMAIN p.hashRecords : p.hashRecords[i] - 1 \in DOMAIN p.symbolRecords
    /\ \A i \in DOMAIN p.globalHashRecords :
         p.globalHashRecords[i] - 1 \in DOMAIN p.symbolRecords
    /\ \A r \in DOMAIN p.symbolRecords :
         LET record == p.symbolRecords[r]
         IN  record.kind \in {"S_PUB32"} \cup Symbols!InGlobals =>
               /\ IsLocated(record)
               /\ record.section \in DOMAIN p.virtualAddresses =>
                    p.virtualAddresses[record.section] + record.offset < UInt32Range
    /\ p.contributions \in Seq([section : Nat, offset : Nat, size : Nat, moduleIndex : Nat])
    /\ \A c \in DOMAIN p.contributions :
         p.contributions[c].moduleIndex \in 0 .. (Len(p.modules) - 1)

\* Addresses in the image of a program, 0 for none.
AddressIn(p, section, o) == ConvertSectionOffsetToRVA(p.virtualAddresses, section, o)
ContributionAddress(p, c) == AddressIn(p, c.section, c.offset)
FunctionAddress(p, record) ==
  IF record.kind = "S_TRAMPOLINE" THEN AddressIn(p, record.thunkSection, record.thunkOffset)
  ELSE AddressIn(p, record.section, record.offset)

\* The linker lists the contributions by address, and a function lies in those of its
\* own module.
ASSUME ContributionsAssumption ==
  \A p \in Programs : \A c \in DOMAIN p.contributions :
    LET own == p.contributions[c]
        rva == ContributionAddress(p, own)
    IN  rva # 0 =>
          /\ \A d \in DOMAIN p.contributions :
               LET behind == ContributionAddress(p, p.contributions[d])
               IN  c < d /\ behind # 0 => rva <= behind
          /\ \A m \in DOMAIN p.modules : \A o \in DOMAIN p.modules[m].recordAt :
               LET record == p.modules[m].recordAt[o]
               IN  /\ record.kind \in ProcedureKinds \cup {"S_TRAMPOLINE"}
                   /\ FunctionAddress(p, record) \in rva .. (rva + own.size - 1)
                   => m = own.moduleIndex + 1

Init ==
  /\ program \in Programs
  /\ module = 1
  /\ stream = NoSymbolStream /\ offset = 0
  /\ Contributions!Init
  /\ hashRecord = 1 /\ symbols = <<>>
  /\ FunctionSymbols!Init
  /\ blockLevel = 0 /\ recordCount = 0 /\ failed = FALSE

ShowContributions ==
  /\ Contributions!Next
  /\ UNCHANGED <<symbolStreamVars, module, hashRecord, symbols,
                 functionSymbolVars, functionVariableVars>>

CallSymbols ==
  /\ pc = "contributions shown"
  /\ Symbols!Start
  /\ UNCHANGED <<contributionVars, functionSymbolVars, functionVariableVars>>

CollectSymbols ==
  /\ Symbols!Next
  /\ UNCHANGED <<contributionVars, functionSymbolVars, functionVariableVars>>

CallFunctionSymbols ==
  /\ Symbols!Finished
  /\ FunctionSymbols!Start
  /\ UNCHANGED <<contributionVars, symbols, functionVariableVars>>

CollectFunctions ==
  /\ FunctionSymbols!Next
  /\ UNCHANGED <<contributionVars, symbols, functionVariableVars>>

CallFunctionVariables ==
  /\ pc = "done"
  /\ FunctionVariables!Start
  /\ UNCHANGED <<contributionVars, hashRecord, symbols, functionSymbolVars>>

DisplayVariables ==
  /\ FunctionVariables!Next
  /\ UNCHANGED <<contributionVars, hashRecord, symbols, functionSymbolVars>>

Next == \/ ShowContributions
        \/ CallSymbols \/ CollectSymbols
        \/ CallFunctionSymbols \/ CollectFunctions
        \/ CallFunctionVariables \/ DisplayVariables

Spec == Init /\ [][Next]_vars

-----------------------------------------------------------------------------

\* The largest contributions are shown (see ExampleContributions).
LargestShown == Contributions!LargestShown

\* Every record with an address is a symbol once (see ExampleSymbols).
SymbolsComplete == Symbols!SymbolsComplete

\* Three examples agree about a program: a function some module describes lies in
\* no contribution that ExampleContributions puts down to another module, and what
\* ExampleFunctionSymbols comes up with, ExampleSymbols has at the same address.
FunctionsInOwnContributions ==
  pc = "done" =>
    \A i \in DOMAIN functionSymbols :
      LET f == functionSymbols[i]
      IN  /\ \E j \in DOMAIN symbols : symbols[j].from = f.from /\ symbols[j].rva = f.rva
          /\ \A c \in DOMAIN contributions :
               LET own == contributions[c]
               IN  f.from[1] # 0 /\ f.rva \in own.rva .. (own.rva + own.size - 1)
                     => own.objectFile = f.from[1]

\* Every function comes out once (see ExampleFunctionSymbols).
FunctionsComplete == FunctionSymbols!FunctionsComplete

\* Frame information stays with its function (see ExampleFunctionSymbols).
FrameProcOfOwnFunction == FunctionSymbols!FrameProcOfOwnFunction

\* The last function gets the size it was contributed with (see
\* ExampleFunctionSymbols).
LastSizeContributed == FunctionSymbols!LastSizeContributed

\* The level counted is the depth of the scopes (see ExampleFunctionVariables).
LevelIsDepth == FunctionVariables!LevelIsDepth

\* No assertion of the second example fails (see ExampleFunctionVariables).
AssertsHold == FunctionVariables!AssertsHold

=============================================================================
