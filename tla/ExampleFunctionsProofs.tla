----------------------- MODULE ExampleFunctionsProofs -----------------------
(***************************************************************************)
(* What holds of ExampleFunctions for every program.                       *)
(*                                                                         *)
(*   - ExampleFunctionVariables: the level is the depth of the scopes, no  *)
(*     assertion fails.                                                    *)
(*   - ExampleFunctionSymbols: frame information stays with its function,  *)
(*     the function added last has its size from a contribution, no        *)
(*     function is missing.                                                *)
(*   - ExampleContributions: the largest contributions are shown.          *)
(*   - ExampleSymbols: no symbol is missing, and each function lies in a   *)
(*     contribution of its own module.                                     *)
(***************************************************************************)
EXTENDS ExampleFunctions, FiniteSetTheorems, TLAPS

-----------------------------------------------------------------------------
(* The records of a stream, one behind the other.                          *)

\* The places a walk over the records of a stream can be at.
PlacesIn(s) == DOMAIN s.recordAt \cup {s.size}

\* From a record a walk gets to the next one or to the end, and passes no other.
LEMMA NextRecordFollows ==
  ASSUME NEW s \in SymbolStreams, NEW o \in DOMAIN s.recordAt
  PROVE  /\ o \in Nat /\ NextRecordIn(s, o) \in Nat
         /\ o < s.size /\ o < NextRecordIn(s, o)
         /\ NextRecordIn(s, o) \in PlacesIn(s)
         /\ \A p \in DOMAIN s.recordAt : p < NextRecordIn(s, o) <=> p <= o
<1> DEFINE next == NextRecordIn(s, o)
           size == s.recordAt[o].size
<1>1. /\ s.size \in Nat /\ o \in SizeOfSignature .. (s.size - 1)
      /\ size \in Nat \ {0, 1}
      /\ next \in PlacesIn(s)
      /\ \A p \in DOMAIN s.recordAt : p \in SizeOfSignature .. (s.size - 1)
      /\ \A p \in DOMAIN s.recordAt : p <= o \/ next <= p
  BY SymbolStreamsAssumption DEF PlacesIn
<1>2. next = ((o + 4 + (size - 2) + 4 - 1) \div 4) * 4
  BY DEF NextRecordIn, RoundUpToMultiple, SizeOfRecordHeader, SizeOfUInt16
<1> HIDE DEF next, size
<1>3. o < next /\ next \in Nat
  BY <1>1, <1>2 DEF SizeOfSignature
<1> QED
  BY <1>1, <1>3 DEF next, SizeOfSignature

\* A stream has finitely many records, fewer than a uint32_t can count.
LEMMA RecordsAreCountable ==
  ASSUME NEW s \in SymbolStreams
  PROVE  /\ IsFiniteSet(DOMAIN s.recordAt)
         /\ Cardinality(DOMAIN s.recordAt) \in Nat
         /\ Cardinality(DOMAIN s.recordAt) < UInt32Range
<1> DEFINE records == DOMAIN s.recordAt
<1>1. s.size \in Nat /\ s.size < UInt32Range /\ UInt32Range \in Nat
  BY SymbolStreamsAssumption, SymbolsAssumption
<1>2. records \subseteq 1 .. s.size
  <2>1. \A o \in records : o \in SizeOfSignature .. (s.size - 1)
    BY SymbolStreamsAssumption
  <2> QED  BY <2>1, <1>1 DEF SizeOfSignature
<1>3. IsFiniteSet(1 .. s.size) /\ Cardinality(1 .. s.size) = s.size
  <2>1. ASSUME NEW n \in Nat PROVE IsFiniteSet(1 .. n) /\ Cardinality(1 .. n) = n
    BY FS_Interval
  <2> QED  BY <2>1, <1>1
<1>4. IsFiniteSet(records) /\ Cardinality(records) <= s.size
  BY <1>2, <1>3, FS_Subset
<1>5. Cardinality(records) \in Nat
  BY <1>4, FS_CardinalityType
<1> QED  BY <1>1, <1>4, <1>5

-----------------------------------------------------------------------------
(* The examples one after the other.                                       *)

ContributionPhases == {"contributions", "contributions sorted", "contributions shown"}
SymbolPhases == {"publics", "globals", "symbol modules", "module symbols"}
FunctionPhases == {"module", "symbols", "sorted", "done"}
VariablePhases == {"variables", "variable symbols"}

\* The phases in which ForEachSymbol goes through the records of a module.
Walks == {"module symbols", "symbols", "variable symbols"}

\* While a walk goes on, it is at a record of the module or at its end.
Walking ==
  /\ program \in Programs
  /\ module \in Nat \ {0}
  /\ pc \in ContributionPhases \cup SymbolPhases \cup FunctionPhases \cup VariablePhases
  /\ pc \in Walks => /\ module \in DOMAIN program.modules
                     /\ stream = program.modules[module]
                     /\ stream \in SymbolStreams
                     /\ offset \in PlacesIn(stream)

\* Which example a step belongs to.
LEMMA StepPhases ==
  /\ ShowContributions => pc \in ContributionPhases /\ pc' \in ContributionPhases
  /\ CallSymbols => pc \in ContributionPhases /\ pc' = "publics"
  /\ CollectSymbols => pc \in SymbolPhases /\ pc' \in SymbolPhases
  /\ CallFunctionSymbols => pc \in SymbolPhases /\ pc' = "module"
  /\ CollectFunctions => pc \in FunctionPhases /\ pc' \in FunctionPhases
  /\ CallFunctionVariables => pc \in FunctionPhases /\ pc' = "variables"
  /\ DisplayVariables => pc \in VariablePhases /\ pc' \in VariablePhases
<1> USE DEF ContributionPhases, SymbolPhases, FunctionPhases, VariablePhases
<1>1. ShowContributions => pc \in ContributionPhases /\ pc' \in ContributionPhases
  BY DEF ShowContributions, Contributions!Next, Contributions!StoreContribution,
         Contributions!Sort, Contributions!ShowLargest
<1>2. CallSymbols => pc \in ContributionPhases /\ pc' = "publics"
  BY DEF CallSymbols, Symbols!Start
<1>3. CollectSymbols => pc \in SymbolPhases /\ pc' \in SymbolPhases
  BY DEF CollectSymbols, Symbols!Next, Symbols!StorePublic, Symbols!StartGlobals,
         Symbols!StoreGlobal, Symbols!StartModules, Symbols!AtModule, Symbols!SkipModule,
         Symbols!StartModule, Symbols!StoreModuleSymbol, Symbols!FinishModule
<1>4. CallFunctionSymbols => pc \in SymbolPhases /\ pc' = "module"
  BY DEF CallFunctionSymbols, Symbols!Finished, FunctionSymbols!Start
<1>5. CollectFunctions => pc \in FunctionPhases /\ pc' \in FunctionPhases
  BY DEF CollectFunctions, FunctionSymbols!Next, FunctionSymbols!SkipModule,
         FunctionSymbols!StartModule, FunctionSymbols!FinishModule,
         FunctionSymbols!StoreFrameProc, FunctionSymbols!StoreFunction,
         FunctionSymbols!StorePublic, FunctionSymbols!Sort, FunctionSymbols!FindSizes
<1>6. CallFunctionVariables => pc \in FunctionPhases /\ pc' = "variables"
  BY DEF CallFunctionVariables, FunctionVariables!Start
<1>7. DisplayVariables => pc \in VariablePhases /\ pc' \in VariablePhases
  BY DEF DisplayVariables, FunctionVariables!Next, FunctionVariables!SkipModule,
         FunctionVariables!StartModule, FunctionVariables!FinishModule,
         FunctionVariables!EndScope, FunctionVariables!OpenNested,
         FunctionVariables!OpenProcedure, FunctionVariables!OpenThunk,
         FunctionVariables!PrintRecord, FunctionVariables!IgnoreRecord,
         FunctionVariables!Symbol
<1> QED  BY <1>1, <1>2, <1>3, <1>4, <1>5, <1>6, <1>7

\* One iteration of ForEachSymbol: the callback runs on a record, and the walk gets
\* to the next one.
LEMMA WalkMovesOn ==
  ASSUME Walking, pc \in Walks,
         Symbols!Callback \/ FunctionSymbols!Callback \/ FunctionVariables!Callback
  PROVE  /\ stream' = stream /\ stream \in SymbolStreams
         /\ offset \in DOMAIN stream.recordAt
         /\ offset' = NextRecordIn(stream, offset)
         /\ offset' \in PlacesIn(stream)
<1>1. stream \in SymbolStreams /\ offset \in PlacesIn(stream)
  BY DEF Walking
<1>2. offset < stream.size /\ offset' = NextRecordIn(stream, offset) /\ stream' = stream
  <2>1. CASE Symbols!Callback
    BY <2>1 DEF Symbols!Callback, Symbols!NextRecord, Symbols!NextRecordIn, NextRecordIn,
      Symbols!RoundUpToMultiple, RoundUpToMultiple, Symbols!SizeOfRecordHeader,
      SizeOfRecordHeader, Symbols!SizeOfUInt16, SizeOfUInt16
  <2>2. CASE FunctionSymbols!Callback
    BY <2>2 DEF FunctionSymbols!Callback, FunctionSymbols!NextRecord,
      FunctionSymbols!NextRecordIn, NextRecordIn, FunctionSymbols!RoundUpToMultiple,
      RoundUpToMultiple, FunctionSymbols!SizeOfRecordHeader, SizeOfRecordHeader,
      FunctionSymbols!SizeOfUInt16, SizeOfUInt16
  <2>3. CASE FunctionVariables!Callback
    BY <2>3 DEF FunctionVariables!Callback, FunctionVariables!NextRecord,
      FunctionVariables!NextRecordIn, NextRecordIn, FunctionVariables!RoundUpToMultiple,
      RoundUpToMultiple, FunctionVariables!SizeOfRecordHeader, SizeOfRecordHeader,
      FunctionVariables!SizeOfUInt16, SizeOfUInt16
  <2> QED  BY <2>1, <2>2, <2>3
<1>3. stream.size \in Nat  BY <1>1, SymbolStreamsAssumption
<1>4. offset \in DOMAIN stream.recordAt  BY <1>1, <1>2, <1>3 DEF PlacesIn
<1> QED  BY <1>1, <1>2, <1>4, NextRecordFollows

\* A module that has symbols is walked from its first record.
LEMMA WalkStarts ==
  ASSUME Walking, module <= Len(program.modules),
         HasSymbolStream(program.modules[module])
  PROVE  /\ module \in DOMAIN program.modules
         /\ program.modules[module] \in SymbolStreams
         /\ SizeOfSignature \in PlacesIn(program.modules[module])
<1>1. program.modules \in Seq(ModuleStreams)  BY ProgramsAssumption DEF Walking
<1>2. module \in Nat \ {0}  BY DEF Walking
<1>3. Len(program.modules) \in Nat /\ DOMAIN program.modules = 1 .. Len(program.modules)
  BY <1>1
<1>4. module \in DOMAIN program.modules  BY <1>2, <1>3
<1>5. program.modules[module] \in ModuleStreams  BY <1>1, <1>4
<1>6. program.modules[module] \in SymbolStreams
  BY <1>5 DEF ModuleStreams, HasSymbolStream
<1> QED  BY <1>4, <1>6, SymbolStreamsAssumption DEF PlacesIn

LEMMA WalkBegun ==
  ASSUME Walking, module <= Len(program.modules),
         HasSymbolStream(program.modules[module]),
         stream' = program.modules[module], offset' = SizeOfSignature,
         module' = module, program' = program, pc' \in Walks
  PROVE  Walking'
  BY WalkStarts
  DEF Walking, Walks, SymbolPhases, FunctionPhases, VariablePhases, PlacesIn

LEMMA WalkGoesOn ==
  ASSUME Walking, pc \in Walks, pc' = pc, module' = module, program' = program,
         Symbols!Callback \/ FunctionSymbols!Callback \/ FunctionVariables!Callback
  PROVE  Walking'
  BY WalkMovesOn DEF Walking, PlacesIn

LEMMA WalkOver ==
  ASSUME Walking, program' = program, module' \in Nat \ {0},
         pc' \in (ContributionPhases \cup SymbolPhases \cup FunctionPhases \cup VariablePhases)
                 \ Walks
  PROVE  Walking'
  BY DEF Walking

\* A walk is over the records of the module it is at, in each of the three examples.
THEOREM WalksStayInModules == Spec => []Walking
<1>1. Init => Walking
  BY DEF Init, Walking, Contributions!Init, ContributionPhases, Walks
<1>2. ASSUME Walking, [Next]_vars PROVE Walking'
  <2> USE DEF Walks, ContributionPhases, SymbolPhases, FunctionPhases, VariablePhases
  <2>1. module \in Nat \ {0} /\ module + 1 \in Nat \ {0} /\ 1 \in Nat \ {0}
    <3>1. module \in Nat \ {0}  BY <1>2 DEF Walking
    <3> QED  BY ONLY <3>1
  <2>2. CASE ShowContributions
    <3>1. program' = program /\ module' = module
      BY <2>2 DEF ShowContributions, Contributions!Next, Contributions!StoreContribution,
                  Contributions!Sort, Contributions!ShowLargest
    <3> QED  BY <1>2, <2>1, <2>2, <3>1, StepPhases, WalkOver
  <2>3. CASE CallSymbols
    BY <1>2, <2>1, <2>3, WalkOver DEF CallSymbols, Symbols!Start
  <2>4. CASE CollectSymbols
    <3> USE DEF CollectSymbols
    <3>1. CASE Symbols!StorePublic
      BY <1>2, <2>1, <3>1, WalkOver DEF Symbols!StorePublic
    <3>2. CASE Symbols!StartGlobals
      BY <1>2, <2>1, <3>2, WalkOver DEF Symbols!StartGlobals
    <3>3. CASE Symbols!StoreGlobal
      BY <1>2, <2>1, <3>3, WalkOver DEF Symbols!StoreGlobal
    <3>4. CASE Symbols!StartModules
      BY <1>2, <2>1, <3>4, WalkOver DEF Symbols!StartModules
    <3>5. CASE Symbols!SkipModule
      BY <1>2, <2>1, <3>5, WalkOver DEF Symbols!SkipModule, Symbols!AtModule
    <3>6. CASE Symbols!StartModule
      BY <1>2, <3>6, WalkBegun
      DEF Symbols!StartModule, Symbols!AtModule, Symbols!StartOn, Symbols!HasSymbolStream,
          HasSymbolStream, Symbols!NoSymbolStream, NoSymbolStream,
          Symbols!SizeOfSignature, SizeOfSignature
    <3>7. CASE Symbols!StoreModuleSymbol
      BY <1>2, <3>7, WalkGoesOn DEF Symbols!StoreModuleSymbol
    <3>8. CASE Symbols!FinishModule
      BY <1>2, <2>1, <3>8, WalkOver DEF Symbols!FinishModule
    <3> QED
      BY <2>4, <3>1, <3>2, <3>3, <3>4, <3>5, <3>6, <3>7, <3>8 DEF Symbols!Next
  <2>5. CASE CallFunctionSymbols
    BY <1>2, <2>5, WalkOver DEF CallFunctionSymbols, FunctionSymbols!Start
  <2>6. CASE CollectFunctions
    <3>1. CASE FunctionSymbols!SkipModule
      BY <1>2, <2>1, <3>1, WalkOver DEF FunctionSymbols!SkipModule
    <3>2. CASE FunctionSymbols!StartModule
      BY <1>2, <3>2, WalkBegun
      DEF FunctionSymbols!StartModule, FunctionSymbols!StartOn,
          FunctionSymbols!HasSymbolStream, HasSymbolStream,
          FunctionSymbols!NoSymbolStream, NoSymbolStream,
          FunctionSymbols!SizeOfSignature, SizeOfSignature
    <3>3. CASE FunctionSymbols!StoreFrameProc \/ FunctionSymbols!StoreFunction
      BY <1>2, <3>3, WalkGoesOn
      DEF FunctionSymbols!StoreFrameProc, FunctionSymbols!StoreFunction
    <3>4. CASE FunctionSymbols!FinishModule
      BY <1>2, <2>1, <3>4, WalkOver DEF FunctionSymbols!FinishModule
    <3>5. CASE FunctionSymbols!StorePublic
      BY <1>2, <2>1, <3>5, WalkOver DEF FunctionSymbols!StorePublic
    <3>6. CASE FunctionSymbols!Sort
      BY <1>2, <2>1, <3>6, WalkOver DEF FunctionSymbols!Sort
    <3>7. CASE FunctionSymbols!FindSizes
      BY <1>2, <2>1, <3>7, WalkOver DEF FunctionSymbols!FindSizes
    <3> QED
      BY <2>6, <3>1, <3>2, <3>3, <3>4, <3>5, <3>6, <3>7
      DEF CollectFunctions, FunctionSymbols!Next
  <2>7. CASE CallFunctionVariables
    BY <1>2, <2>7, WalkOver DEF CallFunctionVariables, FunctionVariables!Start
  <2>8. CASE DisplayVariables
    <3>1. CASE FunctionVariables!SkipModule
      BY <1>2, <2>1, <3>1, WalkOver DEF FunctionVariables!SkipModule
    <3>2. CASE FunctionVariables!StartModule
      BY <1>2, <3>2, WalkBegun
      DEF FunctionVariables!StartModule, FunctionVariables!StartOn,
          FunctionVariables!HasSymbolStream, HasSymbolStream,
          FunctionVariables!NoSymbolStream, NoSymbolStream,
          FunctionVariables!SizeOfSignature, SizeOfSignature
    <3>3. CASE FunctionVariables!FinishModule
      BY <1>2, <2>1, <3>3, WalkOver DEF FunctionVariables!FinishModule
    <3>4. CASE FunctionVariables!Symbol
      BY <1>2, <3>4, WalkGoesOn DEF FunctionVariables!Symbol
    <3> QED
      BY <2>8, <3>1, <3>2, <3>3, <3>4
      DEF DisplayVariables, FunctionVariables!Next, FunctionVariables!EndScope,
          FunctionVariables!OpenNested, FunctionVariables!OpenProcedure,
          FunctionVariables!OpenThunk, FunctionVariables!PrintRecord,
          FunctionVariables!IgnoreRecord
  <2>9. CASE UNCHANGED vars
    BY <1>2, <2>9 DEF vars, symbolStreamVars, Walking, PlacesIn
  <2> QED
    BY <1>2, <2>2, <2>3, <2>4, <2>5, <2>6, <2>7, <2>8, <2>9 DEF Next
<1> QED  BY <1>1, <1>2, PTL DEF Spec

-----------------------------------------------------------------------------
(* The level counted is the depth of the scopes.                           *)

\* The scopes open behind a record: those that start at it or in front of it, and end
\* behind it.
LEMMA OpenBehindRecord ==
  ASSUME NEW s \in SymbolStreams, NEW o \in DOMAIN s.recordAt
  PROVE  OpenIn(s, NextRecordIn(s, o)) = {p \in Scopes(s) : p <= o /\ o < s.recordAt[p].end}
<1> DEFINE next == NextRecordIn(s, o)
<1>1. /\ o \in Nat /\ next \in Nat
      /\ \A p \in DOMAIN s.recordAt : p < next <=> p <= o
  BY NextRecordFollows
<1> HIDE DEF next
<1>2. ASSUME NEW p \in Scopes(s)
      PROVE  /\ p < next <=> p <= o
             /\ next <= s.recordAt[p].end <=> o < s.recordAt[p].end
  <2>1. p \in DOMAIN s.recordAt  BY DEF Scopes
  <2>2. s.recordAt[p].end \in DOMAIN s.recordAt  BY <2>1, ScopesAssumption
  <2>3. s.recordAt[p].end \in Nat  BY <2>2, NextRecordFollows
  <2> QED  BY <1>1, <2>1, <2>2, <2>3
<1>3. OpenIn(s, next) = {p \in Scopes(s) : p <= o /\ o < s.recordAt[p].end}
  BY <1>2 DEF OpenIn
<1> QED  BY <1>3 DEF next

\* No scope is open in front of the first record and behind the last.
LEMMA NothingOpenOutside ==
  ASSUME NEW s \in SymbolStreams
  PROVE  OpenIn(s, SizeOfSignature) = {} /\ OpenIn(s, s.size) = {}
<1>1. ASSUME NEW p \in Scopes(s)
      PROVE  ~ (p < SizeOfSignature) /\ ~ (s.size <= s.recordAt[p].end)
  <2>1. p \in DOMAIN s.recordAt  BY DEF Scopes
  <2>2. s.recordAt[p].end \in DOMAIN s.recordAt  BY <2>1, ScopesAssumption
  <2> DEFINE end == s.recordAt[p].end
  <2>3. p \in SizeOfSignature .. (s.size - 1) /\ end \in SizeOfSignature .. (s.size - 1)
        /\ s.size \in Nat
    BY <2>1, <2>2, SymbolStreamsAssumption
  <2> HIDE DEF end
  <2>4. ~ (p < SizeOfSignature) /\ ~ (s.size <= end)  BY <2>3 DEF SizeOfSignature
  <2> QED  BY <2>4 DEF end
<1> QED  BY <1>1 DEF OpenIn

\* The scopes open anywhere can be counted.
LEMMA DepthIsNatural ==
  ASSUME NEW s \in SymbolStreams, NEW o
  PROVE  IsFiniteSet(OpenIn(s, o)) /\ Cardinality(OpenIn(s, o)) \in Nat
                                   /\ Cardinality(OpenIn(s, o)) < UInt32Range
<1>1. OpenIn(s, o) \subseteq DOMAIN s.recordAt  BY DEF OpenIn, Scopes
<1>2. /\ IsFiniteSet(OpenIn(s, o))
      /\ Cardinality(OpenIn(s, o)) <= Cardinality(DOMAIN s.recordAt)
  BY <1>1, RecordsAreCountable, FS_Subset
<1>3. Cardinality(OpenIn(s, o)) \in Nat  BY <1>2, FS_CardinalityType
<1>4. UInt32Range \in Nat  BY SymbolsAssumption
<1> QED  BY <1>2, <1>3, <1>4, RecordsAreCountable

\* A record that opens a scope makes the depth one larger.
LEMMA DepthBehindScope ==
  ASSUME NEW s \in SymbolStreams, NEW o \in Scopes(s)
  PROVE  Cardinality(OpenIn(s, NextRecordIn(s, o))) = Cardinality(OpenIn(s, o)) + 1
<1>1. o \in DOMAIN s.recordAt  BY DEF Scopes
<1>2. o \in Nat /\ o < s.recordAt[o].end
  BY <1>1, ScopesAssumption, NextRecordFollows
<1>3. ASSUME NEW p \in Scopes(s), p # o
      PROVE  (p <= o /\ o < s.recordAt[p].end) <=> (p < o /\ o <= s.recordAt[p].end)
  <2>1. p \in DOMAIN s.recordAt  BY DEF Scopes
  <2>2. s.recordAt[p].end \in DOMAIN s.recordAt  BY <2>1, ScopesAssumption
  <2>3. s.recordAt[p].end # o
    BY <1>1, <2>1, ScopesAssumption DEF ScopeEnds, OutermostScopes, ProcedureKinds, InnerScopes
  <2>4. p \in Nat /\ s.recordAt[p].end \in Nat  BY <2>1, <2>2, NextRecordFollows
  <2> QED  BY <1>2, <1>3, <2>3, <2>4
<1>4. ~ (o < o) /\ o <= o  BY <1>2
<1>5. OpenIn(s, NextRecordIn(s, o)) = OpenIn(s, o) \cup {o} /\ o \notin OpenIn(s, o)
  BY <1>1, <1>2, <1>3, <1>4, OpenBehindRecord DEF OpenIn
<1> QED  BY <1>5, DepthIsNatural, FS_AddElement

\* A record that ends a scope is in it, and makes the depth one smaller.
LEMMA DepthBehindEnd ==
  ASSUME NEW s \in SymbolStreams, NEW o \in DOMAIN s.recordAt,
         s.recordAt[o].kind \in ScopeEnds
  PROVE  /\ Cardinality(OpenIn(s, o)) > 0
         /\ Cardinality(OpenIn(s, NextRecordIn(s, o))) = Cardinality(OpenIn(s, o)) - 1
<1>1. PICK ended \in Scopes(s) : \A q \in Scopes(s) : s.recordAt[q].end = o <=> q = ended
  BY ScopesAssumption
<1>2. o \in Nat  BY NextRecordFollows
<1>3. o \notin Scopes(s)
  BY ScopesAssumption DEF ScopeEnds, OutermostScopes, ProcedureKinds, InnerScopes
<1>4. ASSUME NEW p \in Scopes(s)
      PROVE  (p <= o /\ o < s.recordAt[p].end)
               <=> (p < o /\ o <= s.recordAt[p].end /\ p # ended)
  <2>1. p \in DOMAIN s.recordAt  BY DEF Scopes
  <2>2. s.recordAt[p].end \in DOMAIN s.recordAt  BY <2>1, ScopesAssumption
  <2>3. p \in Nat /\ s.recordAt[p].end \in Nat  BY <2>1, <2>2, NextRecordFollows
  <2>4. p # o /\ (s.recordAt[p].end = o <=> p = ended)  BY <1>1, <1>3
  <2> QED  BY <1>2, <2>3, <2>4
<1>5. ended < o /\ o <= s.recordAt[ended].end
  <2>1. ended \in DOMAIN s.recordAt /\ s.recordAt[ended].end = o  BY <1>1 DEF Scopes
  <2>2. ended < o  BY <2>1, <1>1, ScopesAssumption
  <2> QED  BY <1>2, <2>1, <2>2
<1>6. OpenIn(s, NextRecordIn(s, o)) = OpenIn(s, o) \ {ended} /\ ended \in OpenIn(s, o)
  BY <1>4, <1>5, OpenBehindRecord DEF OpenIn
<1>7. IsFiniteSet(OpenIn(s, o)) /\ Cardinality(OpenIn(s, o)) \in Nat  BY DepthIsNatural
<1>8. Cardinality(OpenIn(s, NextRecordIn(s, o))) = Cardinality(OpenIn(s, o)) - 1
  BY <1>6, <1>7, FS_RemoveElement
<1>9. Cardinality(OpenIn(s, NextRecordIn(s, o))) \in Nat  BY DepthIsNatural
<1> QED  BY <1>7, <1>8, <1>9

\* Any other record leaves the depth as it is.
LEMMA DepthBehindOther ==
  ASSUME NEW s \in SymbolStreams, NEW o \in DOMAIN s.recordAt,
         s.recordAt[o].kind \notin OutermostScopes \cup InnerScopes \cup ScopeEnds
  PROVE  OpenIn(s, NextRecordIn(s, o)) = OpenIn(s, o)
<1>1. o \notin Scopes(s)  BY ScopesAssumption
<1>2. o \in Nat  BY NextRecordFollows
<1>3. ASSUME NEW p \in Scopes(s)
      PROVE  (p <= o /\ o < s.recordAt[p].end) <=> (p < o /\ o <= s.recordAt[p].end)
  <2>1. p \in DOMAIN s.recordAt  BY DEF Scopes
  <2>2. s.recordAt[p].end \in DOMAIN s.recordAt /\ s.recordAt[p].end # o
    BY <2>1, ScopesAssumption
  <2>3. p \in Nat /\ s.recordAt[p].end \in Nat  BY <2>1, <2>2, NextRecordFollows
  <2> QED  BY <1>1, <1>2, <2>2, <2>3
<1> QED  BY <1>3, OpenBehindRecord DEF OpenIn

\* At a record that opens the scope of a function, and at one within no scope, the
\* depth is 0.
LEMMA DepthIsZero ==
  ASSUME NEW s \in SymbolStreams, NEW o, OpenIn(s, o) = {}
  PROVE  Cardinality(OpenIn(s, o)) = 0
  BY FS_EmptySet

LEMMA KindsInScopes ==
  ASSUME NEW s \in SymbolStreams, NEW o \in DOMAIN s.recordAt, OpenIn(s, o) # {}
  PROVE  s.recordAt[o].kind \in InnerScopes \cup ScopeEnds \cup FunctionVariables!Printed
  BY SymbolsAssumption

LEMMA SmallRemainder ==
  ASSUME NEW n \in Nat, n < UInt32Range
  PROVE  n % UInt32Range = n
  BY SymbolsAssumption

\* The counter is 0 between modules and the depth within one, so that no assertion
\* about it fails.
LevelCounted ==
  /\ pc = "variables" => blockLevel = 0
  /\ pc = "variable symbols" => blockLevel = Cardinality(OpenIn(stream, offset))
  /\ ~ failed

\* One call of the callback keeps the counter at the depth.
LEMMA LevelKept ==
  ASSUME Walking, LevelCounted, DisplayVariables, FunctionVariables!Symbol
  PROVE  blockLevel' = Cardinality(OpenIn(stream, offset')) /\ ~ failed'
<1> DEFINE record == stream.recordAt[offset]
           depth == Cardinality(OpenIn(stream, offset))
           next == Cardinality(OpenIn(stream, NextRecordIn(stream, offset)))
<1>1. pc = "variable symbols"  BY DEF FunctionVariables!Symbol
<1>2. /\ stream \in SymbolStreams /\ offset \in DOMAIN stream.recordAt
      /\ offset' = NextRecordIn(stream, offset)
  BY <1>1, WalkMovesOn DEF FunctionVariables!Symbol, Walks
<1>3. blockLevel = depth /\ ~ failed  BY <1>1 DEF LevelCounted
<1>4. /\ depth \in Nat /\ depth < UInt32Range
      /\ next \in Nat /\ next < UInt32Range
  BY <1>2, DepthIsNatural
<1>5. FunctionVariables!Record = record  BY DEF FunctionVariables!Record
<1>6. /\ record.kind \in OutermostScopes \cup {"S_TRAMPOLINE"} => depth = 0
      /\ offset \in Scopes(stream) <=> record.kind \in OutermostScopes \cup InnerScopes
      /\ record.kind = "S_THUNK32" => record.thunk # "TrampolineIncremental"
  BY <1>2, ScopesAssumption, DepthIsZero
<1>7. offset \in Scopes(stream) => next = depth + 1  BY <1>2, DepthBehindScope
<1>8. record.kind \in ScopeEnds => depth > 0 /\ next = depth - 1
  BY <1>2, DepthBehindEnd
<1>9. record.kind \notin OutermostScopes \cup InnerScopes \cup ScopeEnds => next = depth
  BY <1>2, DepthBehindOther
<1>10. next % UInt32Range = next  BY <1>4, SmallRemainder
<1>11. OpenIn(stream, offset) # {} =>
         record.kind \in InnerScopes \cup ScopeEnds \cup FunctionVariables!Printed
  BY <1>2, KindsInScopes
<1>12. OpenIn(stream, offset) = {} => depth = 0  BY <1>2, DepthIsZero
<1> HIDE DEF record, depth, next
<1> USE DEF OutermostScopes, InnerScopes, ScopeEnds, ProcedureKinds
<1> SUFFICES blockLevel' = next /\ ~ failed'
  BY <1>2 DEF next
<1>13. CASE FunctionVariables!EndScope
  <2>1. record.kind \in ScopeEnds
    BY <1>5, <1>13 DEF FunctionVariables!EndScope, FunctionVariables!Ends
  <2>2. next = depth - 1 /\ depth > 0  BY <1>8, <2>1
  <2>3. blockLevel' = (depth - 1) % UInt32Range
    BY <1>3, <1>13 DEF FunctionVariables!EndScope
  <2>4. ~ failed'
    BY <1>3, <1>13, <2>2 DEF FunctionVariables!EndScope, FunctionVariables!PDB_ASSERT
  <2> QED  BY <1>10, <2>2, <2>3, <2>4
<1>14. CASE FunctionVariables!OpenNested
  <2>1. record.kind \in InnerScopes
    BY <1>5, <1>14 DEF FunctionVariables!OpenNested, FunctionVariables!Nested
  <2>2. next = depth + 1  BY <1>6, <1>7, <2>1
  <2>3. blockLevel' = (depth + 1) % UInt32Range /\ failed' = failed
    BY <1>3, <1>14 DEF FunctionVariables!OpenNested
  <2> QED  BY <1>3, <1>10, <2>2, <2>3
<1>15. CASE FunctionVariables!OpenProcedure
  <2>1. record.kind \in ProcedureKinds
    BY <1>5, <1>15 DEF FunctionVariables!OpenProcedure, FunctionVariables!Procedures
  <2>2. next = depth + 1 /\ depth = 0  BY <1>6, <1>7, <2>1
  <2>3. blockLevel' = (depth + 1) % UInt32Range
    BY <1>3, <1>15 DEF FunctionVariables!OpenProcedure
  <2>4. ~ failed'
    BY <1>3, <1>15, <2>2 DEF FunctionVariables!OpenProcedure, FunctionVariables!PDB_ASSERT
  <2> QED  BY <1>10, <2>2, <2>3, <2>4
<1>16. CASE FunctionVariables!OpenThunk
  <2>1. record.kind \in {"S_THUNK32", "S_TRAMPOLINE"}
    BY <1>5, <1>16 DEF FunctionVariables!OpenThunk, FunctionVariables!Thunks
  <2>2. depth = 0  BY <1>6, <2>1
  <2>3. ~ failed'
    BY <1>3, <1>16, <2>2 DEF FunctionVariables!OpenThunk, FunctionVariables!PDB_ASSERT
  <2>4. blockLevel' = IF record.kind = "S_THUNK32" THEN (depth + 1) % UInt32Range ELSE depth
    BY <1>3, <1>5, <1>6, <1>16
    DEF FunctionVariables!OpenThunk, FunctionVariables!OpensScope
  <2>5. CASE record.kind = "S_THUNK32"
    <3>1. next = depth + 1  BY <1>6, <1>7, <2>5
    <3> QED  BY <1>10, <2>3, <2>4, <2>5, <3>1
  <2>6. CASE record.kind = "S_TRAMPOLINE"
    BY <1>9, <2>3, <2>4, <2>6
  <2> QED  BY <2>1, <2>5, <2>6
<1>17. CASE FunctionVariables!PrintRecord
  <2>1. record.kind \in FunctionVariables!Printed /\ blockLevel' = blockLevel /\ failed' = failed
    BY <1>5, <1>17 DEF FunctionVariables!PrintRecord
  <2> QED  BY <1>3, <1>9, <2>1 DEF FunctionVariables!Printed
<1>18. CASE FunctionVariables!IgnoreRecord
  <2>1. /\ record.kind \notin ProcedureKinds \cup ScopeEnds \cup InnerScopes
                               \cup {"S_THUNK32"} \cup FunctionVariables!Printed
        /\ blockLevel' = blockLevel
    BY <1>5, <1>18
    DEF FunctionVariables!IgnoreRecord, FunctionVariables!Procedures, FunctionVariables!Ends,
        FunctionVariables!Nested, FunctionVariables!Thunks
  <2>2. ~ (blockLevel > 0)  BY <1>3, <1>4, <1>11, <1>12, <2>1
  <2>3. ~ failed'
    BY <1>3, <1>18, <2>2 DEF FunctionVariables!IgnoreRecord, FunctionVariables!PDB_ASSERT
  <2> QED  BY <1>3, <1>9, <2>1, <2>3
<1>19. ~ FunctionVariables!SkipModule /\ ~ FunctionVariables!StartModule
  BY <1>1 DEF FunctionVariables!SkipModule, FunctionVariables!StartModule
<1>20. ~ FunctionVariables!FinishModule
  <2>1. pc' = pc  BY DEF FunctionVariables!Symbol
  <2> QED  BY <1>1, <2>1 DEF FunctionVariables!FinishModule
<1> QED
  BY <1>13, <1>14, <1>15, <1>16, <1>17, <1>18, <1>19, <1>20
  DEF DisplayVariables, FunctionVariables!Next

LEMMA LevelAlwaysCounted == Spec => []LevelCounted
<1>1. Init => LevelCounted
  BY DEF Init, LevelCounted, Contributions!Init
<1>2. ASSUME Walking, LevelCounted, [Next]_vars PROVE LevelCounted'
  <2>1. ASSUME failed' = failed, pc' \notin VariablePhases PROVE LevelCounted'
    BY <1>2, <2>1 DEF LevelCounted, VariablePhases
  <2> USE DEF SymbolPhases, FunctionPhases, ContributionPhases, VariablePhases
  <2>2. CASE ShowContributions
    BY <2>1, <2>2, StepPhases DEF ShowContributions, functionVariableVars
  <2>3. CASE CallSymbols
    BY <2>1, <2>3, StepPhases DEF CallSymbols, functionVariableVars
  <2>4. CASE CollectSymbols
    BY <2>1, <2>4, StepPhases DEF CollectSymbols, functionVariableVars
  <2>5. CASE CallFunctionSymbols
    BY <2>1, <2>5, StepPhases DEF CallFunctionSymbols, functionVariableVars
  <2>6. CASE CollectFunctions
    BY <2>1, <2>6, StepPhases DEF CollectFunctions, functionVariableVars
  <2>7. CASE CallFunctionVariables
    BY <1>2, <2>7 DEF CallFunctionVariables, FunctionVariables!Start, LevelCounted
  <2>8. CASE DisplayVariables
    <3>1. CASE FunctionVariables!SkipModule
      BY <1>2, <3>1 DEF FunctionVariables!SkipModule, LevelCounted
    <3>2. CASE FunctionVariables!StartModule
      <4>1. /\ pc = "variables" /\ pc' = "variable symbols"
            /\ blockLevel' = blockLevel /\ failed' = failed
            /\ stream' = program.modules[module] /\ offset' = SizeOfSignature
            /\ module <= Len(program.modules) /\ HasSymbolStream(program.modules[module])
        BY <3>2 DEF FunctionVariables!StartModule, FunctionVariables!StartOn,
             FunctionVariables!HasSymbolStream, HasSymbolStream,
             FunctionVariables!NoSymbolStream, NoSymbolStream,
             FunctionVariables!SizeOfSignature, SizeOfSignature
      <4>2. stream' \in SymbolStreams  BY <1>2, <4>1, WalkStarts
      <4>3. Cardinality(OpenIn(program.modules[module], SizeOfSignature)) = 0
        BY <4>1, <4>2, NothingOpenOutside, DepthIsZero
      <4>4. blockLevel' = 0 /\ ~ failed'  BY <1>2, <4>1 DEF LevelCounted
      <4> QED  BY <4>1, <4>3, <4>4 DEF LevelCounted
    <3>3. CASE FunctionVariables!FinishModule
      <4>1. /\ pc = "variable symbols" /\ pc' = "variables" /\ offset >= stream.size
            /\ blockLevel' = blockLevel /\ failed' = failed
        BY <3>3 DEF FunctionVariables!FinishModule, FunctionVariables!AtEnd
      <4>2. stream \in SymbolStreams /\ offset \in PlacesIn(stream)
        BY <1>2, <4>1 DEF Walking, Walks
      <4>3. offset = stream.size
        <5>1. stream.size \in Nat  BY <4>2, SymbolStreamsAssumption
        <5>2. ASSUME offset \in DOMAIN stream.recordAt PROVE FALSE
          <6>1. offset \in Nat /\ offset < stream.size  BY <4>2, <5>2, NextRecordFollows
          <6>2. offset >= stream.size  BY <4>1
          <6> QED  BY <5>1, <6>1, <6>2
        <5> QED  BY <4>2, <5>2 DEF PlacesIn
      <4>4. Cardinality(OpenIn(stream, offset)) = 0
        BY <4>2, <4>3, NothingOpenOutside, DepthIsZero
      <4> QED  BY <1>2, <4>1, <4>4 DEF LevelCounted
    <3>4. CASE FunctionVariables!Symbol
      <4>1. pc = "variable symbols" /\ pc' = "variable symbols" /\ stream' = stream
        BY <3>4 DEF FunctionVariables!Symbol, FunctionVariables!Callback
      <4> QED  BY <1>2, <2>8, <3>4, <4>1, LevelKept DEF LevelCounted
    <3> QED
      BY <2>8, <3>1, <3>2, <3>3, <3>4
      DEF DisplayVariables, FunctionVariables!Next, FunctionVariables!EndScope,
          FunctionVariables!OpenNested, FunctionVariables!OpenProcedure,
          FunctionVariables!OpenThunk, FunctionVariables!PrintRecord,
          FunctionVariables!IgnoreRecord
  <2>9. CASE UNCHANGED vars
    BY <1>2, <2>9 DEF vars, symbolStreamVars, functionVariableVars, LevelCounted
  <2> QED
    BY <1>2, <2>2, <2>3, <2>4, <2>5, <2>6, <2>7, <2>8, <2>9 DEF Next
<1> QED  BY <1>1, <1>2, WalksStayInModules, PTL DEF Spec

\* A record is printed in as many scopes as are open around it, in every module of
\* every program: the counter of ExampleFunctionVariables goes up and down with the
\* scopes, is back at 0 behind each module, and never wraps around.
THEOREM LevelIsAlwaysDepth == Spec => []LevelIsDepth
<1>1. FunctionVariables!OpenIn(stream, offset) = OpenIn(stream, offset)
  BY DEF FunctionVariables!OpenIn, OpenIn, FunctionVariables!Scopes, Scopes
<1>2. ASSUME NEW S PROVE FunctionVariables!Cardinality(S) = Cardinality(S)
  BY DEF FunctionVariables!Cardinality, Cardinality
<1>3. LevelCounted => LevelIsDepth
  BY <1>1, <1>2 DEF LevelCounted, LevelIsDepth, FunctionVariables!LevelIsDepth
<1> QED  BY <1>3, LevelAlwaysCounted, PTL

\* No assertion of ExampleFunctionVariables fails for a program whose scopes nest as
\* compilers nest them.
THEOREM AssertsAlwaysHold == Spec => []AssertsHold
<1>1. LevelCounted => AssertsHold
  BY DEF LevelCounted, AssertsHold, FunctionVariables!AssertsHold
<1> QED  BY <1>1, LevelAlwaysCounted, PTL

-----------------------------------------------------------------------------
(* What the records say of functions.                                      *)

\* The fields of the records functions are made from.
LEMMA RecordFields ==
  ASSUME NEW s \in SymbolStreams, NEW o \in DOMAIN s.recordAt
  PROVE  LET record == s.recordAt[o]
         IN  /\ record.kind \in ProcedureKinds =>
                  record.section \in Nat /\ record.offset \in Nat /\ record.codeSize \in Nat
             /\ record.kind = "S_TRAMPOLINE" =>
                  record.thunkSection \in Nat /\ record.thunkOffset \in Nat
             /\ record.kind = "S_THUNK32" => record.thunk # "TrampolineIncremental"
  BY SymbolsAssumption, ScopesAssumption DEF IsLocated, OutermostScopes

\* An address is a number, 0 for none.
LEMMA AddressIsNatural ==
  ASSUME NEW p \in Programs, NEW section \in Nat, NEW o \in Nat
  PROVE  AddressIn(p, section, o) \in Nat
<1> DEFINE va == p.virtualAddresses
<1>1. va \in Seq(Nat \ {0})  BY ProgramsAssumption
<1>2. UInt32Range \in Nat \ {0}  BY SymbolsAssumption
<1>3. CASE section = 0 \/ section > Len(va)
  BY <1>3 DEF AddressIn, ConvertSectionOffsetToRVA
<1>4. CASE ~ (section = 0 \/ section > Len(va))
  <2> HIDE DEF va
  <2>1. section \in 1 .. Len(va)  BY <1>1, <1>4
  <2>2. va[section] \in Nat  BY <1>1, <2>1
  <2>3. (va[section] + o) % UInt32Range \in Nat  BY <1>2, <2>2
  <2> QED  BY <1>4, <2>3 DEF AddressIn, ConvertSectionOffsetToRVA, va
<1> QED  BY <1>3, <1>4

LEMMA AddressesOfFunctions ==
  ASSUME NEW section, NEW o
  PROVE  FunctionSymbols!RVA(section, o) = AddressIn(program, section, o)
  BY DEF FunctionSymbols!RVA, FunctionSymbols!ConvertSectionOffsetToRVA, AddressIn,
         ConvertSectionOffsetToRVA

\* What ExampleFunctionSymbols makes of a record.
LEMMA FunctionOfRecord ==
  ASSUME program \in Programs, NEW s \in SymbolStreams, NEW o \in DOMAIN s.recordAt
  PROVE  LET record == s.recordAt[o]
             function == FunctionSymbols!FunctionOf(record)
         IN  /\ function.rva \in Nat /\ function.size \in Nat
             /\ record.kind \in ProcedureKinds \cup {"S_TRAMPOLINE"} =>
                  function.rva = FunctionAddress(program, record)
             /\ record.kind \notin ProcedureKinds \cup {"S_TRAMPOLINE"} => function.rva = 0
<1> DEFINE record == s.recordAt[o]
           function == FunctionSymbols!FunctionOf(record)
<1>1. /\ record.kind \in ProcedureKinds =>
           record.section \in Nat /\ record.offset \in Nat /\ record.codeSize \in Nat
      /\ record.kind = "S_TRAMPOLINE" =>
           record.thunkSection \in Nat /\ record.thunkOffset \in Nat
      /\ record.kind = "S_THUNK32" => record.thunk # "TrampolineIncremental"
  BY RecordFields
<1> HIDE DEF record
<1> USE DEF FunctionSymbols!Procedures, ProcedureKinds
<1>2. CASE record.kind \in ProcedureKinds
  <2>1. function = [rva |-> AddressIn(program, record.section, record.offset),
                    size |-> record.codeSize]
    BY <1>2, AddressesOfFunctions DEF FunctionSymbols!FunctionOf
  <2>2. AddressIn(program, record.section, record.offset) \in Nat
    BY <1>1, <1>2, AddressIsNatural
  <2>3. FunctionAddress(program, record) = AddressIn(program, record.section, record.offset)
    BY <1>2 DEF FunctionAddress
  <2>4. function.rva = FunctionAddress(program, record) /\ function.rva \in Nat
        /\ function.size \in Nat
    BY <1>1, <1>2, <2>1, <2>2, <2>3
  <2> QED  BY <1>2, <2>4 DEF record
<1>3. CASE record.kind = "S_TRAMPOLINE"
  <2>1. function = [rva |-> AddressIn(program, record.thunkSection, record.thunkOffset),
                    size |-> 5]
    BY <1>3, AddressesOfFunctions DEF FunctionSymbols!FunctionOf
  <2>2. AddressIn(program, record.thunkSection, record.thunkOffset) \in Nat
    BY <1>1, <1>3, AddressIsNatural
  <2>3. FunctionAddress(program, record)
          = AddressIn(program, record.thunkSection, record.thunkOffset)
    BY <1>3 DEF FunctionAddress
  <2>4. function.rva = FunctionAddress(program, record) /\ function.rva \in Nat
        /\ function.size \in Nat
    BY <2>1, <2>2, <2>3
  <2> QED  BY <1>3, <2>4 DEF record
<1>4. CASE record.kind \notin ProcedureKinds \cup {"S_TRAMPOLINE"}
  <2>1. function = [rva |-> 0, size |-> 0]
    BY <1>1, <1>4 DEF FunctionSymbols!FunctionOf, FunctionSymbols!NoAddress
  <2> QED  BY <1>4, <2>1 DEF record
<1> QED  BY <1>2, <1>3, <1>4

\* Every set of numbers that is not empty has a smallest one.
LEMMA SmallestOfSet ==
  ASSUME NEW T, T \subseteq Nat, T # {}
  PROVE  \E x \in T : \A y \in T : x <= y
<1> DEFINE R == OpToRel(<, Nat)
<1>1. IsWellFoundedOn(R, Nat)  BY NatLessThanWellFounded
<1>2. ASSUME NEW x \in Nat, NEW y \in Nat, <<y, x>> \notin R PROVE ~ (y < x)
  BY <1>2 DEF OpToRel
<1> HIDE DEF R
<1>3. PICK x \in T : \A y \in T : ~ (<<y, x>> \in R)  BY <1>1, WFMin
<1>4. \A y \in T : ~ (y < x)  BY <1>2, <1>3
<1>5. ASSUME NEW y \in T PROVE x <= y
  <2>1. x \in Nat /\ y \in Nat /\ ~ (y < x)  BY <1>4
  <2> QED  BY ONLY <2>1
<1> QED  BY <1>5

LEMMA ContributionFields ==
  ASSUME NEW p \in Programs, NEW c \in DOMAIN p.contributions
  PROVE  /\ c \in Nat /\ c >= 1
         /\ p.contributions[c].section \in Nat /\ p.contributions[c].offset \in Nat
         /\ p.contributions[c].size \in Nat /\ p.contributions[c].moduleIndex \in Nat
<1> DEFINE Contribution == [section : Nat, offset : Nat, size : Nat, moduleIndex : Nat]
<1>1. p.contributions \in Seq(Contribution)  BY ProgramsAssumption
<1> HIDE DEF Contribution
<1>2. p.contributions[c] \in Contribution /\ c \in Nat /\ c >= 1  BY <1>1
<1> QED  BY <1>2 DEF Contribution

\* The search for the size of the last function takes the first contribution that
\* decides.
LEMMA FirstDeciding ==
  ASSUME program \in Programs, FunctionSymbols!Deciding # {}
  PROVE  LET first == CHOOSE c \in FunctionSymbols!Deciding :
                        \A d \in FunctionSymbols!Deciding : c <= d
         IN  /\ first \in FunctionSymbols!Deciding
             /\ \A d \in FunctionSymbols!Deciding : first <= d
<1>1. DOMAIN program.contributions \subseteq Nat  BY ProgramsAssumption
<1>2. FunctionSymbols!Deciding \subseteq Nat  BY <1>1 DEF FunctionSymbols!Deciding
<1>3. \E c \in FunctionSymbols!Deciding : \A d \in FunctionSymbols!Deciding : c <= d
  BY <1>2, SmallestOfSet
<1> QED  BY <1>3

LEMMA SizeIsNatural ==
  ASSUME program \in Programs
  PROVE  FunctionSymbols!SizeFromContributions \in Nat
<1> DEFINE first == CHOOSE c \in FunctionSymbols!Deciding :
                      \A d \in FunctionSymbols!Deciding : c <= d
<1>1. CASE FunctionSymbols!Deciding = {}
  BY <1>1 DEF FunctionSymbols!SizeFromContributions
<1>2. CASE FunctionSymbols!Deciding # {}
  <2>1. first \in DOMAIN program.contributions
    BY <1>2, FirstDeciding DEF FunctionSymbols!Deciding
  <2>2. program.contributions[first].size \in Nat  BY <2>1, ContributionFields
  <2> HIDE DEF first
  <2>3. FunctionSymbols!SizeFromContributions
          = IF FunctionSymbols!ContributionRVA(first) = FunctionSymbols!Last.rva
              THEN program.contributions[first].size ELSE 0
    BY <1>2 DEF FunctionSymbols!SizeFromContributions, first
  <2> QED  BY <2>2, <2>3
<1> QED  BY <1>1, <1>2

-----------------------------------------------------------------------------
(* The functions collected, and their frame information.                   *)

FunctionRecord == [from : Nat \X Nat, rva : Nat, size : Nat, frameProc : Int]

FunctionsTyped ==
  /\ functionSymbols \in Seq(FunctionRecord)
  /\ hashRecord \in Nat \ {0}

\* What storing frame information or a size with the last function does.
LEMMA StoredWithLast ==
  ASSUME NEW fs \in Seq(FunctionRecord), NEW frame \in Int, NEW size \in Nat
  PROVE  LET framed == [fs EXCEPT ![Len(fs)].frameProc = frame]
             sized == [fs EXCEPT ![Len(fs)].size = size]
         IN  /\ framed \in Seq(FunctionRecord) /\ Len(framed) = Len(fs)
             /\ sized \in Seq(FunctionRecord) /\ Len(sized) = Len(fs)
             /\ \A i \in 1 .. Len(fs) :
                  /\ framed[i] = IF i = Len(fs) THEN [fs[i] EXCEPT !.frameProc = frame] ELSE fs[i]
                  /\ sized[i] = IF i = Len(fs) THEN [fs[i] EXCEPT !.size = size] ELSE fs[i]
<1> DEFINE framed == [fs EXCEPT ![Len(fs)].frameProc = frame]
           sized == [fs EXCEPT ![Len(fs)].size = size]
<1>1. /\ Len(fs) \in Nat /\ DOMAIN fs = 1 .. Len(fs)
      /\ \A i \in 1 .. Len(fs) : fs[i] \in FunctionRecord
  OBVIOUS
<1>2. ASSUME NEW f \in FunctionRecord
      PROVE  [f EXCEPT !.frameProc = frame] \in FunctionRecord
             /\ [f EXCEPT !.size = size] \in FunctionRecord
  BY DEF FunctionRecord
<1> HIDE DEF FunctionRecord
<1>3. /\ framed = [i \in 1 .. Len(fs) |->
                     IF i = Len(fs) THEN [fs[i] EXCEPT !.frameProc = frame] ELSE fs[i]]
      /\ sized = [i \in 1 .. Len(fs) |->
                     IF i = Len(fs) THEN [fs[i] EXCEPT !.size = size] ELSE fs[i]]
  BY <1>1
<1> HIDE DEF framed, sized
<1>4. framed \in [1 .. Len(fs) -> FunctionRecord] /\ sized \in [1 .. Len(fs) -> FunctionRecord]
  BY <1>1, <1>2, <1>3
<1>5. framed \in Seq(FunctionRecord) /\ Len(framed) = Len(fs)
      /\ sized \in Seq(FunctionRecord) /\ Len(sized) = Len(fs)
  BY <1>1, <1>4
<1> QED  BY <1>3, <1>5 DEF framed, sized

\* Appending a record.
LEMMA FunctionAppended ==
  ASSUME NEW fs \in Seq(FunctionRecord), NEW f \in FunctionRecord
  PROVE  LET more == Append(fs, f)
         IN  /\ more \in Seq(FunctionRecord) /\ Len(more) = Len(fs) + 1
             /\ \A i \in 1 .. Len(fs) : more[i] = fs[i]
             /\ more[Len(fs) + 1] = f
  OBVIOUS

\* Sorting loses no function and makes none up.
LEMMA FunctionsSorted ==
  ASSUME FunctionSymbols!Sort, functionSymbols \in Seq(FunctionRecord)
  PROVE  /\ functionSymbols' \in Seq(FunctionRecord)
         /\ Len(functionSymbols') = Len(functionSymbols)
         /\ \A i \in 1 .. Len(functionSymbols) : \E j \in 1 .. Len(functionSymbols) :
              functionSymbols'[i] = functionSymbols[j]
         /\ \A j \in 1 .. Len(functionSymbols) : \E i \in 1 .. Len(functionSymbols) :
              functionSymbols'[i] = functionSymbols[j]
         /\ \A i, j \in 1 .. Len(functionSymbols) :
              i < j => functionSymbols'[i].rva <= functionSymbols'[j].rva
<1> DEFINE D == 1 .. Len(functionSymbols)
<1>1. /\ Len(functionSymbols) \in Nat /\ DOMAIN functionSymbols = D
      /\ \A i \in D : functionSymbols[i] \in FunctionRecord
  OBVIOUS
<1>2. PICK sorted \in FunctionSymbols!Bijection(D, D) :
        /\ \A i, j \in D : i < j => functionSymbols[sorted[i]].rva <= functionSymbols[sorted[j]].rva
        /\ functionSymbols' = [i \in D |-> functionSymbols[sorted[i]]]
  BY <1>1 DEF FunctionSymbols!Sort
<1> HIDE DEF FunctionRecord, D
<1>3. sorted \in [D -> D] /\ \A j \in D : \E i \in D : sorted[i] = j
  BY DEF FunctionSymbols!Bijection, FunctionSymbols!Injection, FunctionSymbols!Surjection
<1>4. functionSymbols' \in [D -> FunctionRecord]  BY <1>1, <1>2, <1>3
<1>5. functionSymbols' \in Seq(FunctionRecord) /\ Len(functionSymbols') = Len(functionSymbols)
  BY <1>1, <1>4 DEF D
<1>6. /\ \A i \in D : functionSymbols'[i] = functionSymbols[sorted[i]] /\ sorted[i] \in D
      /\ \A i, j \in D : i < j => functionSymbols'[i].rva <= functionSymbols'[j].rva
  BY <1>2, <1>3
<1>7. \A j \in D : \E i \in D : functionSymbols'[i] = functionSymbols[j]  BY <1>3, <1>6
<1> QED  BY <1>5, <1>6, <1>7 DEF D

\* What the callback adds for a record that describes a function.
StoredFunction ==
  [from |-> <<module, offset>>,
   rva |-> FunctionSymbols!FunctionOf(stream.recordAt[offset]).rva,
   size |-> FunctionSymbols!FunctionOf(stream.recordAt[offset]).size,
   frameProc |-> nullptr]

\* What the loop over the public symbols adds for one that is new.
PublicRecord == program.symbolRecords[program.hashRecords[hashRecord] - 1]
StoredPublic ==
  [from |-> <<0, program.hashRecords[hashRecord] - 1>>,
   rva |-> AddressIn(program, PublicRecord.section, PublicRecord.offset),
   size |-> 0, frameProc |-> nullptr]

LEMMA StoredFunctionTyped ==
  ASSUME Walking, pc \in Walks, offset \in DOMAIN stream.recordAt
  PROVE  StoredFunction \in FunctionRecord
<1>1. stream \in SymbolStreams /\ program \in Programs /\ module \in Nat  BY DEF Walking
<1>2. offset \in Nat  BY <1>1, NextRecordFollows
<1>3. /\ FunctionSymbols!FunctionOf(stream.recordAt[offset]).rva \in Nat
      /\ FunctionSymbols!FunctionOf(stream.recordAt[offset]).size \in Nat
  BY <1>1, FunctionOfRecord
<1>4. nullptr \in Int  BY DEF nullptr
<1> QED  BY <1>1, <1>2, <1>3, <1>4 DEF StoredFunction, FunctionRecord

\* What a hash record leads to.
LEMMA PublicFields ==
  ASSUME NEW p \in Programs, NEW k \in DOMAIN p.hashRecords
  PROVE  LET record == p.symbolRecords[p.hashRecords[k] - 1]
         IN  /\ k \in Nat \ {0} /\ p.hashRecords[k] - 1 \in Nat
             /\ record.kind = "S_PUB32" =>
                  /\ record.section \in Nat /\ record.offset \in Nat
                  /\ AddressIn(p, record.section, record.offset) \in Nat
<1> DEFINE at == p.hashRecords[k] - 1
<1>1. p.hashRecords \in Seq(Nat \ {0})  BY ProgramsAssumption
<1>2. k \in Nat \ {0} /\ at \in Nat  BY <1>1
<1>3. at \in DOMAIN p.symbolRecords  BY ProgramsAssumption
<1>4. p.symbolRecords[at].kind = "S_PUB32" => IsLocated(p.symbolRecords[at])
  BY <1>3, ProgramsAssumption
<1> QED  BY <1>2, <1>4, AddressIsNatural DEF IsLocated

LEMMA StoredPublicTyped ==
  ASSUME program \in Programs, hashRecord \in DOMAIN program.hashRecords,
         PublicRecord.kind = "S_PUB32"
  PROVE  StoredPublic \in FunctionRecord
<1>1. /\ program.hashRecords[hashRecord] - 1 \in Nat
      /\ AddressIn(program, PublicRecord.section, PublicRecord.offset) \in Nat
  BY PublicFields DEF PublicRecord
<1>2. nullptr \in Int  BY DEF nullptr
<1>3. <<0, program.hashRecords[hashRecord] - 1>> \in Nat \X Nat  BY <1>1
<1> QED  BY <1>1, <1>2, <1>3 DEF StoredPublic, FunctionRecord

\* What the steps of ExampleFunctionSymbols that add something do.
LEMMA FunctionStored ==
  ASSUME Walking, FunctionSymbols!StoreFunction
  PROVE  /\ pc = "symbols" /\ pc' = pc /\ module' = module /\ program' = program
         /\ offset \in DOMAIN stream.recordAt
         /\ \/ /\ FunctionSymbols!FunctionOf(stream.recordAt[offset]).rva = 0
               /\ functionSymbols' = functionSymbols /\ seenFunctionRVAs' = seenFunctionRVAs
            \/ /\ FunctionSymbols!FunctionOf(stream.recordAt[offset]).rva # 0
               /\ functionSymbols' = Append(functionSymbols, StoredFunction)
               /\ seenFunctionRVAs' = seenFunctionRVAs
                    \cup {FunctionSymbols!FunctionOf(stream.recordAt[offset]).rva}
<1>1. pc = "symbols" /\ FunctionSymbols!Callback  BY DEF FunctionSymbols!StoreFunction
<1>2. offset \in DOMAIN stream.recordAt  BY <1>1, WalkMovesOn DEF Walks
<1> QED
  BY <1>1, <1>2
  DEF FunctionSymbols!StoreFunction, FunctionSymbols!Record, StoredFunction,
      FunctionSymbols!nullptr, nullptr

LEMMA PublicStored ==
  ASSUME Walking, FunctionsTyped, FunctionSymbols!StorePublic
  PROVE  /\ hashRecord \in DOMAIN program.hashRecords
         /\ \/ /\ ~ FunctionSymbols!IsNew(PublicRecord)
               /\ functionSymbols' = functionSymbols
            \/ /\ FunctionSymbols!IsNew(PublicRecord) /\ PublicRecord.kind = "S_PUB32"
               /\ functionSymbols' = Append(functionSymbols, StoredPublic)
<1>1. program.hashRecords \in Seq(Nat \ {0})  BY ProgramsAssumption DEF Walking
<1>2. hashRecord \in Nat \ {0}  BY DEF FunctionsTyped
<1>3. hashRecord <= Len(program.hashRecords)  BY DEF FunctionSymbols!StorePublic
<1>4. hashRecord \in DOMAIN program.hashRecords  BY <1>1, <1>2, <1>3
<1>5. FunctionSymbols!GetRecord(program.hashRecords[hashRecord]) = PublicRecord
  BY DEF FunctionSymbols!GetRecord, PublicRecord
<1>6. functionSymbols' = IF FunctionSymbols!IsNew(PublicRecord)
                           THEN Append(functionSymbols, StoredPublic)
                           ELSE functionSymbols
  BY <1>5, AddressesOfFunctions
  DEF FunctionSymbols!StorePublic, StoredPublic, FunctionSymbols!nullptr, nullptr
<1>7. FunctionSymbols!IsNew(PublicRecord) => PublicRecord.kind = "S_PUB32"
  BY DEF FunctionSymbols!IsNew
<1> QED  BY <1>4, <1>6, <1>7

LEMMA FunctionsAlwaysTyped == Spec => []FunctionsTyped
<1>1. Init => FunctionsTyped
  BY DEF Init, FunctionsTyped, FunctionSymbols!Init
<1>2. ASSUME Walking, FunctionsTyped, [Next]_vars PROVE FunctionsTyped'
  <2>1. hashRecord \in Nat \ {0} /\ hashRecord + 1 \in Nat \ {0} /\ 1 \in Nat \ {0}
    <3>1. hashRecord \in Nat \ {0}  BY <1>2 DEF FunctionsTyped
    <3> QED  BY ONLY <3>1
  <2>2. functionSymbols \in Seq(FunctionRecord)  BY <1>2 DEF FunctionsTyped
  <2> USE DEF FunctionsTyped
  <2>3. CASE ShowContributions
    BY <2>1, <2>2, <2>3 DEF ShowContributions, functionSymbolVars
  <2>4. CASE CallSymbols
    BY <2>1, <2>2, <2>4 DEF CallSymbols, functionSymbolVars, Symbols!Start
  <2>5. CASE CollectSymbols
    <3>1. functionSymbols' = functionSymbols  BY <2>5 DEF CollectSymbols, functionSymbolVars
    <3>2. hashRecord' \in {hashRecord, hashRecord + 1, 1}
      BY <2>5
      DEF CollectSymbols, Symbols!Next, Symbols!StorePublic, Symbols!StartGlobals,
          Symbols!StoreGlobal, Symbols!StartModules, Symbols!SkipModule,
          Symbols!StartModule, Symbols!StoreModuleSymbol, Symbols!FinishModule
    <3> QED  BY <2>1, <2>2, <3>1, <3>2
  <2>6. CASE CallFunctionSymbols
    BY <2>1, <2>2, <2>6 DEF CallFunctionSymbols, FunctionSymbols!Start
  <2>7. CASE CollectFunctions
    <3>1. CASE FunctionSymbols!SkipModule \/ FunctionSymbols!StartModule
                 \/ FunctionSymbols!FinishModule
      BY <2>1, <2>2, <3>1
      DEF FunctionSymbols!SkipModule, FunctionSymbols!StartModule,
          FunctionSymbols!FinishModule, FunctionSymbols!symbolVars
    <3>2. CASE FunctionSymbols!StoreFrameProc
      <4>1. stream \in SymbolStreams /\ offset \in DOMAIN stream.recordAt
        BY <1>2, <3>2, WalkMovesOn DEF FunctionSymbols!StoreFrameProc, Walks
      <4>2. offset \in Int /\ 0 \in Nat  BY <4>1, NextRecordFollows
      <4>3. /\ hashRecord' = hashRecord
            /\ functionSymbols'
                 = [functionSymbols EXCEPT ![Len(functionSymbols)].frameProc = offset]
        BY <3>2 DEF FunctionSymbols!StoreFrameProc
      <4> QED  BY <2>1, <2>2, <4>2, <4>3, StoredWithLast
    <3>3. CASE FunctionSymbols!StoreFunction
      <4>1. hashRecord' = hashRecord  BY <3>3 DEF FunctionSymbols!StoreFunction
      <4>2. pc = "symbols" /\ offset \in DOMAIN stream.recordAt
        BY <1>2, <3>3, FunctionStored
      <4>3. StoredFunction \in FunctionRecord
        BY <1>2, <4>2, StoredFunctionTyped DEF Walks
      <4>4. \/ functionSymbols' = functionSymbols
            \/ functionSymbols' = Append(functionSymbols, StoredFunction)
        BY <1>2, <3>3, FunctionStored
      <4> QED  BY <2>1, <2>2, <4>1, <4>3, <4>4, FunctionAppended
    <3>4. CASE FunctionSymbols!StorePublic
      <4>1. hashRecord' = hashRecord + 1  BY <3>4 DEF FunctionSymbols!StorePublic
      <4>2. CASE functionSymbols' = functionSymbols
        BY <2>1, <2>2, <4>1, <4>2
      <4>3. CASE functionSymbols' # functionSymbols
        <5>1. /\ hashRecord \in DOMAIN program.hashRecords /\ PublicRecord.kind = "S_PUB32"
              /\ functionSymbols' = Append(functionSymbols, StoredPublic)
          BY <1>2, <3>4, <4>3, PublicStored
        <5>2. StoredPublic \in FunctionRecord
          BY <1>2, <5>1, StoredPublicTyped DEF Walking
        <5> QED  BY <2>1, <2>2, <4>1, <5>1, <5>2, FunctionAppended
      <4> QED  BY <4>2, <4>3
    <3>5. CASE FunctionSymbols!Sort
      BY <2>1, <2>2, <3>5, FunctionsSorted DEF FunctionSymbols!Sort
    <3>6. CASE FunctionSymbols!FindSizes
      <4>1. FunctionSymbols!SizeFromContributions \in Nat
        BY <1>2, SizeIsNatural DEF Walking
      <4>2. /\ hashRecord' = hashRecord
            /\ \/ functionSymbols' = functionSymbols
               \/ functionSymbols' = [functionSymbols EXCEPT ![Len(functionSymbols)].size =
                                        FunctionSymbols!SizeFromContributions]
        BY <3>6 DEF FunctionSymbols!FindSizes
      <4>3. [functionSymbols EXCEPT ![Len(functionSymbols)].size =
               FunctionSymbols!SizeFromContributions] \in Seq(FunctionRecord)
        <5>1. 0 \in Int  OBVIOUS
        <5> QED  BY <2>2, <4>1, <5>1, StoredWithLast
      <4> QED  BY <2>1, <2>2, <4>2, <4>3
    <3> QED
      BY <2>7, <3>1, <3>2, <3>3, <3>4, <3>5, <3>6
      DEF CollectFunctions, FunctionSymbols!Next
  <2>8. CASE CallFunctionVariables
    BY <2>1, <2>2, <2>8 DEF CallFunctionVariables, functionSymbolVars
  <2>9. CASE DisplayVariables
    BY <2>1, <2>2, <2>9 DEF DisplayVariables, functionSymbolVars
  <2>10. CASE UNCHANGED vars
    BY <2>1, <2>2, <2>10 DEF vars, functionSymbolVars
  <2> QED
    BY <1>2, <2>3, <2>4, <2>5, <2>6, <2>7, <2>8, <2>9, <2>10 DEF Next
<1> QED  BY <1>1, <1>2, WalksStayInModules, PTL DEF Spec

\* Where frame information has to be: within the records of the function it is with.
FrameInOwn(p, f) ==
  f.frameProc # nullptr =>
    LET recordAt == p.modules[f.from[1]].recordAt
    IN  /\ f.from[1] # 0 /\ recordAt[f.from[2]].kind \in ProcedureKinds
        /\ f.frameProc \in f.from[2] .. recordAt[f.from[2]].end
        /\ recordAt[f.frameProc].kind = "S_FRAMEPROC"

\* The walk has come past this function, and past no other behind it.
IsLastPassed(p) ==
  /\ stream.recordAt[p].kind \in ProcedureKinds
  /\ p < offset
  /\ \A q \in DOMAIN stream.recordAt :
       p < q /\ q < offset => stream.recordAt[q].kind \notin ProcedureKinds \cup {"S_TRAMPOLINE"}

\* The function stored last is the one the walk has come past last, and all frame
\* information so far is with its function.
FramesInOwn ==
  /\ \A i \in 1 .. Len(functionSymbols) : FrameInOwn(program, functionSymbols[i])
  /\ pc = "symbols" =>
       \A p \in DOMAIN stream.recordAt :
         IsLastPassed(p) /\ FunctionAddress(program, stream.recordAt[p]) # 0 =>
           /\ Len(functionSymbols) > 0
           /\ functionSymbols[Len(functionSymbols)].from = <<module, p>>

\* A procedure without an address adds no function, so the frame information behind
\* it would go to the function in front.  Programs in which this cannot happen:
FramedFunctionsHaveAddresses(p) ==
  \A m \in DOMAIN p.modules : \A o \in DOMAIN p.modules[m].recordAt :
    p.modules[m].recordAt[o].kind = "S_FRAMEPROC" =>
      \A q \in OpenIn(p.modules[m], o) :
        p.modules[m].recordAt[q].kind \in ProcedureKinds =>
          FunctionAddress(p, p.modules[m].recordAt[q]) # 0

\* An S_FRAMEPROC comes behind the function it is about, with no other between.
LEMMA FrameBehindFunction ==
  ASSUME NEW s \in SymbolStreams, NEW o \in DOMAIN s.recordAt,
         s.recordAt[o].kind = "S_FRAMEPROC"
  PROVE  \E p \in DOMAIN s.recordAt :
           /\ p \in OpenIn(s, o) /\ s.recordAt[p].kind \in ProcedureKinds
           /\ p < o /\ o <= s.recordAt[p].end
           /\ s.recordAt[p].end \in Nat
           /\ \A q \in DOMAIN s.recordAt : p < q /\ q < o =>
                s.recordAt[q].kind \notin ProcedureKinds \cup {"S_TRAMPOLINE"}
<1>1. PICK p \in OpenIn(s, o) : s.recordAt[p].kind \in ProcedureKinds
  BY ScopesAssumption
<1>2. /\ p \in Scopes(s) /\ p \in DOMAIN s.recordAt
      /\ p < o /\ o <= s.recordAt[p].end
  BY DEF OpenIn, Scopes
<1>3. s.recordAt[p].end \in DOMAIN s.recordAt  BY <1>2, ScopesAssumption
<1>4. s.recordAt[p].end \in Nat /\ o \in Nat  BY <1>3, NextRecordFollows
<1>5. ASSUME NEW q \in DOMAIN s.recordAt, p < q, q < o
      PROVE  s.recordAt[q].kind \notin ProcedureKinds \cup {"S_TRAMPOLINE"}
  <2>1. q \in Nat  BY NextRecordFollows
  <2>2. q <= s.recordAt[p].end  BY <1>2, <1>4, <1>5, <2>1
  <2>3. p \in OpenIn(s, q)  BY <1>2, <1>5, <2>2 DEF OpenIn
  <2> QED  BY <2>3, ScopesAssumption DEF OutermostScopes
<1> QED  BY <1>1, <1>2, <1>4, <1>5

\* The function passed last, one record further on.
LEMMA LastPassedMovesOn ==
  ASSUME stream \in SymbolStreams, offset \in DOMAIN stream.recordAt, stream' = stream,
         offset' = NextRecordIn(stream, offset),
         NEW p \in DOMAIN stream.recordAt, IsLastPassed(p)'
  PROVE  \/ p = offset
         \/ /\ IsLastPassed(p)
            /\ stream.recordAt[offset].kind \notin ProcedureKinds \cup {"S_TRAMPOLINE"}
<1>1. \A q \in DOMAIN stream.recordAt : q < offset' <=> q <= offset
  BY NextRecordFollows
<1>2. offset \in Nat /\ p \in Nat  BY NextRecordFollows
<1>3. \A q \in DOMAIN stream.recordAt : q \in Nat  BY NextRecordFollows
<1>4. p <= offset /\ stream.recordAt[p].kind \in ProcedureKinds
  BY <1>1 DEF IsLastPassed
<1>5. ASSUME p # offset
      PROVE  /\ IsLastPassed(p)
             /\ stream.recordAt[offset].kind \notin ProcedureKinds \cup {"S_TRAMPOLINE"}
  <2>1. p < offset  BY <1>2, <1>4, <1>5
  <2>2. \A q \in DOMAIN stream.recordAt : p < q /\ q <= offset =>
          stream.recordAt[q].kind \notin ProcedureKinds \cup {"S_TRAMPOLINE"}
    BY <1>1 DEF IsLastPassed
  <2>3. \A q \in DOMAIN stream.recordAt : q < offset => q <= offset
    BY <1>2, <1>3
  <2>4. offset <= offset  BY <1>2
  <2> QED  BY <1>4, <2>1, <2>2, <2>3, <2>4 DEF IsLastPassed
<1> QED  BY <1>5

LEMMA ProgramStays ==
  ASSUME [Next]_vars
  PROVE  program' = program
<1>1. ShowContributions => program' = program
  BY DEF ShowContributions, Contributions!Next, Contributions!StoreContribution,
         Contributions!Sort, Contributions!ShowLargest
<1>2. CallSymbols \/ CollectSymbols => program' = program
  BY DEF CallSymbols, Symbols!Start, CollectSymbols, Symbols!Next, Symbols!StorePublic,
         Symbols!StartGlobals, Symbols!StoreGlobal, Symbols!StartModules,
         Symbols!SkipModule, Symbols!StartModule, Symbols!StoreModuleSymbol,
         Symbols!FinishModule
<1>3. CallFunctionSymbols \/ CollectFunctions => program' = program
  BY DEF CallFunctionSymbols, FunctionSymbols!Start, CollectFunctions,
         FunctionSymbols!Next, FunctionSymbols!SkipModule, FunctionSymbols!StartModule,
         FunctionSymbols!FinishModule, FunctionSymbols!StoreFrameProc,
         FunctionSymbols!StoreFunction, FunctionSymbols!StorePublic,
         FunctionSymbols!Sort, FunctionSymbols!FindSizes
<1>4. CallFunctionVariables \/ DisplayVariables => program' = program
  BY DEF CallFunctionVariables, FunctionVariables!Start, DisplayVariables,
         FunctionVariables!Next, FunctionVariables!SkipModule,
         FunctionVariables!StartModule, FunctionVariables!FinishModule,
         FunctionVariables!EndScope, FunctionVariables!OpenNested,
         FunctionVariables!OpenProcedure, FunctionVariables!OpenThunk,
         FunctionVariables!PrintRecord, FunctionVariables!IgnoreRecord,
         FunctionVariables!Symbol
<1>5. UNCHANGED vars => program' = program  BY DEF vars
<1> QED  BY <1>1, <1>2, <1>3, <1>4, <1>5 DEF Next

\* One call of the callback of ExampleFunctionSymbols.
LEMMA FramesKeptByCallback ==
  ASSUME \A p \in Programs : FramedFunctionsHaveAddresses(p),
         Walking, FunctionsTyped, FramesInOwn, program' = program,
         FunctionSymbols!StoreFrameProc \/ FunctionSymbols!StoreFunction
  PROVE  FramesInOwn'
<1> DEFINE record == stream.recordAt[offset]
           last == Len(functionSymbols)
<1>1. /\ pc = "symbols" /\ pc' = pc /\ module' = module
      /\ FunctionSymbols!Callback
  BY DEF FunctionSymbols!StoreFrameProc, FunctionSymbols!StoreFunction
<1>2. /\ stream' = stream /\ stream \in SymbolStreams
      /\ offset \in DOMAIN stream.recordAt
      /\ offset' = NextRecordIn(stream, offset)
  BY <1>1, WalkMovesOn DEF Walks
<1>3. /\ program \in Programs /\ module \in Nat \ {0}
      /\ module \in DOMAIN program.modules /\ stream = program.modules[module]
  BY <1>1 DEF Walking, Walks
<1>4. functionSymbols \in Seq(FunctionRecord) /\ last \in Nat  BY DEF FunctionsTyped
<1>5. \A i \in 1 .. last : FrameInOwn(program, functionSymbols[i])  BY DEF FramesInOwn
<1>6. \A p \in DOMAIN stream.recordAt :
        IsLastPassed(p) /\ FunctionAddress(program, stream.recordAt[p]) # 0 =>
          last > 0 /\ functionSymbols[last].from = <<module, p>>
  BY <1>1 DEF FramesInOwn
<1>7. \A p \in DOMAIN stream.recordAt : IsLastPassed(p)' =>
        \/ p = offset /\ record.kind \in ProcedureKinds
        \/ IsLastPassed(p) /\ record.kind \notin ProcedureKinds \cup {"S_TRAMPOLINE"}
  BY <1>2, LastPassedMovesOn DEF IsLastPassed
<1>8. CASE FunctionSymbols!StoreFrameProc
  <2>1. /\ record.kind = "S_FRAMEPROC"
        /\ functionSymbols' = [functionSymbols EXCEPT ![last].frameProc = offset]
    BY <1>8 DEF FunctionSymbols!StoreFrameProc, FunctionSymbols!Record
  <2>2. PICK p \in DOMAIN stream.recordAt :
          /\ p \in OpenIn(stream, offset) /\ stream.recordAt[p].kind \in ProcedureKinds
          /\ p < offset /\ offset <= stream.recordAt[p].end
          /\ stream.recordAt[p].end \in Nat
          /\ \A q \in DOMAIN stream.recordAt : p < q /\ q < offset =>
               stream.recordAt[q].kind \notin ProcedureKinds \cup {"S_TRAMPOLINE"}
    BY <1>2, <2>1, FrameBehindFunction
  <2>3. IsLastPassed(p)  BY <2>2 DEF IsLastPassed
  <2>4. last > 0 /\ functionSymbols[last].from = <<module, p>>
    <3>1. FunctionAddress(program, stream.recordAt[p]) # 0
      BY <1>2, <1>3, <2>1, <2>2 DEF FramedFunctionsHaveAddresses
    <3> QED  BY <1>6, <2>3, <3>1
  <2>5. offset \in Int /\ 0 \in Nat /\ p \in Nat /\ offset \in Nat
    BY <1>2, NextRecordFollows
  <2>6. /\ Len(functionSymbols') = last
        /\ \A i \in 1 .. last : functionSymbols'[i] =
             IF i = last THEN [functionSymbols[i] EXCEPT !.frameProc = offset]
             ELSE functionSymbols[i]
    BY <1>4, <2>1, <2>5, StoredWithLast
  <2>7. functionSymbols[last] \in FunctionRecord /\ last \in 1 .. last  BY <1>4, <2>4
  <2>8. /\ functionSymbols'[last].from = <<module, p>>
        /\ functionSymbols'[last].frameProc = offset
    BY <2>4, <2>6, <2>7 DEF FunctionRecord
  <2>9. FrameInOwn(program, functionSymbols'[last])
    <3>1. offset \in p .. stream.recordAt[p].end  BY <2>2, <2>5
    <3> QED  BY <1>3, <2>1, <2>2, <2>8, <3>1 DEF FrameInOwn
  <2>10. \A i \in 1 .. last : FrameInOwn(program, functionSymbols'[i])
    BY <1>5, <2>6, <2>9
  <2>11. ASSUME NEW q \in DOMAIN stream.recordAt, IsLastPassed(q)',
                FunctionAddress(program, stream.recordAt[q]) # 0
         PROVE  last > 0 /\ functionSymbols'[last].from = <<module, q>>
    <3>1. IsLastPassed(q)  BY <1>7, <2>1, <2>11 DEF ProcedureKinds
    <3> QED  BY <1>6, <2>4, <2>8, <2>11, <3>1
  <2> HIDE DEF last
  <2> QED  BY <1>1, <1>2, <2>6, <2>10, <2>11 DEF FramesInOwn
<1>9. CASE FunctionSymbols!StoreFunction
  <2>1. /\ StoredFunction \in FunctionRecord
        /\ StoredFunction.from = <<module, offset>> /\ StoredFunction.frameProc = nullptr
    BY <1>1, <1>2, StoredFunctionTyped DEF Walks, StoredFunction
  <2>2. record.kind \in ProcedureKinds =>
          FunctionSymbols!FunctionOf(record).rva = FunctionAddress(program, record)
    BY <1>2, <1>3, FunctionOfRecord
  <2>3. CASE functionSymbols' = functionSymbols
             /\ FunctionSymbols!FunctionOf(record).rva = 0
    <3>1. \A p \in DOMAIN stream.recordAt :
            IsLastPassed(p)' /\ FunctionAddress(program, stream.recordAt[p]) # 0
              => IsLastPassed(p)
      BY <1>7, <2>2, <2>3
    <3> QED  BY <1>1, <1>2, <1>5, <1>6, <2>3, <3>1 DEF FramesInOwn
  <2>4. CASE functionSymbols' = Append(functionSymbols, StoredFunction)
             /\ FunctionSymbols!FunctionOf(record).rva # 0
    <3>1. /\ Len(functionSymbols') = last + 1
          /\ \A i \in 1 .. last : functionSymbols'[i] = functionSymbols[i]
          /\ functionSymbols'[last + 1] = StoredFunction
      BY <1>4, <2>1, <2>4, FunctionAppended
    <3>2. FrameInOwn(program, StoredFunction)  BY <2>1 DEF FrameInOwn
    <3>3. \A i \in 1 .. (last + 1) : FrameInOwn(program, functionSymbols'[i])
      <4>1. \A i \in 1 .. (last + 1) : i \in 1 .. last \/ i = last + 1  BY <1>4
      <4> QED  BY <1>5, <3>1, <3>2, <4>1
    <3>4. record.kind \in ProcedureKinds \cup {"S_TRAMPOLINE"}
      BY <1>2, <1>3, <2>4, FunctionOfRecord
    <3>5. \A p \in DOMAIN stream.recordAt : IsLastPassed(p)' => p = offset
      BY <1>7, <3>4
    <3>6. last + 1 > 0  BY <1>4
    <3> HIDE DEF last
    <3> QED  BY <1>1, <1>2, <2>1, <3>1, <3>3, <3>5, <3>6 DEF FramesInOwn
  <2> QED  BY <1>9, <2>3, <2>4, FunctionStored
<1> QED  BY <1>8, <1>9

\* Frame information is with its function all the time.
LEMMA FramesAlwaysInOwn ==
  ASSUME \A p \in Programs : FramedFunctionsHaveAddresses(p)
  PROVE  Spec => []FramesInOwn
<1>1. Init => FramesInOwn
  BY DEF Init, FramesInOwn, FunctionSymbols!Init, Contributions!Init
<1>2. ASSUME Walking, FunctionsTyped, FramesInOwn, [Next]_vars
      PROVE  FramesInOwn'
  <2>1. /\ program' = program /\ program \in Programs
        /\ functionSymbols \in Seq(FunctionRecord) /\ Len(functionSymbols) \in Nat
        /\ \A i \in 1 .. Len(functionSymbols) : FrameInOwn(program, functionSymbols[i])
    BY <1>2, ProgramStays DEF Walking, FunctionsTyped, FramesInOwn
  <2>2. functionSymbols' = functionSymbols /\ pc' # "symbols" => FramesInOwn'
    BY <2>1 DEF FramesInOwn
  <2>3. CASE ShowContributions \/ CallSymbols \/ CollectSymbols
               \/ CallFunctionVariables \/ DisplayVariables
    <3>1. pc' # "symbols"
      BY <2>3, StepPhases DEF ContributionPhases, SymbolPhases, VariablePhases
    <3>2. functionSymbols' = functionSymbols
      BY <2>3
      DEF ShowContributions, CallSymbols, CollectSymbols, CallFunctionVariables,
          DisplayVariables, functionSymbolVars
    <3> QED  BY <2>2, <3>1, <3>2
  <2>4. CASE CallFunctionSymbols
    BY <2>2, <2>4 DEF CallFunctionSymbols, FunctionSymbols!Start
  <2>5. CASE CollectFunctions
    <3>1. CASE FunctionSymbols!SkipModule \/ FunctionSymbols!FinishModule
      BY <2>2, <3>1
      DEF FunctionSymbols!SkipModule, FunctionSymbols!FinishModule,
          FunctionSymbols!symbolVars
    <3>2. CASE FunctionSymbols!StartModule
      <4>1. /\ functionSymbols' = functionSymbols
            /\ stream' = program.modules[module] /\ offset' = SizeOfSignature
            /\ module <= Len(program.modules)
            /\ HasSymbolStream(program.modules[module])
        BY <3>2
        DEF FunctionSymbols!StartModule, FunctionSymbols!StartOn, FunctionSymbols!symbolVars,
            FunctionSymbols!SizeOfSignature, SizeOfSignature,
            FunctionSymbols!HasSymbolStream, HasSymbolStream,
            FunctionSymbols!NoSymbolStream, NoSymbolStream
      <4>2. ASSUME NEW s \in SymbolStreams, NEW p \in DOMAIN s.recordAt
            PROVE  ~ (p < SizeOfSignature)
        <5>1. p \in SizeOfSignature .. (s.size - 1) /\ s.size \in Nat
          BY SymbolStreamsAssumption
        <5> QED  BY <5>1 DEF SizeOfSignature
      <4>3. \A p \in DOMAIN stream'.recordAt : ~ (p < offset')
        <5>1. program.modules[module] \in SymbolStreams  BY <1>2, <4>1, WalkStarts
        <5> QED  BY <4>1, <4>2, <5>1
      <4> QED  BY <2>1, <4>1, <4>3 DEF FramesInOwn, IsLastPassed
    <3>3. CASE FunctionSymbols!StoreFrameProc \/ FunctionSymbols!StoreFunction
      BY <1>2, <2>1, <3>3, FramesKeptByCallback
    <3>4. CASE FunctionSymbols!StorePublic
      <4>1. pc' # "symbols"  BY <3>4 DEF FunctionSymbols!StorePublic
      <4>2. CASE functionSymbols' = functionSymbols  BY <2>2, <4>1, <4>2
      <4>3. CASE functionSymbols' # functionSymbols
        <5>1. /\ hashRecord \in DOMAIN program.hashRecords /\ PublicRecord.kind = "S_PUB32"
              /\ functionSymbols' = Append(functionSymbols, StoredPublic)
          BY <1>2, <3>4, <4>3, PublicStored
        <5>2. StoredPublic \in FunctionRecord  BY <2>1, <5>1, StoredPublicTyped
        <5>3. FrameInOwn(program, StoredPublic)  BY DEF FrameInOwn, StoredPublic
        <5>4. /\ Len(functionSymbols') = Len(functionSymbols) + 1
              /\ \A i \in 1 .. Len(functionSymbols) : functionSymbols'[i] = functionSymbols[i]
              /\ functionSymbols'[Len(functionSymbols) + 1] = StoredPublic
          BY <2>1, <5>1, <5>2, FunctionAppended
        <5>5. \A i \in 1 .. (Len(functionSymbols) + 1) :
                i \in 1 .. Len(functionSymbols) \/ i = Len(functionSymbols) + 1
          BY <2>1
        <5> QED  BY <2>1, <4>1, <5>3, <5>4, <5>5 DEF FramesInOwn
      <4> QED  BY <4>2, <4>3
    <3>5. CASE FunctionSymbols!Sort
      <4>1. pc' # "symbols"  BY <3>5 DEF FunctionSymbols!Sort
      <4> QED  BY <2>1, <3>5, <4>1, FunctionsSorted DEF FramesInOwn
    <3>6. CASE FunctionSymbols!FindSizes
      <4>1. pc' # "symbols"  BY <3>6 DEF FunctionSymbols!FindSizes
      <4>2. \/ functionSymbols' = functionSymbols
            \/ functionSymbols' = [functionSymbols EXCEPT ![Len(functionSymbols)].size =
                                     FunctionSymbols!SizeFromContributions]
        BY <3>6 DEF FunctionSymbols!FindSizes
      <4>3. FunctionSymbols!SizeFromContributions \in Nat /\ 0 \in Int
        BY <2>1, SizeIsNatural
      <4>4. CASE functionSymbols' = [functionSymbols EXCEPT ![Len(functionSymbols)].size =
                                       FunctionSymbols!SizeFromContributions]
        <5>1. /\ Len(functionSymbols') = Len(functionSymbols)
              /\ \A i \in 1 .. Len(functionSymbols) : functionSymbols'[i] =
                   IF i = Len(functionSymbols)
                     THEN [functionSymbols[i] EXCEPT !.size = FunctionSymbols!SizeFromContributions]
                     ELSE functionSymbols[i]
          BY <2>1, <4>3, <4>4, StoredWithLast
        <5>2. ASSUME NEW i \in 1 .. Len(functionSymbols)
              PROVE  /\ functionSymbols'[i].from = functionSymbols[i].from
                     /\ functionSymbols'[i].frameProc = functionSymbols[i].frameProc
          <6>1. functionSymbols[i] \in FunctionRecord  BY <2>1
          <6>2. ASSUME NEW f \in FunctionRecord, NEW n
                PROVE  /\ [f EXCEPT !.size = n].from = f.from
                       /\ [f EXCEPT !.size = n].frameProc = f.frameProc
            BY DEF FunctionRecord
          <6>3. \/ functionSymbols'[i] = functionSymbols[i]
                \/ functionSymbols'[i] =
                     [functionSymbols[i] EXCEPT !.size = FunctionSymbols!SizeFromContributions]
            BY <5>1
          <6> HIDE DEF FunctionRecord
          <6> QED  BY <6>1, <6>2, <6>3
        <5>3. \A i \in 1 .. Len(functionSymbols) : FrameInOwn(program, functionSymbols'[i])
          BY <2>1, <5>2 DEF FrameInOwn
        <5> QED  BY <2>1, <4>1, <5>1, <5>3 DEF FramesInOwn
      <4> QED  BY <2>2, <4>1, <4>2, <4>4
    <3> QED
      BY <2>5, <3>1, <3>2, <3>3, <3>4, <3>5, <3>6
      DEF CollectFunctions, FunctionSymbols!Next
  <2>6. CASE UNCHANGED vars
    BY <1>2, <2>6
    DEF vars, symbolStreamVars, functionSymbolVars, FramesInOwn, IsLastPassed
  <2> QED  BY <1>2, <2>3, <2>4, <2>5, <2>6 DEF Next
<1> QED  BY <1>1, <1>2, WalksStayInModules, FunctionsAlwaysTyped, PTL DEF Spec

\* Frame information found by position stays with its function through the sort, in
\* programs whose functions with frame information have addresses.
THEOREM FramesStayWithFunctions ==
  ASSUME \A p \in Programs : FramedFunctionsHaveAddresses(p)
  PROVE  Spec => []FrameProcOfOwnFunction
<1>1. FunctionsTyped /\ FramesInOwn => FrameProcOfOwnFunction
  <2> SUFFICES ASSUME FunctionsTyped, FramesInOwn PROVE FrameProcOfOwnFunction
    OBVIOUS
  <2>1. DOMAIN functionSymbols = 1 .. Len(functionSymbols)  BY DEF FunctionsTyped
  <2>2. \A i \in DOMAIN functionSymbols : FrameInOwn(program, functionSymbols[i])
    BY <2>1 DEF FramesInOwn
  <2> QED
    BY <2>2
    DEF FrameProcOfOwnFunction, FunctionSymbols!FrameProcOfOwnFunction, FrameInOwn,
        FunctionSymbols!ModuleRecord, FunctionSymbols!Procedures, ProcedureKinds,
        FunctionSymbols!nullptr, nullptr
<1> QED  BY <1>1, FramesAlwaysInOwn, FunctionsAlwaysTyped, PTL

-----------------------------------------------------------------------------
(* The size of the last function.                                          *)

\* The phases behind the sort.
SortedPhases == {"sorted", "done"} \cup VariablePhases

\* What a step does to the functions: nothing, or it is one of these.
LEMMA FunctionSteps ==
  ASSUME Walking, [Next]_vars
  PROVE  \/ /\ functionSymbols' = functionSymbols
            /\ \/ pc' = pc
               \/ pc' \in VariablePhases
               \/ pc \notin SortedPhases /\ pc' \notin SortedPhases
         \/ FunctionSymbols!StoreFrameProc \/ FunctionSymbols!StoreFunction
         \/ FunctionSymbols!StorePublic \/ FunctionSymbols!Sort
         \/ FunctionSymbols!FindSizes
<1> USE DEF SortedPhases, ContributionPhases, SymbolPhases, FunctionPhases, VariablePhases
<1>1. CASE ShowContributions \/ CallSymbols \/ CollectSymbols
  <2>1. functionSymbols' = functionSymbols
    BY <1>1 DEF ShowContributions, CallSymbols, CollectSymbols, functionSymbolVars
  <2>2. pc \notin SortedPhases /\ pc' \notin SortedPhases  BY <1>1, StepPhases
  <2> QED  BY <2>1, <2>2
<1>2. CASE CallFunctionVariables \/ DisplayVariables
  <2>1. functionSymbols' = functionSymbols
    BY <1>2 DEF CallFunctionVariables, DisplayVariables, functionSymbolVars
  <2>2. pc' \in VariablePhases  BY <1>2, StepPhases
  <2> QED  BY <2>1, <2>2
<1>3. CASE CallFunctionSymbols
  <2>1. functionSymbols' = functionSymbols
    BY <1>3 DEF CallFunctionSymbols, FunctionSymbols!Start
  <2>2. pc \notin SortedPhases /\ pc' \notin SortedPhases  BY <1>3, StepPhases
  <2> QED  BY <2>1, <2>2
<1>4. CASE FunctionSymbols!SkipModule \/ FunctionSymbols!StartModule
             \/ FunctionSymbols!FinishModule
  <2>1. functionSymbols' = functionSymbols
    BY <1>4 DEF FunctionSymbols!SkipModule, FunctionSymbols!StartModule,
                FunctionSymbols!FinishModule, FunctionSymbols!symbolVars
  <2>2. pc \in {"module", "symbols"} /\ pc' \in {"module", "symbols"}
    BY <1>4 DEF FunctionSymbols!SkipModule, FunctionSymbols!StartModule,
                FunctionSymbols!FinishModule
  <2> QED  BY <2>1, <2>2
<1>5. CASE UNCHANGED vars
  BY <1>5 DEF vars, functionSymbolVars
<1> QED
  BY <1>1, <1>2, <1>3, <1>4, <1>5 DEF Next, CollectFunctions, FunctionSymbols!Next

\* Every function has an address, and a public one has no size before sizes are
\* looked for.
AddressesAndSizes ==
  /\ \A i \in 1 .. Len(functionSymbols) : functionSymbols[i].rva # 0
  /\ pc \notin {"done"} \cup VariablePhases =>
       \A i \in 1 .. Len(functionSymbols) :
         functionSymbols[i].from[1] = 0 => functionSymbols[i].size = 0

\* The frame information stored leaves the rest of a function as it was.
LEMMA FrameStored ==
  ASSUME Walking, FunctionsTyped, FunctionSymbols!StoreFrameProc
  PROVE  /\ pc = "symbols" /\ pc' = pc /\ module' = module /\ program' = program
         /\ seenFunctionRVAs' = seenFunctionRVAs /\ hashRecord' = hashRecord
         /\ offset \in DOMAIN stream.recordAt
         /\ stream.recordAt[offset].kind = "S_FRAMEPROC"
         /\ Len(functionSymbols') = Len(functionSymbols)
         /\ \A i \in 1 .. Len(functionSymbols) :
              /\ functionSymbols'[i].from = functionSymbols[i].from
              /\ functionSymbols'[i].rva = functionSymbols[i].rva
              /\ functionSymbols'[i].size = functionSymbols[i].size
<1>1. /\ pc = "symbols" /\ pc' = pc /\ module' = module /\ program' = program
      /\ seenFunctionRVAs' = seenFunctionRVAs /\ hashRecord' = hashRecord
      /\ FunctionSymbols!Callback
      /\ stream.recordAt[offset].kind = "S_FRAMEPROC"
      /\ functionSymbols' = [functionSymbols EXCEPT ![Len(functionSymbols)].frameProc = offset]
  BY DEF FunctionSymbols!StoreFrameProc, FunctionSymbols!Record
<1>2. offset \in DOMAIN stream.recordAt /\ stream \in SymbolStreams
  BY <1>1, WalkMovesOn DEF Walks
<1>3. offset \in Int /\ 0 \in Nat  BY <1>2, NextRecordFollows
<1>4. functionSymbols \in Seq(FunctionRecord)  BY DEF FunctionsTyped
<1>5. /\ Len(functionSymbols') = Len(functionSymbols)
      /\ \A i \in 1 .. Len(functionSymbols) : functionSymbols'[i] =
           IF i = Len(functionSymbols) THEN [functionSymbols[i] EXCEPT !.frameProc = offset]
           ELSE functionSymbols[i]
  BY <1>1, <1>3, <1>4, StoredWithLast
<1>6. ASSUME NEW i \in 1 .. Len(functionSymbols)
      PROVE  /\ functionSymbols'[i].from = functionSymbols[i].from
             /\ functionSymbols'[i].rva = functionSymbols[i].rva
             /\ functionSymbols'[i].size = functionSymbols[i].size
  <2>1. functionSymbols[i] \in FunctionRecord  BY <1>4
  <2>2. \/ functionSymbols'[i] = functionSymbols[i]
        \/ functionSymbols'[i] = [functionSymbols[i] EXCEPT !.frameProc = offset]
    BY <1>5
  <2>3. LET framed == [functionSymbols[i] EXCEPT !.frameProc = offset]
        IN  /\ framed.from = functionSymbols[i].from /\ framed.rva = functionSymbols[i].rva
            /\ framed.size = functionSymbols[i].size
    BY <2>1 DEF FunctionRecord
  <2> QED  BY <2>2, <2>3
<1> QED  BY <1>1, <1>2, <1>5, <1>6

\* Looking for sizes changes no more than that of the last function, and only if it
\* has none.
LEMMA SizesFound ==
  ASSUME Walking, FunctionsTyped, FunctionSymbols!FindSizes
  PROVE  /\ pc = "sorted" /\ pc' = "done" /\ program' = program
         /\ functionSymbols' \in Seq(FunctionRecord)
         /\ Len(functionSymbols') = Len(functionSymbols)
         /\ \A i \in 1 .. Len(functionSymbols) :
              /\ functionSymbols'[i].from = functionSymbols[i].from
              /\ functionSymbols'[i].rva = functionSymbols[i].rva
              /\ functionSymbols'[i].size =
                   IF i = Len(functionSymbols) /\ functionSymbols[i].size = 0
                     THEN FunctionSymbols!SizeFromContributions ELSE functionSymbols[i].size
<1> DEFINE found == FunctionSymbols!SizeFromContributions
           last == Len(functionSymbols)
<1>1. functionSymbols \in Seq(FunctionRecord) /\ last \in Nat  BY DEF FunctionsTyped
<1>2. /\ pc = "sorted" /\ pc' = "done" /\ program' = program
      /\ functionSymbols' =
           IF functionSymbols = <<>> \/ functionSymbols[last].size # 0 THEN functionSymbols
           ELSE [functionSymbols EXCEPT ![last].size = found]
  BY DEF FunctionSymbols!FindSizes, FunctionSymbols!Last
<1>3. found \in Nat /\ 0 \in Int  BY SizeIsNatural DEF Walking
<1>4. functionSymbols = <<>> => last = 0  BY <1>1
<1>5. CASE functionSymbols = <<>> \/ functionSymbols[last].size # 0
  BY <1>1, <1>2, <1>4, <1>5
<1>6. CASE functionSymbols # <<>> /\ functionSymbols[last].size = 0
  <2>1. functionSymbols' = [functionSymbols EXCEPT ![last].size = found]  BY <1>2, <1>6
  <2>2. /\ functionSymbols' \in Seq(FunctionRecord)
        /\ Len(functionSymbols') = last
        /\ \A i \in 1 .. last : functionSymbols'[i] =
             IF i = last THEN [functionSymbols[i] EXCEPT !.size = found] ELSE functionSymbols[i]
    BY <1>1, <1>3, <2>1, StoredWithLast
  <2>3. ASSUME NEW i \in 1 .. last
        PROVE  /\ functionSymbols'[i].from = functionSymbols[i].from
               /\ functionSymbols'[i].rva = functionSymbols[i].rva
               /\ functionSymbols'[i].size = IF i = last THEN found ELSE functionSymbols[i].size
    <3>1. functionSymbols[i] \in FunctionRecord  BY <1>1
    <3> HIDE DEF found, last
    <3>2. LET sized == [functionSymbols[i] EXCEPT !.size = found]
          IN  /\ sized.from = functionSymbols[i].from /\ sized.rva = functionSymbols[i].rva
              /\ sized.size = found
      BY <3>1 DEF FunctionRecord
    <3>3. CASE i = last  BY <2>2, <3>2, <3>3
    <3>4. CASE i # last  BY <2>2, <3>4
    <3> QED  BY <3>3, <3>4
  <2> QED  BY <1>2, <1>6, <2>2, <2>3
<1> QED  BY <1>5, <1>6

\* The search ends at a contribution to the address, or there is none: those behind
\* it have the addresses behind it.
LEMMA SizeOfLast ==
  ASSUME program \in Programs, FunctionSymbols!Last.rva \in Nat \ {0}
  PROVE  LET own == {c \in DOMAIN program.contributions :
                       FunctionSymbols!ContributionRVA(c) = FunctionSymbols!Last.rva}
         IN  \/ own = {} /\ FunctionSymbols!SizeFromContributions = 0
             \/ \E c \in own : FunctionSymbols!SizeFromContributions = program.contributions[c].size
<1> DEFINE rva == FunctionSymbols!Last.rva
           At(c) == FunctionSymbols!ContributionRVA(c)
           own == {c \in DOMAIN program.contributions : At(c) = rva}
           first == CHOOSE c \in FunctionSymbols!Deciding :
                      \A d \in FunctionSymbols!Deciding : c <= d
<1>1. \A c \in DOMAIN program.contributions :
        c \in FunctionSymbols!Deciding <=> At(c) # 0 /\ At(c) >= rva
  BY DEF FunctionSymbols!Deciding, FunctionSymbols!ContributionRVA
<1>2. FunctionSymbols!Deciding \subseteq DOMAIN program.contributions
  BY DEF FunctionSymbols!Deciding
<1>3. own \subseteq FunctionSymbols!Deciding  BY <1>1
<1>4. CASE FunctionSymbols!Deciding = {}
  BY <1>3, <1>4 DEF FunctionSymbols!SizeFromContributions
<1>5. CASE FunctionSymbols!Deciding # {}
  <2>1. /\ first \in FunctionSymbols!Deciding
        /\ \A d \in FunctionSymbols!Deciding : first <= d
    BY <1>5, FirstDeciding
  <2>2. FunctionSymbols!SizeFromContributions
          = IF At(first) = rva THEN program.contributions[first].size ELSE 0
    BY <1>5 DEF FunctionSymbols!SizeFromContributions
  <2>3. CASE At(first) = rva
    BY <1>2, <2>1, <2>2, <2>3
  <2>4. CASE At(first) # rva
    <3>1. ASSUME NEW d \in own PROVE FALSE
      <4>1. first \in DOMAIN program.contributions /\ d \in DOMAIN program.contributions
        BY <1>2, <2>1
      <4>2. /\ At(first) = ContributionAddress(program, program.contributions[first])
            /\ At(d) = ContributionAddress(program, program.contributions[d])
        BY AddressesOfFunctions DEF FunctionSymbols!ContributionRVA, ContributionAddress
      <4>3. first \in Nat /\ d \in Nat  BY <4>1, ContributionFields
      <4>4. first <= d /\ first # d /\ At(d) = rva  BY <1>3, <2>1, <2>4
      <4>5. first < d  BY <4>3, <4>4
      <4>6. At(first) # 0 /\ At(first) >= rva  BY <1>1, <2>1, <4>1
      <4>7. At(first) <= At(d)
        BY <4>1, <4>2, <4>4, <4>5, <4>6, ContributionsAssumption
      <4>8. At(first) \in Nat
        <5>1. /\ program.contributions[first].section \in Nat
              /\ program.contributions[first].offset \in Nat
          BY <4>1, ContributionFields
        <5> QED  BY <4>2, <5>1, AddressIsNatural DEF ContributionAddress
      <4> HIDE DEF At, rva
      <4>9. rva \in Nat  BY DEF rva
      <4> QED  BY <2>4, <4>4, <4>6, <4>7, <4>8, <4>9
    <3> QED  BY <2>2, <2>4, <3>1
  <2> QED  BY <2>3, <2>4
<1> QED  BY <1>4, <1>5

LEMMA AddressesAndSizesAlways == Spec => []AddressesAndSizes
<1>1. Init => AddressesAndSizes
  BY DEF Init, AddressesAndSizes, FunctionSymbols!Init
<1>2. ASSUME Walking, FunctionsTyped, AddressesAndSizes, [Next]_vars
      PROVE  AddressesAndSizes'
  <2> USE DEF SortedPhases
  <2>1. /\ functionSymbols \in Seq(FunctionRecord) /\ Len(functionSymbols) \in Nat
        /\ \A i \in 1 .. Len(functionSymbols) : functionSymbols[i].rva # 0
        /\ pc \notin {"done"} \cup VariablePhases =>
             \A i \in 1 .. Len(functionSymbols) :
               functionSymbols[i].from[1] = 0 => functionSymbols[i].size = 0
    BY <1>2 DEF FunctionsTyped, AddressesAndSizes
  <2>2. \A i \in 1 .. (Len(functionSymbols) + 1) :
          i \in 1 .. Len(functionSymbols) \/ i = Len(functionSymbols) + 1
    BY <2>1
  <2>3. CASE /\ functionSymbols' = functionSymbols
             /\ \/ pc' = pc
                \/ pc' \in VariablePhases
                \/ pc \notin SortedPhases /\ pc' \notin SortedPhases
    BY <2>1, <2>3 DEF AddressesAndSizes
  <2>4. CASE FunctionSymbols!StoreFrameProc
    BY <1>2, <2>1, <2>4, FrameStored DEF AddressesAndSizes
  <2>5. CASE FunctionSymbols!StoreFunction
    <3>1. /\ pc' = pc /\ pc = "symbols" /\ offset \in DOMAIN stream.recordAt
          /\ \/ functionSymbols' = functionSymbols
             \/ /\ FunctionSymbols!FunctionOf(stream.recordAt[offset]).rva # 0
                /\ functionSymbols' = Append(functionSymbols, StoredFunction)
      BY <1>2, <2>5, FunctionStored
    <3>2. StoredFunction \in FunctionRecord  BY <1>2, <3>1, StoredFunctionTyped DEF Walks
    <3>3. CASE functionSymbols' = functionSymbols
      BY <2>1, <3>1, <3>3 DEF AddressesAndSizes
    <3>4. CASE /\ FunctionSymbols!FunctionOf(stream.recordAt[offset]).rva # 0
               /\ functionSymbols' = Append(functionSymbols, StoredFunction)
      <4>1. /\ Len(functionSymbols') = Len(functionSymbols) + 1
            /\ \A i \in 1 .. Len(functionSymbols) : functionSymbols'[i] = functionSymbols[i]
            /\ functionSymbols'[Len(functionSymbols) + 1] = StoredFunction
        BY <2>1, <3>2, <3>4, FunctionAppended
      <4>2. StoredFunction.from[1] # 0 /\ StoredFunction.rva # 0
        BY <1>2, <3>4 DEF Walking, StoredFunction
      <4>3. \A i \in 1 .. Len(functionSymbols) :
              functionSymbols[i].from[1] = 0 => functionSymbols[i].size = 0
        BY <2>1, <3>1 DEF VariablePhases
      <4> QED  BY <2>1, <2>2, <4>1, <4>2, <4>3 DEF AddressesAndSizes
    <3> QED  BY <3>1, <3>3, <3>4
  <2>6. CASE FunctionSymbols!StorePublic
    <3>1. pc' = pc /\ pc = "module"  BY <2>6 DEF FunctionSymbols!StorePublic
    <3>2. /\ hashRecord \in DOMAIN program.hashRecords
          /\ \/ functionSymbols' = functionSymbols
             \/ /\ FunctionSymbols!IsNew(PublicRecord) /\ PublicRecord.kind = "S_PUB32"
                /\ functionSymbols' = Append(functionSymbols, StoredPublic)
      BY <1>2, <2>6, PublicStored
    <3>3. CASE functionSymbols' = functionSymbols
      BY <2>1, <3>1, <3>3 DEF AddressesAndSizes
    <3>4. CASE /\ FunctionSymbols!IsNew(PublicRecord) /\ PublicRecord.kind = "S_PUB32"
               /\ functionSymbols' = Append(functionSymbols, StoredPublic)
      <4>1. StoredPublic \in FunctionRecord  BY <1>2, <3>2, <3>4, StoredPublicTyped DEF Walking
      <4>2. /\ Len(functionSymbols') = Len(functionSymbols) + 1
            /\ \A i \in 1 .. Len(functionSymbols) : functionSymbols'[i] = functionSymbols[i]
            /\ functionSymbols'[Len(functionSymbols) + 1] = StoredPublic
        BY <2>1, <3>4, <4>1, FunctionAppended
      <4>3. StoredPublic.size = 0 /\ StoredPublic.rva # 0
        BY <3>4, AddressesOfFunctions DEF StoredPublic, FunctionSymbols!IsNew
      <4>4. \A i \in 1 .. Len(functionSymbols) :
              functionSymbols[i].from[1] = 0 => functionSymbols[i].size = 0
        BY <2>1, <3>1 DEF VariablePhases
      <4> QED  BY <2>1, <2>2, <4>2, <4>3, <4>4 DEF AddressesAndSizes
    <3> QED  BY <3>2, <3>3, <3>4
  <2>7. CASE FunctionSymbols!Sort
    <3>1. pc = "module"  BY <2>7 DEF FunctionSymbols!Sort
    <3>2. \A i \in 1 .. Len(functionSymbols) :
            functionSymbols[i].from[1] = 0 => functionSymbols[i].size = 0
      BY <2>1, <3>1 DEF VariablePhases
    <3>3. /\ Len(functionSymbols') = Len(functionSymbols)
          /\ \A i \in 1 .. Len(functionSymbols) : \E j \in 1 .. Len(functionSymbols) :
               functionSymbols'[i] = functionSymbols[j]
      BY <2>1, <2>7, FunctionsSorted
    <3>4. ASSUME NEW i \in 1 .. Len(functionSymbols)
          PROVE  /\ functionSymbols'[i].rva # 0
                 /\ functionSymbols'[i].from[1] = 0 => functionSymbols'[i].size = 0
      <4>1. PICK j \in 1 .. Len(functionSymbols) : functionSymbols'[i] = functionSymbols[j]
        BY <3>3
      <4> QED  BY <2>1, <3>2, <4>1
    <3> QED  BY <3>3, <3>4 DEF AddressesAndSizes
  <2>8. CASE FunctionSymbols!FindSizes
    BY <1>2, <2>1, <2>8, SizesFound DEF AddressesAndSizes
  <2> QED
    BY <1>2, <2>3, <2>4, <2>5, <2>6, <2>7, <2>8, FunctionSteps
<1> QED  BY <1>1, <1>2, WalksStayInModules, FunctionsAlwaysTyped, PTL DEF Spec

\* The last function, if only the public symbols know it, gets the size of the
\* contribution at its address, and none if there is no such contribution: the
\* search may stop at the first one that is not in front of it.
THEOREM LastSizeIsContributed == Spec => []LastSizeContributed
<1>1. Init => LastSizeContributed
  BY DEF Init, Contributions!Init, LastSizeContributed, FunctionSymbols!LastSizeContributed
<1>2. ASSUME Walking, FunctionsTyped, AddressesAndSizes, LastSizeContributed, [Next]_vars
      PROVE  LastSizeContributed'
  <2> USE DEF LastSizeContributed, FunctionSymbols!LastSizeContributed
  <2>1. program' = program /\ program \in Programs  BY <1>2, ProgramStays DEF Walking
  <2>2. CASE functionSymbols' = functionSymbols /\ pc' = pc
    BY <1>2, <2>1, <2>2
    DEF FunctionSymbols!Last, FunctionSymbols!ContributionRVA, FunctionSymbols!RVA,
        FunctionSymbols!ConvertSectionOffsetToRVA
  <2>3. CASE pc' # "done"  BY <2>3
  <2>4. CASE FunctionSymbols!FindSizes
    <3> DEFINE last == Len(functionSymbols)
    <3>1. /\ pc = "sorted" /\ functionSymbols \in Seq(FunctionRecord) /\ last \in Nat
          /\ functionSymbols' \in Seq(FunctionRecord) /\ Len(functionSymbols') = last
          /\ \A i \in 1 .. last :
               /\ functionSymbols'[i].from = functionSymbols[i].from
               /\ functionSymbols'[i].rva = functionSymbols[i].rva
               /\ functionSymbols'[i].size =
                    IF i = last /\ functionSymbols[i].size = 0
                      THEN FunctionSymbols!SizeFromContributions ELSE functionSymbols[i].size
      BY <1>2, <2>4, SizesFound DEF FunctionsTyped
    <3>2. SUFFICES ASSUME functionSymbols' # <<>>, FunctionSymbols!Last.from[1]' = 0
          PROVE  LET own == {c \in DOMAIN program.contributions :
                               FunctionSymbols!ContributionRVA(c) = functionSymbols'[last].rva}
                 IN  IF own = {} THEN functionSymbols'[last].size = 0
                     ELSE \E c \in own :
                            functionSymbols'[last].size = program.contributions[c].size
      BY <2>1, <3>1
      DEF FunctionSymbols!Last, FunctionSymbols!ContributionRVA, FunctionSymbols!RVA,
          FunctionSymbols!ConvertSectionOffsetToRVA
    <3>3. last \in 1 .. last  BY <3>1, <3>2
    <3>4. functionSymbols[last].from[1] = 0
      BY <3>1, <3>2, <3>3 DEF FunctionSymbols!Last
    <3>5. functionSymbols[last].size = 0 /\ functionSymbols[last].rva # 0
      BY <1>2, <3>1, <3>3, <3>4 DEF AddressesAndSizes, VariablePhases
    <3>6. /\ functionSymbols'[last].size = FunctionSymbols!SizeFromContributions
          /\ functionSymbols'[last].rva = FunctionSymbols!Last.rva
      BY <3>1, <3>3, <3>5 DEF FunctionSymbols!Last
    <3>7. FunctionSymbols!Last.rva \in Nat \ {0}
      <4>1. functionSymbols[last] \in FunctionRecord  BY <3>1, <3>3
      <4>2. functionSymbols[last].rva \in Nat  BY <4>1 DEF FunctionRecord
      <4> QED  BY <3>5, <4>2 DEF FunctionSymbols!Last
    <3> QED  BY <2>1, <3>6, <3>7, SizeOfLast
  <2>5. FunctionSymbols!StoreFrameProc \/ FunctionSymbols!StoreFunction
          \/ FunctionSymbols!StorePublic \/ FunctionSymbols!Sort => pc' # "done"
    BY DEF FunctionSymbols!StoreFrameProc, FunctionSymbols!StoreFunction,
           FunctionSymbols!StorePublic, FunctionSymbols!Sort
  <2> QED
    BY <1>2, <2>2, <2>3, <2>4, <2>5, FunctionSteps DEF SortedPhases, VariablePhases
<1> QED
  BY <1>1, <1>2, WalksStayInModules, FunctionsAlwaysTyped, AddressesAndSizesAlways, PTL
  DEF Spec

-----------------------------------------------------------------------------
(* What a program has of records and functions, told from the program      *)
(* alone.                                                                  *)

RecordAt(p, f) == p.modules[f[1]].recordAt[f[2]]

\* The address of a record if it is of one of these kinds, 0 if not.
AddressOfKinds(p, kinds, record) ==
  IF record.kind \in kinds THEN FunctionAddress(p, record) ELSE 0

\* The records of the modules of these kinds that have an address; those of the
\* modules in front of module m, and those of m in front of o.
RecordsIn(p, kinds) ==
  UNION {{<<m, o>> : o \in {o \in DOMAIN p.modules[m].recordAt :
                              AddressOfKinds(p, kinds, p.modules[m].recordAt[o]) # 0}} :
         m \in DOMAIN p.modules}
RecordsPassed(p, kinds, m, o) ==
  {f \in RecordsIn(p, kinds) : f[1] < m \/ (f[1] = m /\ f[2] < o)}

\* What a record says of a function; an address of 0 says that it is of no use.
FunctionKinds == ProcedureKinds \cup {"S_TRAMPOLINE"}
FunctionIn(p, record) ==
  [rva |-> AddressOfKinds(p, FunctionKinds, record),
   size |-> IF record.kind \in ProcedureKinds THEN record.codeSize
            ELSE IF record.kind = "S_TRAMPOLINE" THEN 5 ELSE 0]

FunctionsIn(p) == RecordsIn(p, FunctionKinds)

AddressesOf(p, functions) == {FunctionIn(p, RecordAt(p, f)).rva : f \in functions}

PublicAt(p, k) == p.symbolRecords[p.hashRecords[k] - 1]
PublicAddress(p, k) == AddressIn(p, PublicAt(p, k).section, PublicAt(p, k).offset)
PublicsIn(p) ==
  {k \in DOMAIN p.hashRecords :
     /\ PublicAt(p, k).kind = "S_PUB32" /\ PublicAt(p, k).isFunction
     /\ PublicAddress(p, k) \notin {0} \cup AddressesOf(p, FunctionsIn(p))}

FunctionsPassed(p, m, o) == RecordsPassed(p, FunctionKinds, m, o)
PublicsPassed(p, k) == {j \in PublicsIn(p) : j < k}

\* The records of a module are those of a symbol stream.
LEMMA StreamOfModule ==
  ASSUME NEW p \in Programs, NEW m \in DOMAIN p.modules,
         NEW o \in DOMAIN p.modules[m].recordAt
  PROVE  /\ p.modules[m] \in SymbolStreams
         /\ m \in Nat \ {0} /\ Len(p.modules) \in Nat /\ m <= Len(p.modules)
         /\ p.modules[m].size \in Nat
         /\ o \in Nat /\ o >= SizeOfSignature /\ o < p.modules[m].size
<1>1. p.modules \in Seq(ModuleStreams)  BY ProgramsAssumption
<1>2. /\ m \in Nat \ {0} /\ Len(p.modules) \in Nat /\ m <= Len(p.modules)
      /\ p.modules[m] \in ModuleStreams
  BY <1>1
<1>3. DOMAIN NoSymbolStream.recordAt = {}  BY DEF NoSymbolStream
<1>4. p.modules[m] \in SymbolStreams  BY <1>2, <1>3 DEF ModuleStreams
<1>5. ASSUME NEW s \in SymbolStreams, NEW q \in DOMAIN s.recordAt
      PROVE  s.size \in Nat /\ q \in Nat /\ q >= SizeOfSignature /\ q < s.size
  <2>1. s.size \in Nat /\ q \in SizeOfSignature .. (s.size - 1)
    BY SymbolStreamsAssumption
  <2> QED  BY <2>1 DEF SizeOfSignature
<1> QED  BY <1>2, <1>4, <1>5

\* The records one by one.
LEMMA RecordsOneByOne ==
  ASSUME NEW p, NEW kinds, NEW f
  PROVE  f \in RecordsIn(p, kinds) <=>
           \E m \in DOMAIN p.modules : \E o \in DOMAIN p.modules[m].recordAt :
             f = <<m, o>> /\ AddressOfKinds(p, kinds, p.modules[m].recordAt[o]) # 0
  BY DEF RecordsIn

LEMMA RecordPlaces ==
  ASSUME NEW p \in Programs, NEW kinds, NEW f \in RecordsIn(p, kinds)
  PROVE  /\ f[1] \in DOMAIN p.modules /\ f[1] \in Nat \ {0} /\ f[1] <= Len(p.modules)
         /\ Len(p.modules) \in Nat
         /\ f[2] \in DOMAIN p.modules[f[1]].recordAt /\ f[2] \in Nat
         /\ f[2] >= SizeOfSignature /\ f[2] < p.modules[f[1]].size
         /\ p.modules[f[1]].size \in Nat
         /\ f = <<f[1], f[2]>>
         /\ p.modules[f[1]] \in SymbolStreams
         /\ AddressOfKinds(p, kinds, RecordAt(p, f)) # 0
<1>1. PICK m \in DOMAIN p.modules : \E o \in DOMAIN p.modules[m].recordAt :
        f = <<m, o>> /\ AddressOfKinds(p, kinds, p.modules[m].recordAt[o]) # 0
  BY RecordsOneByOne
<1>2. PICK o \in DOMAIN p.modules[m].recordAt :
        f = <<m, o>> /\ AddressOfKinds(p, kinds, p.modules[m].recordAt[o]) # 0
  BY <1>1
<1>3. f[1] = m /\ f[2] = o /\ f = <<f[1], f[2]>>  BY <1>2
<1> QED  BY <1>2, <1>3, StreamOfModule DEF RecordAt

LEMMA RecordsInclude ==
  ASSUME NEW p \in Programs, NEW kinds, NEW m \in DOMAIN p.modules,
         NEW o \in DOMAIN p.modules[m].recordAt,
         AddressOfKinds(p, kinds, p.modules[m].recordAt[o]) # 0
  PROVE  <<m, o>> \in RecordsIn(p, kinds)
  BY RecordsOneByOne

\* ExampleFunctionSymbols makes of a record what it says.
LEMMA FunctionOfIsFunctionIn ==
  ASSUME program \in Programs, NEW s \in SymbolStreams, NEW o \in DOMAIN s.recordAt
  PROVE  FunctionSymbols!FunctionOf(s.recordAt[o]) = FunctionIn(program, s.recordAt[o])
<1> DEFINE record == s.recordAt[o]
<1>1. record.kind = "S_THUNK32" => record.thunk # "TrampolineIncremental"
  BY RecordFields
<1> HIDE DEF record
<1> USE DEF FunctionSymbols!Procedures, ProcedureKinds
<1>2. CASE record.kind \in ProcedureKinds
  <2>1. FunctionSymbols!FunctionOf(record)
          = [rva |-> AddressIn(program, record.section, record.offset),
             size |-> record.codeSize]
    BY <1>2, AddressesOfFunctions DEF FunctionSymbols!FunctionOf
  <2>2. FunctionAddress(program, record) = AddressIn(program, record.section, record.offset)
    BY <1>2 DEF FunctionAddress
  <2> QED  BY <1>2, <2>1, <2>2 DEF FunctionIn, FunctionKinds, AddressOfKinds, record
<1>3. CASE record.kind = "S_TRAMPOLINE"
  <2>1. FunctionSymbols!FunctionOf(record)
          = [rva |-> AddressIn(program, record.thunkSection, record.thunkOffset), size |-> 5]
    BY <1>3, AddressesOfFunctions DEF FunctionSymbols!FunctionOf
  <2>2. FunctionAddress(program, record)
          = AddressIn(program, record.thunkSection, record.thunkOffset)
    BY <1>3 DEF FunctionAddress
  <2> QED  BY <1>3, <2>1, <2>2 DEF FunctionIn, FunctionKinds, AddressOfKinds, record
<1>4. CASE record.kind \notin ProcedureKinds \cup {"S_TRAMPOLINE"}
  <2>1. FunctionSymbols!FunctionOf(record) = [rva |-> 0, size |-> 0]
    BY <1>1, <1>4 DEF FunctionSymbols!FunctionOf, FunctionSymbols!NoAddress
  <2> QED  BY <1>4, <2>1 DEF FunctionIn, FunctionKinds, AddressOfKinds, record
<1> QED  BY <1>2, <1>3, <1>4

LEMMA FunctionsOfProgram ==
  ASSUME program \in Programs
  PROVE  /\ FunctionSymbols!ModuleFunctions = FunctionsIn(program)
         /\ \A f \in FunctionsIn(program) :
              FunctionSymbols!FunctionOf(FunctionSymbols!ModuleRecord(f))
                = FunctionIn(program, RecordAt(program, f))
         /\ FunctionSymbols!PublicFunctions = PublicsIn(program)
<1>1. ASSUME NEW m \in DOMAIN program.modules, NEW o \in DOMAIN program.modules[m].recordAt
      PROVE  FunctionSymbols!FunctionOf(program.modules[m].recordAt[o])
               = FunctionIn(program, program.modules[m].recordAt[o])
  BY StreamOfModule, FunctionOfIsFunctionIn
<1>2. FunctionSymbols!ModuleFunctions = FunctionsIn(program)
  <2>1. ASSUME NEW m \in DOMAIN program.modules,
               NEW o \in DOMAIN program.modules[m].recordAt
        PROVE  FunctionSymbols!FunctionOf(program.modules[m].recordAt[o]).rva
                 = AddressOfKinds(program, FunctionKinds, program.modules[m].recordAt[o])
    <3>1. FunctionIn(program, program.modules[m].recordAt[o]).rva
            = AddressOfKinds(program, FunctionKinds, program.modules[m].recordAt[o])
      BY DEF FunctionIn
    <3> QED  BY <1>1, <3>1
  <2>2. ASSUME NEW f
        PROVE  f \in FunctionSymbols!ModuleFunctions <=>
                 \E m \in DOMAIN program.modules :
                   \E o \in DOMAIN program.modules[m].recordAt :
                     /\ f = <<m, o>>
                     /\ FunctionSymbols!FunctionOf(program.modules[m].recordAt[o]).rva # 0
    BY DEF FunctionSymbols!ModuleFunctions
  <2>3. \A f : f \in FunctionSymbols!ModuleFunctions <=> f \in FunctionsIn(program)
    BY <2>1, <2>2, RecordsOneByOne DEF FunctionsIn
  <2> QED  BY <2>3
<1>3. ASSUME NEW f \in FunctionsIn(program)
      PROVE  FunctionSymbols!FunctionOf(FunctionSymbols!ModuleRecord(f))
               = FunctionIn(program, RecordAt(program, f))
  BY <1>1, RecordPlaces DEF FunctionSymbols!ModuleRecord, RecordAt, FunctionsIn
<1>4. FunctionSymbols!ModuleRVAs = AddressesOf(program, FunctionsIn(program))
  BY <1>2, <1>3 DEF FunctionSymbols!ModuleRVAs, AddressesOf
<1>5. FunctionSymbols!PublicFunctions = PublicsIn(program)
  <2>1. ASSUME NEW k
        PROVE  /\ FunctionSymbols!GetRecord(program.hashRecords[k]) = PublicAt(program, k)
               /\ FunctionSymbols!RVA(PublicAt(program, k).section, PublicAt(program, k).offset)
                    = PublicAddress(program, k)
    BY AddressesOfFunctions DEF FunctionSymbols!GetRecord, PublicAt, PublicAddress
  <2> QED  BY <1>4, <2>1 DEF FunctionSymbols!PublicFunctions, PublicsIn
<1> QED  BY <1>2, <1>3, <1>5

\* A symbol that was made of a function of a module, or of a public one; and one that
\* tells all of a function that another tells.
IsFunctionOf(p, s, f) ==
  LET function == FunctionIn(p, RecordAt(p, f))
  IN  s.from = f /\ s.rva = function.rva /\ function.size \in {0, s.size}
IsPublicOf(p, s, k) ==
  s.from = <<0, p.hashRecords[k] - 1>> /\ s.rva = PublicAddress(p, k)
TellsTheSame(s, t) == s.from = t.from /\ s.rva = t.rva /\ t.size \in {0, s.size}

\* A sequence of symbols has each of these functions once, and no other.
Collected(p, fs, functions, publics) ==
  /\ IsFiniteSet(functions) /\ IsFiniteSet(publics)
  /\ Len(fs) = Cardinality(functions) + Cardinality(publics)
  /\ \A f \in functions : \E i \in 1 .. Len(fs) : IsFunctionOf(p, fs[i], f)
  /\ \A k \in publics : \E i \in 1 .. Len(fs) : IsPublicOf(p, fs[i], k)
  /\ \A i \in 1 .. Len(fs) : \/ \E f \in functions : IsFunctionOf(p, fs[i], f)
                             \/ \E k \in publics : IsPublicOf(p, fs[i], k)

LEMMA NothingCollected ==
  ASSUME NEW p
  PROVE  Collected(p, <<>>, {}, {})
<1>1. Len(<<>>) = 0  OBVIOUS
<1>2. 1 .. 0 = {}  OBVIOUS
<1> QED  BY <1>1, <1>2, FS_EmptySet DEF Collected

LEMMA CollectedOneMore ==
  ASSUME NEW p, NEW fs \in Seq(FunctionRecord), NEW s \in FunctionRecord,
         NEW functions, NEW publics, Collected(p, fs, functions, publics),
         NEW functions2, NEW publics2,
         \/ /\ publics2 = publics
            /\ \E f : f \notin functions /\ functions2 = functions \cup {f} /\ IsFunctionOf(p, s, f)
         \/ /\ functions2 = functions
            /\ \E k : k \notin publics /\ publics2 = publics \cup {k} /\ IsPublicOf(p, s, k)
  PROVE  Collected(p, Append(fs, s), functions2, publics2)
<1> DEFINE more == Append(fs, s)
<1>1. /\ Len(fs) \in Nat /\ Len(more) = Len(fs) + 1
      /\ \A i \in 1 .. Len(fs) : more[i] = fs[i]
      /\ more[Len(fs) + 1] = s
  BY FunctionAppended
<1>2. /\ \A i \in 1 .. Len(more) : i \in 1 .. Len(fs) \/ i = Len(fs) + 1
      /\ Len(fs) + 1 \in 1 .. Len(more)
      /\ \A i \in 1 .. Len(fs) : i \in 1 .. Len(more)
  BY <1>1
<1> HIDE DEF more
<1>3. /\ IsFiniteSet(functions) /\ IsFiniteSet(publics)
      /\ Len(fs) = Cardinality(functions) + Cardinality(publics)
      /\ \A f \in functions : \E i \in 1 .. Len(fs) : IsFunctionOf(p, fs[i], f)
      /\ \A k \in publics : \E i \in 1 .. Len(fs) : IsPublicOf(p, fs[i], k)
      /\ \A i \in 1 .. Len(fs) : \/ \E f \in functions : IsFunctionOf(p, fs[i], f)
                                 \/ \E k \in publics : IsPublicOf(p, fs[i], k)
  BY DEF Collected
<1>4. /\ \A f \in functions : \E i \in 1 .. Len(more) : IsFunctionOf(p, more[i], f)
      /\ \A k \in publics : \E i \in 1 .. Len(more) : IsPublicOf(p, more[i], k)
  BY <1>1, <1>2, <1>3
<1>5. Cardinality(functions) \in Nat /\ Cardinality(publics) \in Nat
  BY <1>3, FS_CardinalityType
<1>6. ASSUME NEW f, f \notin functions, functions2 = functions \cup {f}, publics2 = publics,
             IsFunctionOf(p, s, f)
      PROVE  Collected(p, more, functions2, publics2)
  <2>1. /\ IsFiniteSet(functions2) /\ Cardinality(functions2) = Cardinality(functions) + 1
    BY <1>3, <1>6, FS_AddElement
  <2>2. Len(more) = Cardinality(functions2) + Cardinality(publics2)
    BY <1>1, <1>3, <1>5, <1>6, <2>1
  <2>3. IsFunctionOf(p, more[Len(fs) + 1], f)  BY <1>1, <1>6
  <2>4. /\ \A g \in functions2 : \E i \in 1 .. Len(more) : IsFunctionOf(p, more[i], g)
        /\ \A k \in publics2 : \E i \in 1 .. Len(more) : IsPublicOf(p, more[i], k)
    BY <1>2, <1>4, <1>6, <2>3
  <2>5. \A i \in 1 .. Len(more) : \/ \E g \in functions2 : IsFunctionOf(p, more[i], g)
                                  \/ \E k \in publics2 : IsPublicOf(p, more[i], k)
    BY <1>1, <1>2, <1>3, <1>6, <2>3
  <2> QED  BY <1>3, <1>6, <2>1, <2>2, <2>4, <2>5 DEF Collected
<1>7. ASSUME NEW k, k \notin publics, publics2 = publics \cup {k}, functions2 = functions,
             IsPublicOf(p, s, k)
      PROVE  Collected(p, more, functions2, publics2)
  <2>1. /\ IsFiniteSet(publics2) /\ Cardinality(publics2) = Cardinality(publics) + 1
    BY <1>3, <1>7, FS_AddElement
  <2>2. Len(more) = Cardinality(functions2) + Cardinality(publics2)
    BY <1>1, <1>3, <1>5, <1>7, <2>1
  <2>3. IsPublicOf(p, more[Len(fs) + 1], k)  BY <1>1, <1>7
  <2>4. /\ \A g \in functions2 : \E i \in 1 .. Len(more) : IsFunctionOf(p, more[i], g)
        /\ \A j \in publics2 : \E i \in 1 .. Len(more) : IsPublicOf(p, more[i], j)
    BY <1>2, <1>4, <1>7, <2>3
  <2>5. \A i \in 1 .. Len(more) : \/ \E g \in functions2 : IsFunctionOf(p, more[i], g)
                                  \/ \E j \in publics2 : IsPublicOf(p, more[i], j)
    BY <1>1, <1>2, <1>3, <1>7, <2>3
  <2> QED  BY <1>3, <1>7, <2>1, <2>2, <2>4, <2>5 DEF Collected
<1> QED  BY <1>6, <1>7 DEF more

\* Symbols in another order, or with more sizes, are of the same functions.
LEMMA CollectedStill ==
  ASSUME NEW p, NEW fs, NEW gs, NEW functions, NEW publics,
         Collected(p, fs, functions, publics), Len(gs) = Len(fs),
         \A i \in 1 .. Len(fs) : \E j \in 1 .. Len(fs) : TellsTheSame(gs[i], fs[j]),
         \A j \in 1 .. Len(fs) : \E i \in 1 .. Len(fs) : TellsTheSame(gs[i], fs[j])
  PROVE  Collected(p, gs, functions, publics)
<1>1. ASSUME NEW s, NEW t, TellsTheSame(s, t)
      PROVE  /\ \A f : IsFunctionOf(p, t, f) => IsFunctionOf(p, s, f)
             /\ \A k : IsPublicOf(p, t, k) => IsPublicOf(p, s, k)
  BY <1>1 DEF TellsTheSame, IsFunctionOf, IsPublicOf
<1>2. \A f \in functions : \E i \in 1 .. Len(gs) : IsFunctionOf(p, gs[i], f)
  BY <1>1 DEF Collected
<1>3. \A k \in publics : \E i \in 1 .. Len(gs) : IsPublicOf(p, gs[i], k)
  BY <1>1 DEF Collected
<1>4. ASSUME NEW i \in 1 .. Len(gs)
      PROVE  \/ \E f \in functions : IsFunctionOf(p, gs[i], f)
             \/ \E k \in publics : IsPublicOf(p, gs[i], k)
  <2>1. PICK j \in 1 .. Len(fs) : TellsTheSame(gs[i], fs[j])  OBVIOUS
  <2>2. \/ \E f \in functions : IsFunctionOf(p, fs[j], f)
        \/ \E k \in publics : IsPublicOf(p, fs[j], k)
    BY DEF Collected
  <2> QED  BY <1>1, <2>1, <2>2
<1> QED  BY <1>2, <1>3, <1>4 DEF Collected

\* The walk comes past the records one by one.
LEMMA PassedNone ==
  ASSUME NEW p \in Programs, NEW kinds
  PROVE  RecordsPassed(p, kinds, 1, 0) = {} /\ PublicsPassed(p, 1) = {}
<1>1. ASSUME NEW f \in RecordsIn(p, kinds) PROVE ~ (f[1] < 1) /\ ~ (f[2] < 0)
  <2>1. f[1] \in Nat \ {0} /\ f[2] \in Nat  BY RecordPlaces
  <2> QED  BY <2>1
<1>2. ASSUME NEW k \in PublicsIn(p) PROVE ~ (k < 1)
  <2>1. k \in Nat \ {0}  BY PublicFields DEF PublicsIn
  <2> QED  BY <2>1
<1> QED  BY <1>1, <1>2 DEF RecordsPassed, PublicsPassed

LEMMA PassedModule ==
  ASSUME NEW p \in Programs, NEW kinds, NEW m \in Nat \ {0}, m <= Len(p.modules), NEW o \in Nat,
         \/ p.modules[m] = NoSymbolStream
         \/ p.modules[m] \in SymbolStreams /\ o >= p.modules[m].size
  PROVE  RecordsPassed(p, kinds, m + 1, 0) = RecordsPassed(p, kinds, m, o)
<1>1. ASSUME NEW f \in RecordsIn(p, kinds)
      PROVE  f[1] < m + 1 \/ (f[1] = m + 1 /\ f[2] < 0) <=> f[1] < m \/ (f[1] = m /\ f[2] < o)
  <2>1. /\ f[1] \in Nat /\ f[2] \in Nat /\ p.modules[f[1]].size \in Nat
        /\ f[2] < p.modules[f[1]].size
    BY RecordPlaces
  <2>2. f[1] = m => f[2] < o
    <3>1. NoSymbolStream.size = 0  BY DEF NoSymbolStream
    <3> QED  BY <2>1, <3>1
  <2>3. ~ (f[2] < 0) /\ (f[1] < m + 1 <=> f[1] < m \/ f[1] = m)
    BY <2>1
  <2> QED  BY <2>2, <2>3
<1> QED  BY <1>1 DEF RecordsPassed

LEMMA PassedNothingYet ==
  ASSUME NEW p \in Programs, NEW kinds, NEW m
  PROVE  RecordsPassed(p, kinds, m, SizeOfSignature) = RecordsPassed(p, kinds, m, 0)
<1>1. ASSUME NEW f \in RecordsIn(p, kinds) PROVE ~ (f[2] < SizeOfSignature) /\ ~ (f[2] < 0)
  <2>1. f[2] \in Nat /\ f[2] >= SizeOfSignature  BY RecordPlaces
  <2> QED  BY <2>1 DEF SizeOfSignature
<1> QED  BY <1>1 DEF RecordsPassed

LEMMA PassedOneMore ==
  ASSUME NEW p \in Programs, NEW kinds, NEW m \in DOMAIN p.modules,
         NEW o \in DOMAIN p.modules[m].recordAt
  PROVE  LET address == AddressOfKinds(p, kinds, p.modules[m].recordAt[o])
             passed == RecordsPassed(p, kinds, m, o)
             next == NextRecordIn(p.modules[m], o)
         IN  /\ <<m, o>> \notin passed
             /\ RecordsPassed(p, kinds, m, next)
                  = IF address = 0 THEN passed ELSE passed \cup {<<m, o>>}
             /\ RecordAt(p, <<m, o>>) = p.modules[m].recordAt[o]
<1> DEFINE next == NextRecordIn(p.modules[m], o)
           passed == RecordsPassed(p, kinds, m, o)
<1>1. /\ p.modules[m] \in SymbolStreams /\ m \in Nat /\ o \in Nat
  BY StreamOfModule
<1>2. \A q \in DOMAIN p.modules[m].recordAt : q < next <=> q <= o
  BY <1>1, NextRecordFollows
<1>3. <<m, o>> \notin passed
  <2>1. ~ (m < m) /\ ~ (o < o)  BY <1>1
  <2> QED  BY <2>1 DEF RecordsPassed
<1> HIDE DEF next
<1>4. ASSUME NEW f \in RecordsIn(p, kinds)
      PROVE  f[1] < m \/ (f[1] = m /\ f[2] < next)
               <=> f[1] < m \/ (f[1] = m /\ f[2] < o) \/ f = <<m, o>>
  <2>1. /\ f[1] \in Nat /\ f[2] \in Nat /\ f = <<f[1], f[2]>>
        /\ f[2] \in DOMAIN p.modules[f[1]].recordAt
    BY RecordPlaces
  <2>2. f[1] = m => (f[2] < next <=> f[2] <= o)  BY <1>2, <2>1
  <2>3. f[2] <= o <=> f[2] < o \/ f[2] = o  BY <1>1, <2>1
  <2>4. f = <<m, o>> <=> f[1] = m /\ f[2] = o  BY <2>1
  <2> QED  BY <2>2, <2>3, <2>4
<1>5. <<m, o>> \in RecordsIn(p, kinds) <=> AddressOfKinds(p, kinds, p.modules[m].recordAt[o]) # 0
  <2>1. RecordAt(p, <<m, o>>) = p.modules[m].recordAt[o]  BY DEF RecordAt
  <2>2. AddressOfKinds(p, kinds, p.modules[m].recordAt[o]) # 0 => <<m, o>> \in RecordsIn(p, kinds)
    BY RecordsInclude
  <2>3. <<m, o>> \in RecordsIn(p, kinds) => AddressOfKinds(p, kinds, RecordAt(p, <<m, o>>)) # 0
    BY RecordPlaces
  <2> QED  BY <2>1, <2>2, <2>3
<1>6. RecordsPassed(p, kinds, m, next)
        = IF AddressOfKinds(p, kinds, p.modules[m].recordAt[o]) = 0 THEN passed
          ELSE passed \cup {<<m, o>>}
  BY <1>4, <1>5 DEF RecordsPassed
<1> QED  BY <1>3, <1>6 DEF RecordAt, next

\* Behind the last module all records have been passed.
LEMMA AllPassed ==
  ASSUME NEW p \in Programs, NEW kinds, NEW m \in Nat, m > Len(p.modules)
  PROVE  RecordsPassed(p, kinds, m, 0) = RecordsIn(p, kinds)
<1>1. ASSUME NEW f \in RecordsIn(p, kinds) PROVE f[1] < m
  <2>1. f[1] \in Nat /\ f[1] <= Len(p.modules) /\ Len(p.modules) \in Nat  BY RecordPlaces
  <2> QED  BY <2>1
<1> QED  BY <1>1 DEF RecordsPassed

-----------------------------------------------------------------------------
(* Every function comes out once.                                          *)

Passed == FunctionsPassed(program, module, IF pc = "symbols" THEN offset ELSE 0)

\* The functions the walk has come past and the new public ones are collected, and
\* the addresses of the former seen; then the symbols are all there, by address.
FunctionsCollected ==
  /\ pc \in ContributionPhases \cup SymbolPhases =>
       functionSymbols = <<>> /\ seenFunctionRVAs = {}
  /\ pc \in {"module", "symbols"} =>
       /\ Collected(program, functionSymbols, Passed, PublicsPassed(program, hashRecord))
       /\ seenFunctionRVAs = AddressesOf(program, Passed)
  /\ pc \in {"sorted", "done"} =>
       /\ Collected(program, functionSymbols, FunctionsIn(program), PublicsIn(program))
       /\ \A i, j \in 1 .. Len(functionSymbols) :
            i < j => functionSymbols[i].rva <= functionSymbols[j].rva

LEMMA AddressesOneMore ==
  ASSUME NEW p, NEW functions, NEW f
  PROVE  AddressesOf(p, functions \cup {f})
           = AddressesOf(p, functions) \cup {FunctionIn(p, RecordAt(p, f)).rva}
  BY DEF AddressesOf

LEMMA CollectedByCallback ==
  ASSUME Walking, FunctionsTyped, FunctionsCollected,
         FunctionSymbols!StoreFrameProc \/ FunctionSymbols!StoreFunction
  PROVE  FunctionsCollected'
<1> DEFINE function == FunctionIn(program, stream.recordAt[offset])
           publics == PublicsPassed(program, hashRecord)
<1>1. /\ pc = "symbols" /\ pc' = pc /\ module' = module /\ program' = program
      /\ hashRecord' = hashRecord /\ FunctionSymbols!Callback
  BY DEF FunctionSymbols!StoreFrameProc, FunctionSymbols!StoreFunction
<1>2. /\ stream \in SymbolStreams /\ offset \in DOMAIN stream.recordAt
      /\ offset' = NextRecordIn(stream, offset)
  BY <1>1, WalkMovesOn DEF Walks
<1>3. /\ program \in Programs /\ module \in DOMAIN program.modules
      /\ stream = program.modules[module]
  BY <1>1 DEF Walking, Walks
<1>4. /\ functionSymbols \in Seq(FunctionRecord)
      /\ Collected(program, functionSymbols, Passed, publics)
      /\ seenFunctionRVAs = AddressesOf(program, Passed)
  BY <1>1 DEF FunctionsTyped, FunctionsCollected
<1>5. Passed = FunctionsPassed(program, module, offset)  BY <1>1 DEF Passed
<1>6. Passed' = FunctionsPassed(program, module, NextRecordIn(stream, offset))
  BY <1>1, <1>2 DEF Passed
<1>7. /\ <<module, offset>> \notin Passed
      /\ Passed' = IF function.rva = 0 THEN Passed ELSE Passed \cup {<<module, offset>>}
      /\ RecordAt(program, <<module, offset>>) = stream.recordAt[offset]
  BY <1>2, <1>3, <1>5, <1>6, PassedOneMore DEF FunctionsPassed, FunctionIn
<1>8. FunctionSymbols!FunctionOf(stream.recordAt[offset]) = function
  BY <1>2, <1>3, FunctionOfIsFunctionIn
<1>9. SUFFICES /\ Collected(program, functionSymbols', Passed', publics)
               /\ seenFunctionRVAs' = AddressesOf(program, Passed')
  BY <1>1 DEF FunctionsCollected, ContributionPhases, SymbolPhases
<1>10. CASE FunctionSymbols!StoreFrameProc
  <2>1. /\ stream.recordAt[offset].kind = "S_FRAMEPROC"
        /\ seenFunctionRVAs' = seenFunctionRVAs
        /\ Len(functionSymbols') = Len(functionSymbols)
        /\ \A i \in 1 .. Len(functionSymbols) :
             /\ functionSymbols'[i].from = functionSymbols[i].from
             /\ functionSymbols'[i].rva = functionSymbols[i].rva
             /\ functionSymbols'[i].size = functionSymbols[i].size
    BY <1>10, FrameStored
  <2>2. Passed' = Passed  BY <1>7, <2>1 DEF FunctionIn, AddressOfKinds, FunctionKinds, ProcedureKinds
  <2>3. \A i \in 1 .. Len(functionSymbols) : TellsTheSame(functionSymbols'[i], functionSymbols[i])
    BY <2>1 DEF TellsTheSame
  <2>4. Collected(program, functionSymbols', Passed, publics)
    BY <1>4, <2>1, <2>3, CollectedStill
  <2> QED  BY <1>4, <2>1, <2>2, <2>4
<1>11. CASE FunctionSymbols!StoreFunction
  <2>1. \/ /\ function.rva = 0
           /\ functionSymbols' = functionSymbols /\ seenFunctionRVAs' = seenFunctionRVAs
        \/ /\ function.rva # 0
           /\ functionSymbols' = Append(functionSymbols, StoredFunction)
           /\ seenFunctionRVAs' = seenFunctionRVAs \cup {function.rva}
    BY <1>8, <1>11, FunctionStored
  <2>2. CASE function.rva = 0
    BY <1>4, <1>7, <2>1, <2>2
  <2>3. CASE function.rva # 0
    <3>1. StoredFunction \in FunctionRecord  BY <1>1, <1>2, StoredFunctionTyped DEF Walks
    <3>2. IsFunctionOf(program, StoredFunction, <<module, offset>>)
      BY <1>7, <1>8 DEF IsFunctionOf, StoredFunction
    <3>3. Passed' = Passed \cup {<<module, offset>>}  BY <1>7, <2>3
    <3>4. Collected(program, Append(functionSymbols, StoredFunction), Passed', publics)
      BY <1>4, <1>7, <3>1, <3>2, <3>3, CollectedOneMore
    <3>5. AddressesOf(program, Passed') = AddressesOf(program, Passed) \cup {function.rva}
      BY <1>7, <3>3, AddressesOneMore
    <3> QED  BY <1>4, <2>1, <2>3, <3>4, <3>5
  <2> QED  BY <2>2, <2>3
<1> QED  BY <1>10, <1>11

\* The same for the public symbols.
LEMMA AllPublicsPassed ==
  ASSUME NEW p \in Programs, NEW k \in Nat, k > Len(p.hashRecords)
  PROVE  PublicsPassed(p, k) = PublicsIn(p)
<1>1. p.hashRecords \in Seq(Nat \ {0})  BY ProgramsAssumption
<1>2. ASSUME NEW j \in PublicsIn(p) PROVE j < k
  <2>1. j \in Nat /\ j <= Len(p.hashRecords) /\ Len(p.hashRecords) \in Nat
    BY <1>1 DEF PublicsIn
  <2> QED  BY <2>1
<1> QED  BY <1>2 DEF PublicsPassed

LEMMA PublicsOneMore ==
  ASSUME NEW p \in Programs, NEW k \in DOMAIN p.hashRecords
  PROVE  /\ k \notin PublicsPassed(p, k)
         /\ PublicsPassed(p, k + 1)
              = IF k \in PublicsIn(p) THEN PublicsPassed(p, k) \cup {k} ELSE PublicsPassed(p, k)
<1>1. k \in Nat /\ \A j \in PublicsIn(p) : j \in Nat  BY PublicFields DEF PublicsIn
<1>2. ~ (k < k) /\ \A j \in PublicsIn(p) : j < k + 1 <=> j < k \/ j = k  BY <1>1
<1> QED  BY <1>2 DEF PublicsPassed

LEMMA CollectedByPublics ==
  ASSUME Walking, FunctionsTyped, FunctionsCollected, FunctionSymbols!StorePublic
  PROVE  FunctionsCollected'
<1> DEFINE publics == PublicsPassed(program, hashRecord)
<1>1. /\ pc = "module" /\ pc' = pc /\ module' = module /\ program' = program
      /\ module > Len(program.modules) /\ hashRecord' = hashRecord + 1
      /\ seenFunctionRVAs' = seenFunctionRVAs
  BY DEF FunctionSymbols!StorePublic
<1>2. program \in Programs /\ module \in Nat  BY DEF Walking
<1>3. /\ functionSymbols \in Seq(FunctionRecord)
      /\ Collected(program, functionSymbols, Passed, publics)
      /\ seenFunctionRVAs = AddressesOf(program, Passed)
  BY <1>1 DEF FunctionsTyped, FunctionsCollected
<1>4. Passed = FunctionsIn(program) /\ Passed' = Passed
  BY <1>1, <1>2, AllPassed DEF Passed, FunctionsPassed, FunctionsIn
<1>5. /\ hashRecord \in DOMAIN program.hashRecords
      /\ \/ /\ ~ FunctionSymbols!IsNew(PublicRecord)
            /\ functionSymbols' = functionSymbols
         \/ /\ FunctionSymbols!IsNew(PublicRecord) /\ PublicRecord.kind = "S_PUB32"
            /\ functionSymbols' = Append(functionSymbols, StoredPublic)
  BY PublicStored
<1>6. /\ PublicRecord = PublicAt(program, hashRecord)
      /\ FunctionSymbols!RVA(PublicRecord.section, PublicRecord.offset)
           = PublicAddress(program, hashRecord)
  BY AddressesOfFunctions DEF PublicRecord, PublicAt, PublicAddress
<1>7. FunctionSymbols!IsNew(PublicRecord) <=> hashRecord \in PublicsIn(program)
  BY <1>3, <1>4, <1>5, <1>6 DEF FunctionSymbols!IsNew, PublicsIn
<1>8. /\ hashRecord \notin publics
      /\ PublicsPassed(program, hashRecord + 1)
           = IF hashRecord \in PublicsIn(program) THEN publics \cup {hashRecord} ELSE publics
  BY <1>2, <1>5, PublicsOneMore
<1>9. SUFFICES Collected(program, functionSymbols', Passed, PublicsPassed(program, hashRecord + 1))
  BY <1>1, <1>3, <1>4 DEF FunctionsCollected, ContributionPhases, SymbolPhases
<1>10. CASE ~ FunctionSymbols!IsNew(PublicRecord)
  BY <1>3, <1>5, <1>7, <1>8, <1>10
<1>11. CASE FunctionSymbols!IsNew(PublicRecord)
  <2>1. functionSymbols' = Append(functionSymbols, StoredPublic)
        /\ PublicRecord.kind = "S_PUB32"
    BY <1>5, <1>11
  <2>2. StoredPublic \in FunctionRecord  BY <1>2, <1>5, <2>1, StoredPublicTyped
  <2>3. IsPublicOf(program, StoredPublic, hashRecord)
    BY DEF IsPublicOf, StoredPublic, PublicAddress, PublicAt, PublicRecord
  <2>4. PublicsPassed(program, hashRecord + 1) = publics \cup {hashRecord}
    BY <1>7, <1>8, <1>11
  <2>5. Collected(program, Append(functionSymbols, StoredPublic), Passed,
                  PublicsPassed(program, hashRecord + 1))
    BY <1>3, <1>8, <2>2, <2>3, <2>4, CollectedOneMore
  <2> QED  BY <2>1, <2>5
<1> QED  BY <1>10, <1>11

LEMMA CollectedBySort ==
  ASSUME Walking, FunctionsTyped, FunctionsCollected, FunctionSymbols!Sort
  PROVE  FunctionsCollected'
<1>1. /\ pc = "module" /\ pc' = "sorted" /\ program' = program
      /\ module > Len(program.modules) /\ hashRecord > Len(program.hashRecords)
  BY DEF FunctionSymbols!Sort
<1>2. program \in Programs /\ module \in Nat /\ hashRecord \in Nat
  BY DEF Walking, FunctionsTyped
<1>3. /\ functionSymbols \in Seq(FunctionRecord)
      /\ Collected(program, functionSymbols, Passed, PublicsPassed(program, hashRecord))
  BY <1>1 DEF FunctionsTyped, FunctionsCollected
<1>4. Collected(program, functionSymbols, FunctionsIn(program), PublicsIn(program))
  BY <1>1, <1>2, <1>3, AllPassed, AllPublicsPassed
  DEF Passed, FunctionsPassed, FunctionsIn
<1>5. \A s : s \in FunctionRecord => TellsTheSame(s, s)
  BY DEF TellsTheSame
<1>6. /\ Len(functionSymbols') = Len(functionSymbols)
      /\ \A i \in 1 .. Len(functionSymbols) : \E j \in 1 .. Len(functionSymbols) :
           functionSymbols'[i] = functionSymbols[j]
      /\ \A j \in 1 .. Len(functionSymbols) : \E i \in 1 .. Len(functionSymbols) :
           functionSymbols'[i] = functionSymbols[j]
      /\ \A i, j \in 1 .. Len(functionSymbols) :
           i < j => functionSymbols'[i].rva <= functionSymbols'[j].rva
  BY <1>3, FunctionsSorted
<1>7. \A j \in 1 .. Len(functionSymbols) : TellsTheSame(functionSymbols[j], functionSymbols[j])
  BY <1>3, <1>5
<1>8. /\ \A i \in 1 .. Len(functionSymbols) : \E j \in 1 .. Len(functionSymbols) :
           TellsTheSame(functionSymbols'[i], functionSymbols[j])
      /\ \A j \in 1 .. Len(functionSymbols) : \E i \in 1 .. Len(functionSymbols) :
           TellsTheSame(functionSymbols'[i], functionSymbols[j])
  BY <1>6, <1>7
<1>9. Collected(program, functionSymbols', FunctionsIn(program), PublicsIn(program))
  BY <1>4, <1>6, <1>8, CollectedStill
<1> QED
  BY <1>1, <1>6, <1>9 DEF FunctionsCollected, ContributionPhases, SymbolPhases

LEMMA CollectedWithSizes ==
  ASSUME Walking, FunctionsTyped, FunctionsCollected, FunctionSymbols!FindSizes
  PROVE  FunctionsCollected'
<1>1. /\ pc = "sorted" /\ pc' = "done" /\ program' = program
      /\ Len(functionSymbols') = Len(functionSymbols)
      /\ \A i \in 1 .. Len(functionSymbols) :
           /\ functionSymbols'[i].from = functionSymbols[i].from
           /\ functionSymbols'[i].rva = functionSymbols[i].rva
           /\ functionSymbols'[i].size =
                IF i = Len(functionSymbols) /\ functionSymbols[i].size = 0
                  THEN FunctionSymbols!SizeFromContributions ELSE functionSymbols[i].size
  BY SizesFound
<1>2. /\ Collected(program, functionSymbols, FunctionsIn(program), PublicsIn(program))
      /\ \A i, j \in 1 .. Len(functionSymbols) :
           i < j => functionSymbols[i].rva <= functionSymbols[j].rva
  BY <1>1 DEF FunctionsCollected
<1>3. \A i \in 1 .. Len(functionSymbols) : TellsTheSame(functionSymbols'[i], functionSymbols[i])
  BY <1>1 DEF TellsTheSame
<1>4. Collected(program, functionSymbols', FunctionsIn(program), PublicsIn(program))
  BY <1>1, <1>2, <1>3, CollectedStill
<1> QED
  BY <1>1, <1>2, <1>4 DEF FunctionsCollected, ContributionPhases, SymbolPhases

LEMMA FunctionsAlwaysCollected == Spec => []FunctionsCollected
<1> USE DEF ContributionPhases, SymbolPhases, VariablePhases
<1>1. Init => FunctionsCollected
  BY DEF Init, Contributions!Init, FunctionSymbols!Init, FunctionsCollected
<1>2. ASSUME Walking, FunctionsTyped, FunctionsCollected, [Next]_vars
      PROVE  FunctionsCollected'
  <2>1. program' = program /\ program \in Programs  BY <1>2, ProgramStays DEF Walking
  <2>2. CASE ShowContributions \/ CallSymbols \/ CollectSymbols
    <3>1. pc \in ContributionPhases \cup SymbolPhases /\ pc' \in ContributionPhases \cup SymbolPhases
      BY <2>2, StepPhases
    <3>2. functionSymbols' = functionSymbols /\ seenFunctionRVAs' = seenFunctionRVAs
      BY <2>2 DEF ShowContributions, CallSymbols, CollectSymbols, functionSymbolVars
    <3> QED  BY <1>2, <3>1, <3>2 DEF FunctionsCollected
  <2>3. CASE CallFunctionSymbols
    <3>1. /\ pc \in SymbolPhases /\ pc' = "module" /\ module' = 1 /\ hashRecord' = 1
          /\ functionSymbols' = functionSymbols /\ seenFunctionRVAs' = seenFunctionRVAs
      BY <2>3, StepPhases DEF CallFunctionSymbols, FunctionSymbols!Start
    <3>2. functionSymbols = <<>> /\ seenFunctionRVAs = {}
      BY <1>2, <3>1 DEF FunctionsCollected
    <3>3. Passed' = {} /\ PublicsPassed(program, hashRecord)' = {}
      BY <2>1, <3>1, PassedNone DEF Passed, FunctionsPassed
    <3>4. AddressesOf(program, {}) = {}  BY DEF AddressesOf
    <3> QED
      BY <2>1, <3>1, <3>2, <3>3, <3>4, NothingCollected DEF FunctionsCollected
  <2>4. CASE FunctionSymbols!SkipModule \/ FunctionSymbols!StartModule
               \/ FunctionSymbols!FinishModule
    <3>1. /\ functionSymbols' = functionSymbols /\ seenFunctionRVAs' = seenFunctionRVAs
          /\ hashRecord' = hashRecord
          /\ pc \in {"module", "symbols"} /\ pc' \in {"module", "symbols"}
      BY <2>4 DEF FunctionSymbols!SkipModule, FunctionSymbols!StartModule,
                  FunctionSymbols!FinishModule, FunctionSymbols!symbolVars
    <3>2. module \in Nat \ {0}  BY <1>2 DEF Walking
    <3>3. Passed' = Passed
      <4>1. CASE FunctionSymbols!SkipModule
        <5>1. /\ pc = "module" /\ pc' = pc /\ module' = module + 1
              /\ module <= Len(program.modules) /\ program.modules[module] = NoSymbolStream
          BY <4>1 DEF FunctionSymbols!SkipModule, FunctionSymbols!HasSymbolStream,
                      FunctionSymbols!NoSymbolStream, NoSymbolStream
        <5>2. FunctionsPassed(program, module + 1, 0) = FunctionsPassed(program, module, 0)
          <6>1. 0 \in Nat  OBVIOUS
          <6> QED  BY <2>1, <3>2, <5>1, <6>1, PassedModule DEF FunctionsPassed
        <5> QED  BY <2>1, <5>1, <5>2 DEF Passed
      <4>2. CASE FunctionSymbols!StartModule
        <5>1. /\ pc = "module" /\ pc' = "symbols" /\ module' = module
              /\ offset' = SizeOfSignature
          BY <4>2 DEF FunctionSymbols!StartModule, FunctionSymbols!StartOn,
                      FunctionSymbols!SizeOfSignature, SizeOfSignature
        <5> QED  BY <2>1, <5>1, PassedNothingYet DEF Passed, FunctionsPassed
      <4>3. CASE FunctionSymbols!FinishModule
        <5>1. /\ pc = "symbols" /\ pc' = "module" /\ module' = module + 1
              /\ offset >= stream.size
          BY <4>3 DEF FunctionSymbols!FinishModule, FunctionSymbols!AtEnd
        <5>2. /\ module \in DOMAIN program.modules /\ stream = program.modules[module]
              /\ stream \in SymbolStreams /\ offset \in PlacesIn(stream)
          BY <1>2, <5>1 DEF Walking, Walks
        <5>3. offset \in Nat
          BY <5>2, NextRecordFollows, SymbolStreamsAssumption DEF PlacesIn
        <5>4. module <= Len(program.modules)
          <6>1. program.modules \in Seq(ModuleStreams)  BY <2>1, ProgramsAssumption
          <6> QED  BY <5>2, <6>1
        <5>5. FunctionsPassed(program, module + 1, 0)
                = FunctionsPassed(program, module, offset)
          BY <2>1, <3>2, <5>1, <5>2, <5>3, <5>4, PassedModule DEF FunctionsPassed
        <5> QED  BY <2>1, <5>1, <5>5 DEF Passed
      <4> QED  BY <2>4, <4>1, <4>2, <4>3
    <3> QED  BY <1>2, <2>1, <3>1, <3>3 DEF FunctionsCollected
  <2>5. CASE FunctionSymbols!StoreFrameProc \/ FunctionSymbols!StoreFunction
    BY <1>2, <2>5, CollectedByCallback
  <2>6. CASE FunctionSymbols!StorePublic
    BY <1>2, <2>6, CollectedByPublics
  <2>7. CASE FunctionSymbols!Sort
    BY <1>2, <2>7, CollectedBySort
  <2>8. CASE FunctionSymbols!FindSizes
    BY <1>2, <2>8, CollectedWithSizes
  <2>9. CASE CallFunctionVariables \/ DisplayVariables
    <3>1. pc' \in VariablePhases  BY <2>9, StepPhases
    <3> QED  BY <3>1 DEF FunctionsCollected
  <2>10. CASE UNCHANGED vars
    BY <1>2, <2>10 DEF vars, functionSymbolVars, symbolStreamVars, FunctionsCollected, Passed
  <2> QED
    BY <1>2, <2>2, <2>3, <2>4, <2>5, <2>6, <2>7, <2>8, <2>9, <2>10
    DEF Next, CollectFunctions, FunctionSymbols!Next
<1> QED  BY <1>1, <1>2, WalksStayInModules, FunctionsAlwaysTyped, PTL DEF Spec

LEMMA CardinalityOfFunctions ==
  ASSUME NEW S
  PROVE  FunctionSymbols!Cardinality(S) = Cardinality(S)
  BY DEF FunctionSymbols!Cardinality, Cardinality

\* Every function of every program comes out once, at its address, and the public
\* ones no module has, sorted by address.
THEOREM FunctionsAlwaysComplete == Spec => []FunctionsComplete
<1>1. ASSUME Walking, FunctionsTyped, FunctionsCollected
      PROVE  FunctionsComplete
  <2>1. SUFFICES ASSUME pc = "done" PROVE FunctionsComplete
    BY DEF FunctionsComplete, FunctionSymbols!FunctionsComplete
  <2>2. /\ Collected(program, functionSymbols, FunctionsIn(program), PublicsIn(program))
        /\ \A i, j \in 1 .. Len(functionSymbols) :
             i < j => functionSymbols[i].rva <= functionSymbols[j].rva
    BY <1>1, <2>1 DEF FunctionsCollected
  <2>3. /\ functionSymbols \in Seq(FunctionRecord) /\ Len(functionSymbols) \in Nat
        /\ DOMAIN functionSymbols = 1 .. Len(functionSymbols)
    BY <1>1 DEF FunctionsTyped
  <2>4. /\ FunctionSymbols!ModuleFunctions = FunctionsIn(program)
        /\ \A f \in FunctionsIn(program) :
             FunctionSymbols!FunctionOf(FunctionSymbols!ModuleRecord(f))
               = FunctionIn(program, RecordAt(program, f))
        /\ FunctionSymbols!PublicFunctions = PublicsIn(program)
    BY <1>1, FunctionsOfProgram DEF Walking
  <2>5. Len(functionSymbols) = FunctionSymbols!Cardinality(FunctionsIn(program))
                                 + FunctionSymbols!Cardinality(PublicsIn(program))
    BY <2>2, CardinalityOfFunctions DEF Collected
  <2>6. \A f \in FunctionsIn(program) : \E i \in DOMAIN functionSymbols :
          /\ functionSymbols[i].from = f
          /\ functionSymbols[i].rva = FunctionIn(program, RecordAt(program, f)).rva
          /\ FunctionIn(program, RecordAt(program, f)).size \in {0, functionSymbols[i].size}
    BY <2>2, <2>3 DEF Collected, IsFunctionOf
  <2>7. \A k \in PublicsIn(program) : \E i \in DOMAIN functionSymbols :
          functionSymbols[i].from = <<0, program.hashRecords[k] - 1>>
    BY <2>2, <2>3 DEF Collected, IsPublicOf
  <2>8. ASSUME NEW i \in 1 .. (Len(functionSymbols) - 1)
        PROVE  functionSymbols[i].rva <= functionSymbols[i + 1].rva
    <3>1. i \in 1 .. Len(functionSymbols) /\ i + 1 \in 1 .. Len(functionSymbols) /\ i < i + 1
      BY <2>3
    <3> QED  BY <2>2, <3>1
  <2>9. Len(functionSymbols) = FunctionSymbols!Cardinality(FunctionSymbols!ModuleFunctions)
                                 + FunctionSymbols!Cardinality(FunctionSymbols!PublicFunctions)
    BY <2>4, <2>5
  <2>10. ASSUME NEW f \in FunctionSymbols!ModuleFunctions
         PROVE  \E i \in DOMAIN functionSymbols :
                  LET function == FunctionSymbols!FunctionOf(FunctionSymbols!ModuleRecord(f))
                  IN  /\ functionSymbols[i].from = f
                      /\ functionSymbols[i].rva = function.rva
                      /\ function.size \in {0, functionSymbols[i].size}
    <3>1. f \in FunctionsIn(program)  BY <2>4
    <3>2. FunctionSymbols!FunctionOf(FunctionSymbols!ModuleRecord(f))
            = FunctionIn(program, RecordAt(program, f))
      BY <2>4, <3>1
    <3> QED  BY <2>6, <3>1, <3>2
  <2>11. \A k \in FunctionSymbols!PublicFunctions : \E i \in DOMAIN functionSymbols :
           functionSymbols[i].from = <<0, program.hashRecords[k] - 1>>
    BY <2>4, <2>7
  <2> QED
    BY <2>8, <2>9, <2>10, <2>11, Zenon
    DEF FunctionsComplete, FunctionSymbols!FunctionsComplete
<1> QED
  BY <1>1, WalksStayInModules, FunctionsAlwaysTyped, FunctionsAlwaysCollected, PTL

-----------------------------------------------------------------------------
(* The contributions.                                                      *)

ContributionRecord == [objectFile : Nat, rva : Nat, size : Nat, from : Nat]

\* The contributions with an address, of the first n - 1 of a program.
LocatedBefore(p, n) ==
  {c \in DOMAIN p.contributions : c < n /\ ContributionAddress(p, p.contributions[c]) # 0}

\* What is stored of a contribution.
IsContributionOf(p, s, c) ==
  /\ s.from = c
  /\ s.rva = ContributionAddress(p, p.contributions[c])
  /\ s.size = p.contributions[c].size
  /\ s.objectFile = p.contributions[c].moduleIndex + 1

\* The contributions with an address that the loop has come past are stored once
\* each; then all are, the largest first, and the first ones of those are shown.
ContributionsCollected ==
  /\ contributions \in Seq(ContributionRecord) /\ contribution \in Nat \ {0}
  /\ \A i \in 1 .. Len(contributions) :
       \E c \in LocatedBefore(program, contribution) :
         IsContributionOf(program, contributions[i], c)
  /\ \A c \in LocatedBefore(program, contribution) :
       \E i \in 1 .. Len(contributions) : IsContributionOf(program, contributions[i], c)
  /\ \A i, j \in 1 .. Len(contributions) : contributions[i].from = contributions[j].from => i = j
  /\ pc # "contributions" => contribution > Len(program.contributions)
  /\ pc \in {"contributions sorted", "contributions shown"} =>
       \A i, j \in 1 .. Len(contributions) :
         i < j => contributions[i].size >= contributions[j].size
  /\ pc = "contributions shown" =>
       shown = SubSeq(contributions, 1,
                      IF CountToShow < Len(contributions) THEN CountToShow
                      ELSE Len(contributions))

\* Sorting loses no contribution and makes none up.
LEMMA ContributionsSorted ==
  ASSUME Contributions!Sort, contributions \in Seq(ContributionRecord),
         \A i, j \in 1 .. Len(contributions) :
           contributions[i].from = contributions[j].from => i = j
  PROVE  /\ contributions' \in Seq(ContributionRecord)
         /\ Len(contributions') = Len(contributions)
         /\ \A i \in 1 .. Len(contributions) : \E j \in 1 .. Len(contributions) :
              contributions'[i] = contributions[j]
         /\ \A j \in 1 .. Len(contributions) : \E i \in 1 .. Len(contributions) :
              contributions'[i] = contributions[j]
         /\ \A i, j \in 1 .. Len(contributions) :
              contributions'[i].from = contributions'[j].from => i = j
         /\ \A i, j \in 1 .. Len(contributions) :
              i < j => contributions'[i].size >= contributions'[j].size
<1> DEFINE D == 1 .. Len(contributions)
<1>1. /\ Len(contributions) \in Nat /\ DOMAIN contributions = D
      /\ \A i \in D : contributions[i] \in ContributionRecord
  OBVIOUS
<1>2. PICK sorted \in Contributions!Bijection(D, D) :
        /\ \A i, j \in D : i < j => contributions[sorted[i]].size >= contributions[sorted[j]].size
        /\ contributions' = [i \in D |-> contributions[sorted[i]]]
  BY <1>1 DEF Contributions!Sort, Contributions!LargerFirst
<1> HIDE DEF ContributionRecord, D
<1>3. /\ sorted \in [D -> D] /\ \A j \in D : \E i \in D : sorted[i] = j
      /\ \A i, j \in D : sorted[i] = sorted[j] => i = j
  BY DEF Contributions!Bijection, Contributions!Injection, Contributions!Surjection,
         Contributions!IsInjective
<1>4. contributions' \in [D -> ContributionRecord]  BY <1>1, <1>2, <1>3
<1>5. contributions' \in Seq(ContributionRecord) /\ Len(contributions') = Len(contributions)
  BY <1>1, <1>4 DEF D
<1>6. /\ \A i \in D : contributions'[i] = contributions[sorted[i]] /\ sorted[i] \in D
      /\ \A i, j \in D : i < j => contributions'[i].size >= contributions'[j].size
  BY <1>2, <1>3
<1>7. \A j \in D : \E i \in D : contributions'[i] = contributions[j]  BY <1>3, <1>6
<1>8. ASSUME NEW i \in D, NEW j \in D, contributions'[i].from = contributions'[j].from
      PROVE  i = j
  <2>1. sorted[i] \in D /\ sorted[j] \in D
        /\ contributions[sorted[i]].from = contributions[sorted[j]].from
    BY <1>6, <1>8
  <2>2. sorted[i] = sorted[j]  BY <2>1 DEF D
  <2> QED  BY <1>3, <2>2
<1> QED  BY <1>5, <1>6, <1>7, <1>8 DEF D

\* The address the example gives a contribution.
LEMMA AddressesOfContributions ==
  ASSUME NEW c
  PROVE  Contributions!RVA(c) = ContributionAddress(program, c)
  BY DEF Contributions!RVA, Contributions!ConvertSectionOffsetToRVA, ContributionAddress,
         AddressIn, ConvertSectionOffsetToRVA

LEMMA LocatedOneMore ==
  ASSUME NEW p \in Programs, NEW n \in DOMAIN p.contributions
  PROVE  LocatedBefore(p, n + 1)
           = IF ContributionAddress(p, p.contributions[n]) = 0 THEN LocatedBefore(p, n)
             ELSE LocatedBefore(p, n) \cup {n}
<1>1. \A c \in DOMAIN p.contributions : c \in Nat  BY ContributionFields
<1>2. \A c \in DOMAIN p.contributions : c < n + 1 <=> c < n \/ c = n  BY <1>1
<1> QED  BY <1>2 DEF LocatedBefore

LEMMA LocatedAll ==
  ASSUME NEW p \in Programs, NEW n \in Nat, n > Len(p.contributions)
  PROVE  LocatedBefore(p, n)
           = {c \in DOMAIN p.contributions : ContributionAddress(p, p.contributions[c]) # 0}
<1>1. p.contributions \in Seq([section : Nat, offset : Nat, size : Nat, moduleIndex : Nat])
  BY ProgramsAssumption
<1>2. ASSUME NEW c \in DOMAIN p.contributions PROVE c < n
  <2>1. c \in Nat /\ c <= Len(p.contributions) /\ Len(p.contributions) \in Nat  BY <1>1
  <2> QED  BY <2>1
<1> QED  BY <1>2 DEF LocatedBefore

LEMMA ContributionStored ==
  ASSUME Walking, ContributionsCollected, Contributions!StoreContribution,
         program' = program
  PROVE  ContributionsCollected'
<1> DEFINE c == program.contributions[contribution]
           stored == [objectFile |-> c.moduleIndex + 1,
                      rva |-> ContributionAddress(program, c),
                      size |-> c.size, from |-> contribution]
<1>1. /\ pc = "contributions" /\ pc' = pc /\ contribution' = contribution + 1
      /\ contribution <= Len(program.contributions)
      /\ contributions' = IF ContributionAddress(program, c) = 0 THEN contributions
                          ELSE Append(contributions, stored)
  BY AddressesOfContributions DEF Contributions!StoreContribution, Contributions!GetModule
<1>2. /\ program \in Programs /\ contribution \in Nat \ {0}
      /\ contributions \in Seq(ContributionRecord) /\ Len(contributions) \in Nat
  <2>1. contributions \in Seq(ContributionRecord) /\ contribution \in Nat \ {0}
    BY DEF ContributionsCollected
  <2> QED  BY <2>1 DEF Walking
<1>3. contribution \in DOMAIN program.contributions
  <2>1. program.contributions
          \in Seq([section : Nat, offset : Nat, size : Nat, moduleIndex : Nat])
    BY <1>2, ProgramsAssumption
  <2> QED  BY <1>1, <1>2, <2>1
<1>4. /\ c.section \in Nat /\ c.offset \in Nat /\ c.size \in Nat /\ c.moduleIndex \in Nat
  BY <1>2, <1>3, ContributionFields
<1>5. stored \in ContributionRecord
  <2>1. ContributionAddress(program, c) \in Nat
    BY <1>2, <1>4, AddressIsNatural DEF ContributionAddress
  <2> QED  BY <1>2, <1>4, <2>1 DEF ContributionRecord
<1>6. LocatedBefore(program, contribution + 1)
        = IF ContributionAddress(program, c) = 0 THEN LocatedBefore(program, contribution)
          ELSE LocatedBefore(program, contribution) \cup {contribution}
  BY <1>2, <1>3, LocatedOneMore
<1>7. IsContributionOf(program, stored, contribution)  BY DEF IsContributionOf
<1>8. contribution + 1 \in Nat \ {0}  BY <1>2
<1>9. /\ \A i \in 1 .. Len(contributions) :
           \E d \in LocatedBefore(program, contribution) :
             IsContributionOf(program, contributions[i], d)
      /\ \A d \in LocatedBefore(program, contribution) :
           \E i \in 1 .. Len(contributions) : IsContributionOf(program, contributions[i], d)
      /\ \A i, j \in 1 .. Len(contributions) :
           contributions[i].from = contributions[j].from => i = j
  BY DEF ContributionsCollected
<1> HIDE DEF c, stored
<1>10. CASE ContributionAddress(program, c) = 0
  BY <1>1, <1>2, <1>6, <1>8, <1>9, <1>10 DEF ContributionsCollected
<1>11. CASE ContributionAddress(program, c) # 0
  <2>1. contributions' = Append(contributions, stored)  BY <1>1, <1>11
  <2>2. /\ contributions' \in Seq(ContributionRecord)
        /\ Len(contributions') = Len(contributions) + 1
        /\ \A i \in 1 .. Len(contributions) : contributions'[i] = contributions[i]
        /\ contributions'[Len(contributions) + 1] = stored
    BY <1>2, <1>5, <2>1
  <2>3. /\ \A i \in 1 .. Len(contributions') :
             i \in 1 .. Len(contributions) \/ i = Len(contributions) + 1
        /\ \A i \in 1 .. Len(contributions) : i \in 1 .. Len(contributions')
        /\ Len(contributions) + 1 \in 1 .. Len(contributions')
    BY <1>2, <2>2
  <2>4. LocatedBefore(program, contribution + 1)
          = LocatedBefore(program, contribution) \cup {contribution}
    BY <1>6, <1>11
  <2>5. \A i \in 1 .. Len(contributions') :
          \E d \in LocatedBefore(program, contribution + 1) :
            IsContributionOf(program, contributions'[i], d)
    BY <1>7, <1>9, <2>2, <2>3, <2>4
  <2>6. \A d \in LocatedBefore(program, contribution + 1) :
          \E i \in 1 .. Len(contributions') : IsContributionOf(program, contributions'[i], d)
    BY <1>7, <1>9, <2>2, <2>3, <2>4
  <2>7. \A i \in 1 .. Len(contributions) : contributions[i].from # contribution
    <3>1. \A d \in LocatedBefore(program, contribution) : d # contribution
      BY <1>2 DEF LocatedBefore
    <3> QED  BY <1>9, <3>1 DEF IsContributionOf
  <2>8. stored.from = contribution  BY <1>7 DEF IsContributionOf
  <2>9. \A i, j \in 1 .. Len(contributions') :
          contributions'[i].from = contributions'[j].from => i = j
    BY <1>9, <2>2, <2>3, <2>7, <2>8
  <2> QED  BY <1>1, <1>8, <2>2, <2>5, <2>6, <2>9 DEF ContributionsCollected
<1> QED  BY <1>10, <1>11

\* What the steps of the other examples leave alone.
LEMMA ContributionsStay ==
  ASSUME ContributionsCollected, program' = program, UNCHANGED contributionVars,
         pc' = pc \/ pc' \notin ContributionPhases,
         pc = "contributions" => pc' \in ContributionPhases
  PROVE  ContributionsCollected'
<1>1. /\ contributions' = contributions /\ contribution' = contribution /\ shown' = shown
  BY DEF contributionVars
<1>2. pc' \in {"contributions", "contributions sorted", "contributions shown"} => pc' = pc
  BY DEF ContributionPhases
<1>3. pc' # "contributions" => pc # "contributions"
  BY DEF ContributionPhases
<1> QED  BY <1>1, <1>2, <1>3 DEF ContributionsCollected

LEMMA ContributionsAlwaysCollected == Spec => []ContributionsCollected
<1>1. Init => ContributionsCollected
  <2> SUFFICES ASSUME Init PROVE ContributionsCollected
    OBVIOUS
  <2>1. /\ pc = "contributions" /\ contribution = 1 /\ contributions = <<>>
        /\ program \in Programs
    BY DEF Init, Contributions!Init
  <2>2. LocatedBefore(program, 1) = {}
    <3>1. \A c \in DOMAIN program.contributions : c \in Nat /\ c >= 1
      BY <2>1, ContributionFields
    <3> QED  BY <3>1 DEF LocatedBefore
  <2>3. Len(contributions) = 0 /\ 1 .. 0 = {}  BY <2>1
  <2> QED  BY <2>1, <2>2, <2>3 DEF ContributionsCollected
<1>2. ASSUME Walking, ContributionsCollected, [Next]_vars
      PROVE  ContributionsCollected'
  <2>1. program' = program /\ program \in Programs  BY <1>2, ProgramStays DEF Walking
  <2>2. CASE Contributions!StoreContribution
    BY <1>2, <2>1, <2>2, ContributionStored
  <2>3. CASE Contributions!Sort
    <3>1. /\ pc = "contributions" /\ pc' = "contributions sorted"
          /\ contribution > Len(program.contributions) /\ contribution' = contribution
      BY <2>3 DEF Contributions!Sort
    <3>2. /\ contributions \in Seq(ContributionRecord) /\ contribution \in Nat \ {0}
          /\ \A i, j \in 1 .. Len(contributions) :
               contributions[i].from = contributions[j].from => i = j
          /\ \A i \in 1 .. Len(contributions) :
               \E c \in LocatedBefore(program, contribution) :
                 IsContributionOf(program, contributions[i], c)
          /\ \A c \in LocatedBefore(program, contribution) :
               \E i \in 1 .. Len(contributions) : IsContributionOf(program, contributions[i], c)
      BY <1>2 DEF ContributionsCollected
    <3>3. /\ contributions' \in Seq(ContributionRecord)
          /\ Len(contributions') = Len(contributions)
          /\ \A i \in 1 .. Len(contributions) : \E j \in 1 .. Len(contributions) :
               contributions'[i] = contributions[j]
          /\ \A j \in 1 .. Len(contributions) : \E i \in 1 .. Len(contributions) :
               contributions'[i] = contributions[j]
          /\ \A i, j \in 1 .. Len(contributions) :
               contributions'[i].from = contributions'[j].from => i = j
          /\ \A i, j \in 1 .. Len(contributions) :
               i < j => contributions'[i].size >= contributions'[j].size
      BY <2>3, <3>2, ContributionsSorted
    <3>4. \A i \in 1 .. Len(contributions') :
            \E c \in LocatedBefore(program, contribution) :
              IsContributionOf(program, contributions'[i], c)
      BY <3>2, <3>3
    <3>5. \A c \in LocatedBefore(program, contribution) :
            \E i \in 1 .. Len(contributions') : IsContributionOf(program, contributions'[i], c)
      BY <3>2, <3>3
    <3> QED  BY <2>1, <3>1, <3>2, <3>3, <3>4, <3>5 DEF ContributionsCollected
  <2>4. CASE Contributions!ShowLargest
    <3>1. /\ pc = "contributions sorted" /\ pc' = "contributions shown"
          /\ contribution' = contribution /\ contributions' = contributions
          /\ shown' = SubSeq(contributions, 1,
                             IF CountToShow < Len(contributions) THEN CountToShow
                             ELSE Len(contributions))
      BY <2>4 DEF Contributions!ShowLargest
    <3> QED  BY <1>2, <2>1, <3>1 DEF ContributionsCollected
  <2>5. CASE ~ ShowContributions
    <3>1. UNCHANGED contributionVars
      BY <1>2, <2>5
      DEF Next, CallSymbols, CollectSymbols, CallFunctionSymbols, CollectFunctions,
          CallFunctionVariables, DisplayVariables, vars
    <3>2. pc' = pc \/ pc' \notin ContributionPhases
      BY <1>2, <2>5, StepPhases
      DEF Next, vars, ContributionPhases, SymbolPhases, FunctionPhases, VariablePhases
    <3>3. pc = "contributions" => pc' \in ContributionPhases
      BY <1>2, <2>5, StepPhases
      DEF Next, CallSymbols, vars, ContributionPhases, SymbolPhases, FunctionPhases,
          VariablePhases
    <3> QED  BY <1>2, <2>1, <3>1, <3>2, <3>3, ContributionsStay
  <2> QED
    BY <2>2, <2>3, <2>4, <2>5 DEF ShowContributions, Contributions!Next
<1> QED  BY <1>1, <1>2, WalksStayInModules, PTL DEF Spec

\* No contribution with an address is larger than one shown and is left out, and none
\* is shown twice, for any number of contributions and any number to show.
THEOREM LargestAlwaysShown == Spec => []LargestShown
<1>1. ASSUME Walking, ContributionsCollected, pc = "contributions shown"
      PROVE  Contributions!LargestShown
  <2> DEFINE which == {shown[i].from : i \in DOMAIN shown}
             located == {c \in DOMAIN program.contributions :
                           ContributionAddress(program, program.contributions[c]) # 0}
             last == Len(contributions)
             count == IF CountToShow < last THEN CountToShow ELSE last
  <2>1. /\ program \in Programs
        /\ contributions \in Seq(ContributionRecord) /\ last \in Nat
        /\ LocatedBefore(program, contribution) = located
    <3>1. /\ contributions \in Seq(ContributionRecord) /\ contribution \in Nat \ {0}
          /\ contribution > Len(program.contributions)
      BY <1>1 DEF ContributionsCollected
    <3>2. program \in Programs /\ contribution \in Nat  BY <1>1, <3>1 DEF Walking
    <3>3. LocatedBefore(program, contribution) = located  BY <3>1, <3>2, LocatedAll
    <3>4. Len(contributions) \in Nat  BY <3>1
    <3> QED  BY <3>1, <3>2, <3>3, <3>4
  <2>2. /\ \A i \in 1 .. last : \E c \in located :
             IsContributionOf(program, contributions[i], c)
        /\ \A c \in located : \E i \in 1 .. last :
             IsContributionOf(program, contributions[i], c)
        /\ \A i, j \in 1 .. last : contributions[i].from = contributions[j].from => i = j
        /\ \A i, j \in 1 .. last : i < j => contributions[i].size >= contributions[j].size
        /\ shown = SubSeq(contributions, 1, count)
    BY <1>1, <2>1 DEF ContributionsCollected
  <2>3. CountToShow \in Nat  BY SymbolsAssumption
  <2>4. count \in Nat /\ count <= last /\ (count < CountToShow => count = last)
    BY <2>1, <2>3
  <2> HIDE DEF located, last, count
  <2>5. /\ Len(shown) = count /\ DOMAIN shown = 1 .. count
        /\ \A i \in 1 .. count : shown[i] = contributions[i] /\ i \in 1 .. last
    BY <2>1, <2>2, <2>4 DEF last
  <2>6. Contributions!Located = located
    BY AddressesOfContributions DEF Contributions!Located, located
  <2>7. which \subseteq located
    <3>1. ASSUME NEW i \in 1 .. last PROVE contributions[i].from \in located
      BY <2>2 DEF IsContributionOf
    <3> QED  BY <2>5, <3>1
  <2>8. Contributions!Cardinality(which) = Len(shown)
    <3> DEFINE numbered == [i \in 1 .. count |-> shown[i].from]
    <3>1. numbered \in Bijection(1 .. count, which)
      <4>1. numbered \in [1 .. count -> which]  BY <2>5
      <4>2. \A i, j \in 1 .. count : numbered[i] = numbered[j] => i = j  BY <2>2, <2>5
      <4>3. \A c \in which : \E i \in 1 .. count : numbered[i] = c  BY <2>5
      <4> HIDE DEF numbered, which
      <4> QED
        BY <4>1, <4>2, <4>3 DEF Bijection, Injection, Surjection, IsInjective
    <3>2. ExistsBijection(1 .. count, which)  BY <3>1 DEF ExistsBijection
    <3>3. IsFiniteSet(1 .. count) /\ Cardinality(1 .. count) = count
      <4>1. 1 \in Int /\ count \in Int  BY <2>4
      <4>2. IsFiniteSet(1 .. count)
            /\ Cardinality(1 .. count) = IF 1 > count THEN 0 ELSE count - 1 + 1
        BY <4>1, FS_Interval
      <4> QED  BY <2>4, <4>2
    <3>4. Cardinality(which) = count  BY <3>2, <3>3, FS_Bijection
    <3>5. Contributions!Cardinality(which) = Cardinality(which)
      BY DEF Contributions!Cardinality, Cardinality
    <3> QED  BY <2>5, <3>4, <3>5
  <2>9. Len(shown) < CountToShow => which = located
    BY <2>2, <2>4, <2>5, <2>7 DEF IsContributionOf
  <2>10. ASSUME NEW i \in DOMAIN shown, NEW c \in located \ which
         PROVE  shown[i].size >= program.contributions[c].size
    <3>1. PICK j \in 1 .. last : IsContributionOf(program, contributions[j], c)
      BY <2>2
    <3>2. j \notin 1 .. count
      BY <2>5, <3>1 DEF IsContributionOf
    <3>3. i \in 1 .. last /\ i < j  BY <2>1, <2>4, <2>5, <3>2
    <3>4. contributions[i].size >= contributions[j].size  BY <2>2, <3>3
    <3> QED  BY <2>5, <3>1, <3>4 DEF IsContributionOf
  <2> QED
    BY <2>6, <2>7, <2>8, <2>9, <2>10 DEF Contributions!LargestShown
<1>2. Walking /\ ContributionsCollected => LargestShown
  BY <1>1 DEF LargestShown, Contributions!LargestShown
<1> QED  BY <1>2, WalksStayInModules, ContributionsAlwaysCollected, PTL

-----------------------------------------------------------------------------
(* Everything with an address is a symbol.                                 *)

SymbolRecord == [from : Nat \X Nat, rva : Nat]

\* The kinds of records of a module that ExampleSymbols takes addresses from.
SymbolKinds == Symbols!InModules \cup {"S_TRAMPOLINE"}

\* What the hash records of the public or of the global stream lead to: the symbol
\* made of one, and those in front of the n-th one that have an address.
HashedRecord(p, hashRecords, k) == p.symbolRecords[hashRecords[k] - 1]
HashedAddress(p, hashRecords, k) ==
  LET record == HashedRecord(p, hashRecords, k) IN AddressIn(p, record.section, record.offset)
HashedSymbol(p, hashRecords, k) ==
  [from |-> <<0, hashRecords[k] - 1>>, rva |-> HashedAddress(p, hashRecords, k)]
HashedIn(p, hashRecords, kinds) ==
  {k \in DOMAIN hashRecords : /\ HashedRecord(p, hashRecords, k).kind \in kinds
                              /\ HashedAddress(p, hashRecords, k) # 0}
HashedBefore(p, hashRecords, kinds, n) == {k \in HashedIn(p, hashRecords, kinds) : k < n}

\* The symbol made of a record of a module.
ModuleSymbol(p, f) ==
  [from |-> f, rva |-> AddressOfKinds(p, SymbolKinds, RecordAt(p, f))]

\* A sequence of symbols has each of these once, and no other.
SymbolsMade(p, ss, publics, globals, records) ==
  /\ IsFiniteSet(publics) /\ IsFiniteSet(globals) /\ IsFiniteSet(records)
  /\ Len(ss) = Cardinality(publics) + Cardinality(globals) + Cardinality(records)
  /\ {ss[i] : i \in 1 .. Len(ss)}
       = {HashedSymbol(p, p.hashRecords, k) : k \in publics}
         \cup {HashedSymbol(p, p.globalHashRecords, k) : k \in globals}
         \cup {ModuleSymbol(p, f) : f \in records}

LEMMA NothingMade ==
  ASSUME NEW p
  PROVE  SymbolsMade(p, <<>>, {}, {}, {})
<1>1. Len(<<>>) = 0  OBVIOUS
<1>2. 1 .. 0 = {}  OBVIOUS
<1> QED  BY <1>1, <1>2, FS_EmptySet DEF SymbolsMade

LEMMA SymbolsOneMore ==
  ASSUME NEW p, NEW ss \in Seq(SymbolRecord), NEW s \in SymbolRecord,
         NEW publics, NEW globals, NEW records,
         SymbolsMade(p, ss, publics, globals, records)
  PROVE  /\ \A k : k \notin publics /\ s = HashedSymbol(p, p.hashRecords, k) =>
              SymbolsMade(p, Append(ss, s), publics \cup {k}, globals, records)
         /\ \A k : k \notin globals /\ s = HashedSymbol(p, p.globalHashRecords, k) =>
              SymbolsMade(p, Append(ss, s), publics, globals \cup {k}, records)
         /\ \A f : f \notin records /\ s = ModuleSymbol(p, f) =>
              SymbolsMade(p, Append(ss, s), publics, globals, records \cup {f})
<1> DEFINE more == Append(ss, s)
           range == {ss[i] : i \in 1 .. Len(ss)}
           rangeOfMore == {more[i] : i \in 1 .. Len(more)}
<1>1. /\ Len(ss) \in Nat /\ Len(more) = Len(ss) + 1
      /\ \A i \in 1 .. Len(ss) : more[i] = ss[i]
      /\ more[Len(ss) + 1] = s
  OBVIOUS
<1>2. rangeOfMore = range \cup {s}
  <2>1. /\ \A i \in 1 .. Len(more) : i \in 1 .. Len(ss) \/ i = Len(ss) + 1
        /\ Len(ss) + 1 \in 1 .. Len(more)
        /\ \A i \in 1 .. Len(ss) : i \in 1 .. Len(more)
    BY <1>1
  <2> HIDE DEF more
  <2> QED  BY <1>1, <2>1
<1>3. /\ IsFiniteSet(publics) /\ IsFiniteSet(globals) /\ IsFiniteSet(records)
      /\ Len(ss) = Cardinality(publics) + Cardinality(globals) + Cardinality(records)
      /\ range = {HashedSymbol(p, p.hashRecords, k) : k \in publics}
                 \cup {HashedSymbol(p, p.globalHashRecords, k) : k \in globals}
                 \cup {ModuleSymbol(p, f) : f \in records}
  BY DEF SymbolsMade
<1>4. /\ Cardinality(publics) \in Nat /\ Cardinality(globals) \in Nat
      /\ Cardinality(records) \in Nat
  BY <1>3, FS_CardinalityType
<1>5. \A T, x : IsFiniteSet(T) /\ x \notin T =>
        IsFiniteSet(T \cup {x}) /\ Cardinality(T \cup {x}) = Cardinality(T) + 1
  BY FS_AddElement
<1> HIDE DEF more, range, rangeOfMore
<1>6. ASSUME NEW k, k \notin publics, s = HashedSymbol(p, p.hashRecords, k)
      PROVE  SymbolsMade(p, more, publics \cup {k}, globals, records)
  <2>1. /\ IsFiniteSet(publics \cup {k})
        /\ Cardinality(publics \cup {k}) = Cardinality(publics) + 1
    BY <1>3, <1>5, <1>6
  <2>2. Len(more) = Cardinality(publics \cup {k}) + Cardinality(globals) + Cardinality(records)
    BY <1>1, <1>3, <1>4, <2>1
  <2>3. rangeOfMore = {HashedSymbol(p, p.hashRecords, j) : j \in publics \cup {k}}
                      \cup {HashedSymbol(p, p.globalHashRecords, j) : j \in globals}
                      \cup {ModuleSymbol(p, f) : f \in records}
    BY <1>2, <1>3, <1>6
  <2> QED  BY <1>3, <2>1, <2>2, <2>3 DEF SymbolsMade, rangeOfMore
<1>7. ASSUME NEW k, k \notin globals, s = HashedSymbol(p, p.globalHashRecords, k)
      PROVE  SymbolsMade(p, more, publics, globals \cup {k}, records)
  <2>1. /\ IsFiniteSet(globals \cup {k})
        /\ Cardinality(globals \cup {k}) = Cardinality(globals) + 1
    BY <1>3, <1>5, <1>7
  <2>2. Len(more) = Cardinality(publics) + Cardinality(globals \cup {k}) + Cardinality(records)
    BY <1>1, <1>3, <1>4, <2>1
  <2>3. rangeOfMore = {HashedSymbol(p, p.hashRecords, j) : j \in publics}
                      \cup {HashedSymbol(p, p.globalHashRecords, j) : j \in globals \cup {k}}
                      \cup {ModuleSymbol(p, f) : f \in records}
    BY <1>2, <1>3, <1>7
  <2> QED  BY <1>3, <2>1, <2>2, <2>3 DEF SymbolsMade, rangeOfMore
<1>8. ASSUME NEW g, g \notin records, s = ModuleSymbol(p, g)
      PROVE  SymbolsMade(p, more, publics, globals, records \cup {g})
  <2>1. /\ IsFiniteSet(records \cup {g})
        /\ Cardinality(records \cup {g}) = Cardinality(records) + 1
    BY <1>3, <1>5, <1>8
  <2>2. Len(more) = Cardinality(publics) + Cardinality(globals) + Cardinality(records \cup {g})
    BY <1>1, <1>3, <1>4, <2>1
  <2>3. rangeOfMore = {HashedSymbol(p, p.hashRecords, j) : j \in publics}
                      \cup {HashedSymbol(p, p.globalHashRecords, j) : j \in globals}
                      \cup {ModuleSymbol(p, f) : f \in records \cup {g}}
    BY <1>2, <1>3, <1>8
  <2> QED  BY <1>3, <2>1, <2>2, <2>3 DEF SymbolsMade, rangeOfMore
<1> QED  BY <1>6, <1>7, <1>8 DEF more

\* The loops over hash records come past them one by one.
LEMMA HashedOneByOne ==
  ASSUME NEW p, NEW hashRecords \in Seq(Nat \ {0}), NEW kinds
  PROVE  /\ HashedBefore(p, hashRecords, kinds, 1) = {}
         /\ \A n \in DOMAIN hashRecords :
              /\ n \notin HashedBefore(p, hashRecords, kinds, n)
              /\ HashedBefore(p, hashRecords, kinds, n + 1)
                   = IF n \in HashedIn(p, hashRecords, kinds)
                       THEN HashedBefore(p, hashRecords, kinds, n) \cup {n}
                       ELSE HashedBefore(p, hashRecords, kinds, n)
         /\ \A n \in Nat : n > Len(hashRecords) =>
              HashedBefore(p, hashRecords, kinds, n) = HashedIn(p, hashRecords, kinds)
<1>1. /\ \A k \in DOMAIN hashRecords : k \in Nat \ {0} /\ k <= Len(hashRecords)
      /\ Len(hashRecords) \in Nat
  OBVIOUS
<1>2. \A k \in HashedIn(p, hashRecords, kinds) : k \in DOMAIN hashRecords
  BY DEF HashedIn
<1>3. \A k \in HashedIn(p, hashRecords, kinds) : ~ (k < 1)  BY <1>1, <1>2
<1>4. ASSUME NEW n \in DOMAIN hashRecords
      PROVE  /\ ~ (n < n)
             /\ \A k \in HashedIn(p, hashRecords, kinds) : k < n + 1 <=> k < n \/ k = n
  BY <1>1, <1>2
<1>5. ASSUME NEW n \in Nat, n > Len(hashRecords)
      PROVE  \A k \in HashedIn(p, hashRecords, kinds) : k < n
  BY <1>1, <1>2, <1>5
<1> QED  BY <1>3, <1>4, <1>5 DEF HashedBefore

\* What the public and the global stream lead to are symbol records.
LEMMA HashedFields ==
  ASSUME NEW p \in Programs, NEW hashRecords \in {p.hashRecords, p.globalHashRecords},
         NEW k \in DOMAIN hashRecords
  PROVE  LET record == HashedRecord(p, hashRecords, k)
         IN  /\ hashRecords \in Seq(Nat \ {0}) /\ hashRecords[k] - 1 \in Nat
             /\ record.kind \in {"S_PUB32"} \cup Symbols!InGlobals =>
                  /\ HashedSymbol(p, hashRecords, k) \in SymbolRecord
                  /\ HashedAddress(p, hashRecords, k) # 0
                       <=> record.section \in DOMAIN p.virtualAddresses
<1> DEFINE at == hashRecords[k] - 1
           record == p.symbolRecords[at]
           va == p.virtualAddresses
<1>1. hashRecords \in Seq(Nat \ {0}) /\ at \in DOMAIN p.symbolRecords
  BY ProgramsAssumption
<1>2. at \in Nat  BY <1>1
<1>3. va \in Seq(Nat \ {0})  BY ProgramsAssumption
<1>4. HashedRecord(p, hashRecords, k) = record  BY DEF HashedRecord
<1>5. ASSUME record.kind \in {"S_PUB32"} \cup Symbols!InGlobals
      PROVE  /\ record.section \in Nat /\ record.offset \in Nat
             /\ record.section \in DOMAIN va => va[record.section] + record.offset < UInt32Range
  BY <1>1, <1>5, ProgramsAssumption DEF IsLocated
<1> HIDE DEF at, record, va
<1>6. ASSUME record.kind \in {"S_PUB32"} \cup Symbols!InGlobals
      PROVE  AddressIn(p, record.section, record.offset) # 0 <=> record.section \in DOMAIN va
  <2>1. DOMAIN va = 1 .. Len(va) /\ Len(va) \in Nat  BY <1>3
  <2>2. CASE record.section \in DOMAIN va
    <3>1. va[record.section] + record.offset \in Nat \ {0}
      BY <1>3, <1>5, <1>6, <2>2
    <3>2. (va[record.section] + record.offset) % UInt32Range
            = va[record.section] + record.offset
      BY <1>5, <1>6, <2>2, <3>1, SmallRemainder
    <3>3. record.section # 0 /\ ~ (record.section > Len(va))
      BY <2>1, <2>2
    <3>4. AddressIn(p, record.section, record.offset)
            = (va[record.section] + record.offset) % UInt32Range
      BY <3>3 DEF AddressIn, ConvertSectionOffsetToRVA, va
    <3> QED  BY <2>2, <3>1, <3>2, <3>4
  <2>3. CASE record.section \notin DOMAIN va
    <3>1. record.section = 0 \/ record.section > Len(va)
      BY <1>5, <1>6, <2>1, <2>3
    <3> QED  BY <2>3, <3>1 DEF AddressIn, ConvertSectionOffsetToRVA, va
  <2> QED  BY <2>2, <2>3
<1>7. ASSUME record.kind \in {"S_PUB32"} \cup Symbols!InGlobals
      PROVE  HashedSymbol(p, hashRecords, k) \in SymbolRecord
  <2>1. AddressIn(p, record.section, record.offset) \in Nat
    BY <1>5, <1>7, AddressIsNatural
  <2>2. HashedSymbol(p, hashRecords, k)
          = [from |-> <<0, at>>, rva |-> AddressIn(p, record.section, record.offset)]
    BY <1>4 DEF HashedSymbol, HashedAddress, at
  <2> QED  BY <1>2, <2>1, <2>2 DEF SymbolRecord
<1>8. HashedAddress(p, hashRecords, k) = AddressIn(p, record.section, record.offset)
  BY <1>4 DEF HashedAddress
<1> QED  BY <1>1, <1>2, <1>4, <1>6, <1>7, <1>8 DEF at, va

LEMMA AddressesOfSymbols ==
  ASSUME NEW section, NEW o
  PROVE  Symbols!RVA(section, o) = AddressIn(program, section, o)
  BY DEF Symbols!RVA, Symbols!ConvertSectionOffsetToRVA, AddressIn,
         ConvertSectionOffsetToRVA

\* The address ExampleSymbols finds in a record of a module.
LEMMA SymbolOfRecord ==
  ASSUME program \in Programs, NEW s \in SymbolStreams, NEW o \in DOMAIN s.recordAt
  PROVE  /\ Symbols!ModuleRVA(s.recordAt[o])
              = AddressOfKinds(program, SymbolKinds, s.recordAt[o])
         /\ AddressOfKinds(program, SymbolKinds, s.recordAt[o]) \in Nat
<1> DEFINE record == s.recordAt[o]
<1>1. /\ record.kind \in Symbols!InModules => record.section \in Nat /\ record.offset \in Nat
      /\ record.kind = "S_TRAMPOLINE" =>
           record.thunkSection \in Nat /\ record.thunkOffset \in Nat
      /\ record.kind = "S_THUNK32" => record.thunk # "TrampolineIncremental"
  BY SymbolsAssumption, ScopesAssumption DEF IsLocated
<1> HIDE DEF record
<1>2. \A kind \in Symbols!InModules : kind # "S_TRAMPOLINE" /\ kind # "S_THUNK32"
  BY DEF Symbols!InModules
<1>3. CASE record.kind \in Symbols!InModules
  <2>1. Symbols!ModuleRVA(record) = AddressIn(program, record.section, record.offset)
    BY <1>2, <1>3, AddressesOfSymbols DEF Symbols!ModuleRVA
  <2>2. AddressOfKinds(program, SymbolKinds, record)
          = AddressIn(program, record.section, record.offset)
    BY <1>2, <1>3 DEF AddressOfKinds, SymbolKinds, FunctionAddress
  <2> QED  BY <1>1, <1>3, <2>1, <2>2, AddressIsNatural DEF record
<1>4. CASE record.kind = "S_TRAMPOLINE"
  <2>1. Symbols!ModuleRVA(record)
          = AddressIn(program, record.thunkSection, record.thunkOffset)
    BY <1>2, <1>4, AddressesOfSymbols DEF Symbols!ModuleRVA
  <2>2. AddressOfKinds(program, SymbolKinds, record)
          = AddressIn(program, record.thunkSection, record.thunkOffset)
    BY <1>4 DEF AddressOfKinds, SymbolKinds, FunctionAddress
  <2> QED  BY <1>1, <1>4, <2>1, <2>2, AddressIsNatural DEF record
<1>5. CASE record.kind \notin SymbolKinds
  <2>1. Symbols!ModuleRVA(record) = 0
    BY <1>1, <1>5 DEF Symbols!ModuleRVA, SymbolKinds
  <2>2. AddressOfKinds(program, SymbolKinds, record) = 0
    BY <1>5 DEF AddressOfKinds
  <2> QED  BY <2>1, <2>2 DEF record
<1> QED  BY <1>3, <1>4, <1>5 DEF SymbolKinds

\* What the linker wrote and what the modules have, as ExampleSymbols sees it.
PublicKinds == {"S_PUB32"}
AllPublics(p) == HashedIn(p, p.hashRecords, PublicKinds)
AllGlobals(p) == HashedIn(p, p.globalHashRecords, Symbols!InGlobals)

\* The symbols are those of the publics, the globals and the records of modules that
\* the loops have come past.
SymbolsCollected ==
  /\ symbols \in Seq(SymbolRecord)
  /\ pc \in ContributionPhases => symbols = <<>>
  /\ pc = "publics" =>
       SymbolsMade(program, symbols,
                   HashedBefore(program, program.hashRecords, PublicKinds, hashRecord), {}, {})
  /\ pc = "globals" =>
       SymbolsMade(program, symbols, AllPublics(program),
                   HashedBefore(program, program.globalHashRecords, Symbols!InGlobals,
                                hashRecord), {})
  /\ pc = "symbol modules" =>
       SymbolsMade(program, symbols, AllPublics(program), AllGlobals(program),
                   RecordsPassed(program, SymbolKinds, module, 0))
  /\ pc = "module symbols" =>
       SymbolsMade(program, symbols, AllPublics(program), AllGlobals(program),
                   RecordsPassed(program, SymbolKinds, module, offset))
  /\ pc \in FunctionPhases \cup VariablePhases =>
       SymbolsMade(program, symbols, AllPublics(program), AllGlobals(program),
                   RecordsIn(program, SymbolKinds))

\* A step of the loop over the public hash records.
LEMMA MadeByPublics ==
  ASSUME Walking, FunctionsTyped, SymbolsCollected, Symbols!StorePublic
  PROVE  SymbolsCollected'
<1> DEFINE made == HashedBefore(program, program.hashRecords, PublicKinds, hashRecord)
           record == HashedRecord(program, program.hashRecords, hashRecord)
           symbol == HashedSymbol(program, program.hashRecords, hashRecord)
<1>1. /\ pc = "publics" /\ pc' = pc /\ program' = program /\ hashRecord' = hashRecord + 1
      /\ hashRecord <= Len(program.hashRecords)
      /\ symbols' = IF Symbols!PublicRVA(record) = 0 THEN symbols
                    ELSE Append(symbols, [from |-> <<0, program.hashRecords[hashRecord] - 1>>,
                                          rva |-> Symbols!PublicRVA(record)])
  BY DEF Symbols!StorePublic, Symbols!PushBack, Symbols!GetPublicRecord, HashedRecord
<1>2. program \in Programs /\ hashRecord \in Nat \ {0}
  BY DEF Walking, FunctionsTyped
<1>3. program.hashRecords \in Seq(Nat \ {0})  BY <1>2, ProgramsAssumption
<1>4. hashRecord \in DOMAIN program.hashRecords  BY <1>1, <1>2, <1>3
<1>5. /\ symbols \in Seq(SymbolRecord)
      /\ SymbolsMade(program, symbols, made, {}, {})
  BY <1>1 DEF SymbolsCollected
<1>6. /\ hashRecord \notin made
      /\ HashedBefore(program, program.hashRecords, PublicKinds, hashRecord + 1)
           = IF hashRecord \in AllPublics(program) THEN made \cup {hashRecord} ELSE made
  BY <1>3, <1>4, HashedOneByOne DEF AllPublics
<1>7. /\ hashRecord \in AllPublics(program) <=> Symbols!PublicRVA(record) # 0
      /\ hashRecord \in AllPublics(program) =>
           [from |-> <<0, program.hashRecords[hashRecord] - 1>>,
            rva |-> Symbols!PublicRVA(record)] = symbol
  BY <1>4, AddressesOfSymbols
  DEF AllPublics, PublicKinds, HashedIn, HashedSymbol, HashedAddress, Symbols!PublicRVA
<1>8. record.kind \in PublicKinds => symbol \in SymbolRecord
  BY <1>2, <1>4, HashedFields DEF PublicKinds
<1>9. hashRecord \in AllPublics(program) => record.kind \in PublicKinds
  BY DEF AllPublics, HashedIn
<1>10. SUFFICES /\ symbols' \in Seq(SymbolRecord)
                /\ SymbolsMade(program, symbols',
                     HashedBefore(program, program.hashRecords, PublicKinds, hashRecord + 1),
                     {}, {})
  BY <1>1 DEF SymbolsCollected, ContributionPhases, FunctionPhases, VariablePhases
<1> HIDE DEF made, record, symbol
<1>11. CASE hashRecord \notin AllPublics(program)
  BY <1>1, <1>5, <1>6, <1>7, <1>11
<1>12. CASE hashRecord \in AllPublics(program)
  <2>1. symbols' = Append(symbols, symbol)  BY <1>1, <1>7, <1>12
  <2>2. symbol \in SymbolRecord  BY <1>8, <1>9, <1>12
  <2>3. symbol = HashedSymbol(program, program.hashRecords, hashRecord)  BY DEF symbol
  <2>4. SymbolsMade(program, Append(symbols, symbol), made \cup {hashRecord}, {}, {})
    BY <1>5, <1>6, <2>2, <2>3, SymbolsOneMore
  <2>5. Append(symbols, symbol) \in Seq(SymbolRecord)  BY <1>5, <2>2
  <2> QED  BY <1>6, <1>12, <2>1, <2>4, <2>5
<1> QED  BY <1>11, <1>12

\* A step of the loop over the global ones.
LEMMA MadeByGlobals ==
  ASSUME Walking, FunctionsTyped, SymbolsCollected, Symbols!StoreGlobal
  PROVE  SymbolsCollected'
<1> DEFINE hashRecords == program.globalHashRecords
           made == HashedBefore(program, hashRecords, Symbols!InGlobals, hashRecord)
           record == HashedRecord(program, hashRecords, hashRecord)
           symbol == HashedSymbol(program, hashRecords, hashRecord)
<1>1. /\ pc = "globals" /\ pc' = pc /\ program' = program /\ hashRecord' = hashRecord + 1
      /\ hashRecord <= Len(hashRecords)
      /\ symbols' = IF Symbols!GlobalRVA(record) = 0 THEN symbols
                    ELSE Append(symbols, [from |-> <<0, hashRecords[hashRecord] - 1>>,
                                          rva |-> Symbols!GlobalRVA(record)])
  BY DEF Symbols!StoreGlobal, Symbols!PushBack, Symbols!GetGlobalRecord, HashedRecord
<1>2. program \in Programs /\ hashRecord \in Nat \ {0}
  BY DEF Walking, FunctionsTyped
<1>3. hashRecords \in Seq(Nat \ {0})  BY <1>2, ProgramsAssumption
<1>4. hashRecord \in DOMAIN hashRecords  BY <1>1, <1>2, <1>3
<1>5. /\ symbols \in Seq(SymbolRecord)
      /\ SymbolsMade(program, symbols, AllPublics(program), made, {})
  BY <1>1 DEF SymbolsCollected
<1>6. /\ hashRecord \notin made
      /\ HashedBefore(program, hashRecords, Symbols!InGlobals, hashRecord + 1)
           = IF hashRecord \in AllGlobals(program) THEN made \cup {hashRecord} ELSE made
  BY <1>3, <1>4, HashedOneByOne DEF AllGlobals
<1>7. /\ hashRecord \in AllGlobals(program) <=> Symbols!GlobalRVA(record) # 0
      /\ hashRecord \in AllGlobals(program) =>
           [from |-> <<0, hashRecords[hashRecord] - 1>>,
            rva |-> Symbols!GlobalRVA(record)] = symbol
  BY <1>4, AddressesOfSymbols
  DEF AllGlobals, HashedIn, HashedSymbol, HashedAddress, Symbols!GlobalRVA
<1>8. record.kind \in Symbols!InGlobals => symbol \in SymbolRecord
  BY <1>2, <1>4, HashedFields
<1>9. hashRecord \in AllGlobals(program) => record.kind \in Symbols!InGlobals
  BY DEF AllGlobals, HashedIn
<1>10. SUFFICES /\ symbols' \in Seq(SymbolRecord)
                /\ SymbolsMade(program, symbols', AllPublics(program),
                     HashedBefore(program, hashRecords, Symbols!InGlobals, hashRecord + 1), {})
  BY <1>1 DEF SymbolsCollected, ContributionPhases, FunctionPhases, VariablePhases
<1> HIDE DEF made, record, symbol
<1>11. CASE hashRecord \notin AllGlobals(program)
  BY <1>1, <1>5, <1>6, <1>7, <1>11
<1>12. CASE hashRecord \in AllGlobals(program)
  <2>1. symbols' = Append(symbols, symbol)  BY <1>1, <1>7, <1>12
  <2>2. symbol \in SymbolRecord  BY <1>8, <1>9, <1>12
  <2>3. symbol = HashedSymbol(program, hashRecords, hashRecord)  BY DEF symbol
  <2>4. SymbolsMade(program, Append(symbols, symbol), AllPublics(program),
                    made \cup {hashRecord}, {})
    BY <1>5, <1>6, <2>2, <2>3, SymbolsOneMore
  <2>5. Append(symbols, symbol) \in Seq(SymbolRecord)  BY <1>5, <2>2
  <2> QED  BY <1>6, <1>12, <2>1, <2>4, <2>5
<1> QED  BY <1>11, <1>12

\* A call of the callback of the walks over the modules.
LEMMA MadeByCallback ==
  ASSUME Walking, SymbolsCollected, Symbols!StoreModuleSymbol
  PROVE  SymbolsCollected'
<1> DEFINE at == <<module, offset>>
           made == RecordsPassed(program, SymbolKinds, module, offset)
           address == AddressOfKinds(program, SymbolKinds, stream.recordAt[offset])
<1>1. /\ pc = "module symbols" /\ pc' = pc /\ module' = module /\ program' = program
      /\ Symbols!Callback
      /\ symbols' = IF Symbols!ModuleRVA(stream.recordAt[offset]) = 0 THEN symbols
                    ELSE Append(symbols, [from |-> at,
                                          rva |-> Symbols!ModuleRVA(stream.recordAt[offset])])
  BY DEF Symbols!StoreModuleSymbol, Symbols!PushBack, Symbols!Record
<1>2. /\ stream \in SymbolStreams /\ offset \in DOMAIN stream.recordAt
      /\ offset' = NextRecordIn(stream, offset)
  BY <1>1, WalkMovesOn DEF Walks
<1>3. /\ program \in Programs /\ module \in DOMAIN program.modules
      /\ module \in Nat /\ stream = program.modules[module]
  BY <1>1 DEF Walking, Walks
<1>4. /\ symbols \in Seq(SymbolRecord)
      /\ SymbolsMade(program, symbols, AllPublics(program), AllGlobals(program), made)
  BY <1>1 DEF SymbolsCollected
<1>5. /\ at \notin made
      /\ RecordsPassed(program, SymbolKinds, module, NextRecordIn(stream, offset))
           = IF address = 0 THEN made ELSE made \cup {at}
      /\ RecordAt(program, at) = stream.recordAt[offset]
  <2>1. offset \in DOMAIN program.modules[module].recordAt  BY <1>2, <1>3
  <2>2. LET passed == RecordsPassed(program, SymbolKinds, module, offset)
            record == program.modules[module].recordAt[offset]
            next == NextRecordIn(program.modules[module], offset)
        IN  /\ <<module, offset>> \notin passed
            /\ RecordsPassed(program, SymbolKinds, module, next)
                 = IF AddressOfKinds(program, SymbolKinds, record) = 0 THEN passed
                   ELSE passed \cup {<<module, offset>>}
            /\ RecordAt(program, <<module, offset>>) = record
    BY <1>3, <2>1, PassedOneMore
  <2> QED  BY <1>3, <2>2
<1>6. Symbols!ModuleRVA(stream.recordAt[offset]) = address /\ address \in Nat
  BY <1>2, <1>3, SymbolOfRecord
<1>7. [from |-> at, rva |-> address] = ModuleSymbol(program, at)
  BY <1>5 DEF ModuleSymbol
<1>8. ModuleSymbol(program, at) \in SymbolRecord
  <2>1. offset \in Nat  BY <1>2, NextRecordFollows
  <2> QED  BY <1>3, <1>6, <1>7, <2>1 DEF SymbolRecord
<1>9. SUFFICES /\ symbols' \in Seq(SymbolRecord)
               /\ SymbolsMade(program, symbols', AllPublics(program), AllGlobals(program),
                    RecordsPassed(program, SymbolKinds, module, NextRecordIn(stream, offset)))
  BY <1>1, <1>2 DEF SymbolsCollected, ContributionPhases, FunctionPhases, VariablePhases
<1> HIDE DEF made, address, at
<1>10. CASE address = 0
  BY <1>1, <1>4, <1>5, <1>6, <1>10
<1>11. CASE address # 0
  <2>1. symbols' = Append(symbols, ModuleSymbol(program, at))
    BY <1>1, <1>6, <1>7, <1>11
  <2>2. SymbolsMade(program, Append(symbols, ModuleSymbol(program, at)), AllPublics(program),
                    AllGlobals(program), made \cup {at})
    BY <1>4, <1>5, <1>8, SymbolsOneMore
  <2> QED  BY <1>4, <1>5, <1>8, <1>11, <2>1, <2>2
<1> QED  BY <1>10, <1>11

\* The steps between the loops.
LEMMA MadeBetween ==
  ASSUME Walking, FunctionsTyped, SymbolsCollected,
         \/ Symbols!StartGlobals \/ Symbols!StartModules
         \/ Symbols!SkipModule \/ Symbols!StartModule \/ Symbols!FinishModule
  PROVE  SymbolsCollected'
<1>1. program' = program /\ symbols' = symbols
  BY DEF Symbols!StartGlobals, Symbols!StartModules, Symbols!SkipModule,
         Symbols!StartModule, Symbols!FinishModule
<1>2. /\ program \in Programs /\ module \in Nat \ {0} /\ hashRecord \in Nat \ {0}
      /\ symbols \in Seq(SymbolRecord)
  BY DEF Walking, FunctionsTyped, SymbolsCollected
<1>3. /\ program.hashRecords \in Seq(Nat \ {0}) /\ program.globalHashRecords \in Seq(Nat \ {0})
  BY <1>2, ProgramsAssumption
<1> USE DEF ContributionPhases, FunctionPhases, VariablePhases
<1>4. CASE Symbols!StartGlobals
  <2>1. /\ pc = "publics" /\ pc' = "globals" /\ hashRecord' = 1
        /\ hashRecord > Len(program.hashRecords)
    BY <1>4 DEF Symbols!StartGlobals
  <2>2. HashedBefore(program, program.hashRecords, PublicKinds, hashRecord)
          = AllPublics(program)
    BY <1>2, <1>3, <2>1, HashedOneByOne DEF AllPublics
  <2>3. HashedBefore(program, program.globalHashRecords, Symbols!InGlobals, 1) = {}
    BY <1>3, HashedOneByOne
  <2> QED  BY <1>1, <1>2, <2>1, <2>2, <2>3 DEF SymbolsCollected
<1>5. CASE Symbols!StartModules
  <2>1. /\ pc = "globals" /\ pc' = "symbol modules" /\ module' = 1
        /\ hashRecord > Len(program.globalHashRecords)
    BY <1>5 DEF Symbols!StartModules
  <2>2. HashedBefore(program, program.globalHashRecords, Symbols!InGlobals, hashRecord)
          = AllGlobals(program)
    BY <1>2, <1>3, <2>1, HashedOneByOne DEF AllGlobals
  <2>3. RecordsPassed(program, SymbolKinds, 1, 0) = {}  BY <1>2, PassedNone
  <2> QED  BY <1>1, <1>2, <2>1, <2>2, <2>3 DEF SymbolsCollected
<1>6. CASE Symbols!SkipModule
  <2>1. /\ pc = "symbol modules" /\ pc' = pc /\ module' = module + 1
        /\ module <= Len(program.modules) /\ program.modules[module] = NoSymbolStream
    BY <1>6 DEF Symbols!SkipModule, Symbols!AtModule, Symbols!HasSymbolStream,
                Symbols!NoSymbolStream, NoSymbolStream
  <2>2. RecordsPassed(program, SymbolKinds, module + 1, 0)
          = RecordsPassed(program, SymbolKinds, module, 0)
    <3>1. 0 \in Nat  OBVIOUS
    <3> QED  BY <1>2, <2>1, <3>1, PassedModule
  <2> QED  BY <1>1, <1>2, <2>1, <2>2 DEF SymbolsCollected
<1>7. CASE Symbols!StartModule
  <2>1. /\ pc = "symbol modules" /\ pc' = "module symbols" /\ module' = module
        /\ offset' = SizeOfSignature
    BY <1>7 DEF Symbols!StartModule, Symbols!AtModule, Symbols!StartOn,
                Symbols!SizeOfSignature, SizeOfSignature
  <2>2. RecordsPassed(program, SymbolKinds, module, SizeOfSignature)
          = RecordsPassed(program, SymbolKinds, module, 0)
    BY <1>2, PassedNothingYet
  <2> QED  BY <1>1, <1>2, <2>1, <2>2 DEF SymbolsCollected
<1>8. CASE Symbols!FinishModule
  <2>1. /\ pc = "module symbols" /\ pc' = "symbol modules" /\ module' = module + 1
        /\ offset >= stream.size
    BY <1>8 DEF Symbols!FinishModule, Symbols!AtEnd
  <2>2. /\ module \in DOMAIN program.modules /\ stream = program.modules[module]
        /\ stream \in SymbolStreams /\ offset \in PlacesIn(stream)
    BY <2>1 DEF Walking, Walks
  <2>3. offset \in Nat
    BY <2>2, NextRecordFollows, SymbolStreamsAssumption DEF PlacesIn
  <2>4. module <= Len(program.modules)
    <3>1. program.modules \in Seq(ModuleStreams)  BY <1>2, ProgramsAssumption
    <3> QED  BY <2>2, <3>1
  <2>5. RecordsPassed(program, SymbolKinds, module + 1, 0)
          = RecordsPassed(program, SymbolKinds, module, offset)
    BY <1>2, <2>1, <2>2, <2>3, <2>4, PassedModule
  <2> QED  BY <1>1, <1>2, <2>1, <2>5 DEF SymbolsCollected
<1> QED  BY <1>4, <1>5, <1>6, <1>7, <1>8

LEMMA SymbolsAlwaysCollected == Spec => []SymbolsCollected
<1> USE DEF ContributionPhases, SymbolPhases, FunctionPhases, VariablePhases
<1>1. Init => SymbolsCollected
  BY DEF Init, Contributions!Init, SymbolsCollected
<1>2. ASSUME Walking, FunctionsTyped, SymbolsCollected, [Next]_vars
      PROVE  SymbolsCollected'
  <2>1. program' = program /\ program \in Programs  BY <1>2, ProgramStays DEF Walking
  <2>2. CASE ShowContributions
    <3>1. pc \in ContributionPhases /\ pc' \in ContributionPhases  BY <2>2, StepPhases
    <3>2. symbols' = symbols  BY <2>2 DEF ShowContributions
    <3> QED  BY <1>2, <3>1, <3>2 DEF SymbolsCollected
  <2>3. CASE CallSymbols
    <3>1. /\ pc \in ContributionPhases /\ pc' = "publics" /\ hashRecord' = 1
          /\ symbols' = symbols
      BY <2>3 DEF CallSymbols, Symbols!Start
    <3>2. symbols = <<>>  BY <1>2, <3>1 DEF SymbolsCollected
    <3>3. HashedBefore(program, program.hashRecords, PublicKinds, 1) = {}
      BY <2>1, ProgramsAssumption, HashedOneByOne
    <3>4. symbols \in Seq(SymbolRecord)  BY <1>2 DEF SymbolsCollected
    <3> QED  BY <2>1, <3>1, <3>2, <3>3, <3>4, NothingMade DEF SymbolsCollected
  <2>4. CASE Symbols!StorePublic
    BY <1>2, <2>4, MadeByPublics
  <2>5. CASE Symbols!StoreGlobal
    BY <1>2, <2>5, MadeByGlobals
  <2>6. CASE Symbols!StoreModuleSymbol
    BY <1>2, <2>6, MadeByCallback
  <2>7. CASE \/ Symbols!StartGlobals \/ Symbols!StartModules
             \/ Symbols!SkipModule \/ Symbols!StartModule \/ Symbols!FinishModule
    BY <1>2, <2>7, MadeBetween
  <2>8. CASE CallFunctionSymbols
    <3>1. /\ pc = "symbol modules" /\ module > Len(program.modules)
          /\ pc' = "module" /\ symbols' = symbols
      BY <2>8 DEF CallFunctionSymbols, Symbols!Finished, FunctionSymbols!Start
    <3>2. module \in Nat  BY <1>2 DEF Walking
    <3>3. RecordsPassed(program, SymbolKinds, module, 0) = RecordsIn(program, SymbolKinds)
      BY <2>1, <3>1, <3>2, AllPassed
    <3> QED  BY <1>2, <2>1, <3>1, <3>3 DEF SymbolsCollected
  <2>9. CASE CollectFunctions \/ CallFunctionVariables \/ DisplayVariables
    <3>1. /\ pc \in FunctionPhases \cup VariablePhases
          /\ pc' \in FunctionPhases \cup VariablePhases
      BY <2>9, StepPhases
    <3>2. symbols' = symbols
      BY <2>9 DEF CollectFunctions, CallFunctionVariables, DisplayVariables
    <3> QED  BY <1>2, <2>1, <3>1, <3>2 DEF SymbolsCollected
  <2>10. CASE UNCHANGED vars
    BY <1>2, <2>10 DEF vars, symbolStreamVars, SymbolsCollected
  <2> QED
    BY <1>2, <2>2, <2>3, <2>4, <2>5, <2>6, <2>7, <2>8, <2>9, <2>10
    DEF Next, CollectSymbols, Symbols!Next
<1> QED  BY <1>1, <1>2, WalksStayInModules, FunctionsAlwaysTyped, PTL DEF Spec

LEMMA CardinalityOfSymbols ==
  ASSUME NEW S
  PROVE  Symbols!Cardinality(S) = Cardinality(S)
  BY DEF Symbols!Cardinality, Cardinality

\* What SymbolsComplete asks for, for every program: each record with an address is a
\* symbol once, those of the public and the global stream and those of the modules.
THEOREM SymbolsAlwaysComplete == Spec => []SymbolsComplete
<1>1. ASSUME Walking, SymbolsCollected, Symbols!Finished
      PROVE  Symbols!SymbolsComplete
  <2> DEFINE publics == Symbols!Addressed(program.hashRecords, {"S_PUB32"})
             globals == Symbols!Addressed(program.globalHashRecords, Symbols!InGlobals)
             inModules == UNION {{<<m, o>> : o \in Symbols!AddressedInModule(m)} :
                                 m \in DOMAIN program.modules}
             records == RecordsIn(program, SymbolKinds)
  <2>1. /\ pc = "symbol modules" /\ module > Len(program.modules)
        /\ program \in Programs /\ module \in Nat
    BY <1>1 DEF Symbols!Finished, Walking
  <2>2. /\ symbols \in Seq(SymbolRecord) /\ DOMAIN symbols = 1 .. Len(symbols)
        /\ SymbolsMade(program, symbols, AllPublics(program), AllGlobals(program), records)
    <3>1. symbols \in Seq(SymbolRecord)  BY <1>1 DEF SymbolsCollected
    <3>2. RecordsPassed(program, SymbolKinds, module, 0) = records  BY <2>1, AllPassed
    <3>3. SymbolsMade(program, symbols, AllPublics(program), AllGlobals(program),
                      RecordsPassed(program, SymbolKinds, module, 0))
      BY <1>1, <2>1 DEF SymbolsCollected
    <3> QED  BY <3>1, <3>2, <3>3
  <2>3. publics = AllPublics(program)
    <3>1. ASSUME NEW k \in DOMAIN program.hashRecords
          PROVE  k \in publics <=> k \in AllPublics(program)
      BY <2>1, HashedFields
      DEF Symbols!Addressed, AllPublics, HashedIn, PublicKinds, HashedRecord
    <3> QED  BY <3>1 DEF Symbols!Addressed, AllPublics, HashedIn
  <2>4. globals = AllGlobals(program)
    <3>1. ASSUME NEW k \in DOMAIN program.globalHashRecords
          PROVE  k \in globals <=> k \in AllGlobals(program)
      BY <2>1, HashedFields
      DEF Symbols!Addressed, AllGlobals, HashedIn, HashedRecord
    <3> QED  BY <3>1 DEF Symbols!Addressed, AllGlobals, HashedIn
  <2>5. inModules = records
    <3>1. ASSUME NEW m \in DOMAIN program.modules,
                 NEW o \in DOMAIN program.modules[m].recordAt
          PROVE  Symbols!ModuleRVA(program.modules[m].recordAt[o])
                   = AddressOfKinds(program, SymbolKinds, program.modules[m].recordAt[o])
      BY <2>1, StreamOfModule, SymbolOfRecord
    <3>2. ASSUME NEW f
          PROVE  f \in inModules <=>
                   \E m \in DOMAIN program.modules :
                     \E o \in DOMAIN program.modules[m].recordAt :
                       /\ f = <<m, o>>
                       /\ Symbols!ModuleRVA(program.modules[m].recordAt[o]) # 0
      BY DEF Symbols!AddressedInModule
    <3>3. \A f : f \in inModules <=> f \in records
      BY <3>1, <3>2, RecordsOneByOne
    <3> HIDE DEF inModules, records
    <3> QED  BY <3>3
  <2>6. Len(symbols) = Symbols!Cardinality(publics) + Symbols!Cardinality(globals)
                         + Symbols!Cardinality(inModules)
    <3>1. Len(symbols) = Cardinality(AllPublics(program)) + Cardinality(AllGlobals(program))
                           + Cardinality(records)
      BY <2>2 DEF SymbolsMade
    <3> HIDE DEF publics, globals, inModules, records
    <3> QED  BY <2>3, <2>4, <2>5, <3>1, CardinalityOfSymbols
  <2>7. {symbols[i].from : i \in DOMAIN symbols}
          = {<<0, program.hashRecords[k] - 1>> : k \in publics}
            \cup {<<0, program.globalHashRecords[k] - 1>> : k \in globals}
            \cup inModules
    <3> DEFINE made == {symbols[i] : i \in 1 .. Len(symbols)}
    <3> HIDE DEF publics, globals, inModules, records
    <3>1. made = {HashedSymbol(program, program.hashRecords, k) : k \in publics}
                 \cup {HashedSymbol(program, program.globalHashRecords, k) : k \in globals}
                 \cup {ModuleSymbol(program, f) : f \in inModules}
      BY <2>2, <2>3, <2>4, <2>5 DEF SymbolsMade
    <3>2. {symbols[i].from : i \in DOMAIN symbols} = {s.from : s \in made}
      BY <2>2
    <3>3. /\ \A k : HashedSymbol(program, program.hashRecords, k).from
                      = <<0, program.hashRecords[k] - 1>>
          /\ \A k : HashedSymbol(program, program.globalHashRecords, k).from
                      = <<0, program.globalHashRecords[k] - 1>>
          /\ \A f : ModuleSymbol(program, f).from = f
      BY DEF HashedSymbol, ModuleSymbol
    <3> HIDE DEF made
    <3>4. ASSUME NEW x
          PROVE  (\E s \in made : x = s.from)
                   <=> \/ \E k \in publics : x = <<0, program.hashRecords[k] - 1>>
                       \/ \E k \in globals : x = <<0, program.globalHashRecords[k] - 1>>
                       \/ x \in inModules
      <4>1. \A s : s \in made
                    <=> \/ \E k \in publics : s = HashedSymbol(program, program.hashRecords, k)
                        \/ \E k \in globals :
                             s = HashedSymbol(program, program.globalHashRecords, k)
                        \/ \E f \in inModules : s = ModuleSymbol(program, f)
        BY <3>1
      <4>2. ASSUME NEW s \in made
            PROVE  \/ \E k \in publics : s.from = <<0, program.hashRecords[k] - 1>>
                   \/ \E k \in globals : s.from = <<0, program.globalHashRecords[k] - 1>>
                   \/ s.from \in inModules
        BY <3>3, <4>1
      <4>3. /\ \A k \in publics : \E s \in made : s.from = <<0, program.hashRecords[k] - 1>>
            /\ \A k \in globals : \E s \in made : s.from = <<0, program.globalHashRecords[k] - 1>>
            /\ \A f \in inModules : \E s \in made : s.from = f
        BY <3>3, <4>1
      <4> QED  BY <4>2, <4>3
    <3> QED  BY <3>2, <3>4
  <2> HIDE DEF publics, globals, inModules, records
  <2> QED
    BY <2>6, <2>7, Zenon DEF Symbols!SymbolsComplete, publics, globals, inModules
<1>2. Walking /\ SymbolsCollected => SymbolsComplete
  BY <1>1 DEF SymbolsComplete, Symbols!SymbolsComplete
<1> QED  BY <1>2, WalksStayInModules, SymbolsAlwaysCollected, PTL

-----------------------------------------------------------------------------
(* What the examples say of the same function.                             *)

\* The kinds of records functions are made from are among those of symbols.
LEMMA FunctionsAreSymbols ==
  ASSUME NEW p \in Programs
  PROVE  /\ \A f \in FunctionsIn(p) :
              /\ f \in RecordsIn(p, SymbolKinds)
              /\ RecordAt(p, f).kind \in FunctionKinds
              /\ ModuleSymbol(p, f).from = f
              /\ ModuleSymbol(p, f).rva = FunctionIn(p, RecordAt(p, f)).rva
              /\ FunctionIn(p, RecordAt(p, f)).rva = FunctionAddress(p, RecordAt(p, f))
         /\ \A k \in PublicsIn(p) :
              /\ k \in AllPublics(p)
              /\ HashedSymbol(p, p.hashRecords, k).from = <<0, p.hashRecords[k] - 1>>
              /\ HashedSymbol(p, p.hashRecords, k).rva = PublicAddress(p, k)
<1>1. FunctionKinds \subseteq SymbolKinds
  BY DEF FunctionKinds, SymbolKinds, Symbols!InModules, ProcedureKinds
<1>2. ASSUME NEW f \in FunctionsIn(p)
      PROVE  /\ f \in RecordsIn(p, SymbolKinds)
             /\ RecordAt(p, f).kind \in FunctionKinds
             /\ ModuleSymbol(p, f).from = f
             /\ ModuleSymbol(p, f).rva = FunctionIn(p, RecordAt(p, f)).rva
             /\ FunctionIn(p, RecordAt(p, f)).rva = FunctionAddress(p, RecordAt(p, f))
  <2>1. /\ f[1] \in DOMAIN p.modules /\ f[2] \in DOMAIN p.modules[f[1]].recordAt
        /\ f = <<f[1], f[2]>>
        /\ AddressOfKinds(p, FunctionKinds, RecordAt(p, f)) # 0
    BY RecordPlaces DEF FunctionsIn
  <2>2. RecordAt(p, f).kind \in FunctionKinds
    BY <2>1 DEF AddressOfKinds
  <2>3. /\ AddressOfKinds(p, FunctionKinds, RecordAt(p, f)) = FunctionAddress(p, RecordAt(p, f))
        /\ AddressOfKinds(p, SymbolKinds, RecordAt(p, f)) = FunctionAddress(p, RecordAt(p, f))
    BY <1>1, <2>2 DEF AddressOfKinds
  <2>4. f \in RecordsIn(p, SymbolKinds)
    BY <2>1, <2>3, RecordsOneByOne DEF RecordAt
  <2> QED  BY <2>2, <2>3, <2>4 DEF ModuleSymbol, FunctionIn
<1>3. ASSUME NEW k \in PublicsIn(p)
      PROVE  /\ k \in AllPublics(p)
             /\ HashedSymbol(p, p.hashRecords, k).from = <<0, p.hashRecords[k] - 1>>
             /\ HashedSymbol(p, p.hashRecords, k).rva = PublicAddress(p, k)
  BY DEF PublicsIn, PublicAt, PublicAddress, AllPublics, PublicKinds, HashedIn, HashedRecord,
         HashedAddress, HashedSymbol
<1> QED  BY <1>2, <1>3

\* Whatever ExampleFunctionSymbols comes up with, ExampleSymbols has at the same
\* address, and no contribution that ExampleContributions puts down to one module has
\* a function of another in it.
THEOREM FunctionsAlwaysInOwnContributions == Spec => []FunctionsInOwnContributions
<1>1. ASSUME Walking, FunctionsTyped, FunctionsCollected, SymbolsCollected,
             ContributionsCollected, pc = "done"
      PROVE  FunctionsInOwnContributions
  <2>1. /\ program \in Programs
        /\ Collected(program, functionSymbols, FunctionsIn(program), PublicsIn(program))
        /\ SymbolsMade(program, symbols, AllPublics(program), AllGlobals(program),
                       RecordsIn(program, SymbolKinds))
    BY <1>1 DEF Walking, FunctionsCollected, SymbolsCollected, FunctionPhases
  <2>2. /\ functionSymbols \in Seq(FunctionRecord) /\ symbols \in Seq(SymbolRecord)
        /\ contributions \in Seq(ContributionRecord)
        /\ DOMAIN functionSymbols = 1 .. Len(functionSymbols)
        /\ DOMAIN symbols = 1 .. Len(symbols)
        /\ DOMAIN contributions = 1 .. Len(contributions)
    BY <1>1 DEF FunctionsTyped, SymbolsCollected, ContributionsCollected
  <2>3. /\ \A f \in RecordsIn(program, SymbolKinds) :
             \E j \in DOMAIN symbols : symbols[j] = ModuleSymbol(program, f)
        /\ \A k \in AllPublics(program) :
             \E j \in DOMAIN symbols : symbols[j] = HashedSymbol(program, program.hashRecords, k)
    BY <2>1, <2>2 DEF SymbolsMade
  <2>4. \A c \in DOMAIN contributions :
          \E d \in DOMAIN program.contributions :
            /\ ContributionAddress(program, program.contributions[d]) # 0
            /\ IsContributionOf(program, contributions[c], d)
    BY <1>1, <2>2 DEF ContributionsCollected, LocatedBefore
  <2>5. ASSUME NEW i \in DOMAIN functionSymbols
        PROVE  \E j \in DOMAIN symbols : /\ symbols[j].from = functionSymbols[i].from
                                         /\ symbols[j].rva = functionSymbols[i].rva
    <3>1. \/ \E f \in FunctionsIn(program) : IsFunctionOf(program, functionSymbols[i], f)
          \/ \E k \in PublicsIn(program) : IsPublicOf(program, functionSymbols[i], k)
      BY <2>1, <2>2 DEF Collected
    <3>2. ASSUME NEW f \in FunctionsIn(program), IsFunctionOf(program, functionSymbols[i], f)
          PROVE  \E j \in DOMAIN symbols : /\ symbols[j].from = functionSymbols[i].from
                                           /\ symbols[j].rva = functionSymbols[i].rva
      <4>1. PICK j \in DOMAIN symbols : symbols[j] = ModuleSymbol(program, f)
        BY <2>1, <2>3, FunctionsAreSymbols
      <4> QED  BY <2>1, <3>2, <4>1, FunctionsAreSymbols DEF IsFunctionOf
    <3>3. ASSUME NEW k \in PublicsIn(program), IsPublicOf(program, functionSymbols[i], k)
          PROVE  \E j \in DOMAIN symbols : /\ symbols[j].from = functionSymbols[i].from
                                           /\ symbols[j].rva = functionSymbols[i].rva
      <4>1. PICK j \in DOMAIN symbols :
              symbols[j] = HashedSymbol(program, program.hashRecords, k)
        BY <2>1, <2>3, FunctionsAreSymbols
      <4> QED  BY <2>1, <3>3, <4>1, FunctionsAreSymbols DEF IsPublicOf
    <3> QED  BY <3>1, <3>2, <3>3
  <2>6. ASSUME NEW i \in DOMAIN functionSymbols, NEW c \in DOMAIN contributions,
               functionSymbols[i].from[1] # 0,
               functionSymbols[i].rva
                 \in contributions[c].rva .. (contributions[c].rva + contributions[c].size - 1)
        PROVE  contributions[c].objectFile = functionSymbols[i].from[1]
    <3>1. PICK f \in FunctionsIn(program) : IsFunctionOf(program, functionSymbols[i], f)
      <4>1. \A k : IsPublicOf(program, functionSymbols[i], k) => functionSymbols[i].from[1] = 0
        BY DEF IsPublicOf
      <4> QED  BY <2>1, <2>2, <2>6, <4>1 DEF Collected
    <3>2. PICK d \in DOMAIN program.contributions :
            /\ ContributionAddress(program, program.contributions[d]) # 0
            /\ IsContributionOf(program, contributions[c], d)
      BY <2>4
    <3> DEFINE own == program.contributions[d]
               rva == ContributionAddress(program, own)
    <3>3. /\ f[1] \in DOMAIN program.modules
          /\ f[2] \in DOMAIN program.modules[f[1]].recordAt
      BY <2>1, RecordPlaces DEF FunctionsIn
    <3>4. /\ RecordAt(program, f).kind \in ProcedureKinds \cup {"S_TRAMPOLINE"}
          /\ functionSymbols[i].from = f
          /\ functionSymbols[i].rva = FunctionAddress(program, RecordAt(program, f))
      BY <2>1, <3>1, FunctionsAreSymbols DEF IsFunctionOf, FunctionKinds
    <3>5. /\ contributions[c].rva = rva /\ contributions[c].size = own.size
          /\ contributions[c].objectFile = own.moduleIndex + 1
      BY <3>2 DEF IsContributionOf
    <3>6. ASSUME NEW m \in DOMAIN program.modules, NEW o \in DOMAIN program.modules[m].recordAt,
                 program.modules[m].recordAt[o].kind \in ProcedureKinds \cup {"S_TRAMPOLINE"},
                 FunctionAddress(program, program.modules[m].recordAt[o])
                   \in rva .. (rva + own.size - 1)
          PROVE  m = own.moduleIndex + 1
      BY <2>1, <3>2, <3>6, ContributionsAssumption
    <3>7. FunctionAddress(program, RecordAt(program, f)) \in rva .. (rva + own.size - 1)
      BY <2>6, <3>4, <3>5
    <3> HIDE DEF own, rva
    <3>8. f[1] = own.moduleIndex + 1
      BY <3>3, <3>4, <3>6, <3>7 DEF RecordAt
    <3> QED  BY <3>4, <3>5, <3>8
  <2> QED  BY <2>5, <2>6 DEF FunctionsInOwnContributions
<1>2. Walking /\ FunctionsTyped /\ FunctionsCollected /\ SymbolsCollected
        /\ ContributionsCollected => FunctionsInOwnContributions
  BY <1>1 DEF FunctionsInOwnContributions
<1> QED
  BY <1>2, WalksStayInModules, FunctionsAlwaysTyped, FunctionsAlwaysCollected,
     SymbolsAlwaysCollected, ContributionsAlwaysCollected, PTL

=============================================================================
