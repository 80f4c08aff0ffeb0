---------------------- MODULE ExampleFunctionVariables ----------------------
(***************************************************************************)
(* Examples/ExampleFunctionVariables.cpp: prints the records of all modules *)
(* indented by the number of scopes they are in.  One counter, which lives *)
(* across all modules, goes up with the records that open a scope and down *)
(* with those that end one.                                                *)
(***************************************************************************)
EXTENDS ModuleSymbolStream, Sequences, FiniteSets

CONSTANT UInt32Range          \* 2^32: uint32_t wraps around; instances make it small

VARIABLES program, module,    \* shared with the examples that run before
          pc,
          blockLevel,
          recordCount,
          failed              \* some PDB_ASSERT did not hold

vars == <<symbolStreamVars, program, module, pc, blockLevel, recordCount, failed>>

Procedures == {"S_LPROC32", "S_GPROC32", "S_LPROC32_ID", "S_GPROC32_ID"}
Ends == {"S_END", "S_INLINESITE_END"}
Nested == {"S_BLOCK32", "S_INLINESITE"}
Thunks == {"S_THUNK32", "S_TRAMPOLINE"}

\* The kinds that are printed and change nothing, wherever they come.  That the
\* strings of an S_ANNOTATION fit its record, which the code asserts, is taken for granted.
Printed ==
  {"S_SKIP", "S_LABEL32", "S_CONSTANT", "S_LOCAL", "S_DEFRANGE_REGISTER",
   "S_DEFRANGE_FRAMEPOINTER_REL", "S_DEFRANGE_SUBFIELD_REGISTER",
   "S_DEFRANGE_FRAMEPOINTER_REL_FULL_SCOPE", "S_DEFRANGE_REGISTER_REL",
   "S_FILESTATIC", "S_CALLEES", "S_CALLERS", "S_INLINEES", "S_LDATA32",
   "S_LTHREAD32", "S_UDT", "S_REGISTER", "S_BPREL32", "S_REGREL32",
   "S_FRAMECOOKIE", "S_CALLSITEINFO", "S_HEAPALLOCSITE", "S_FRAMEPROC",
   "S_ANNOTATION", "S_REGREL32_INDIR", "S_REGREL32_ENCTMP", "S_UNAMESPACE",
   "S_ARMSWITCHTABLE"}

Start ==
  /\ module' = 1
  /\ pc' = "variables"
  /\ blockLevel' = 0
  /\ recordCount' = 0
  /\ UNCHANGED <<symbolStreamVars, program, failed>>

SkipModule ==
  /\ pc = "variables" /\ module <= Len(program.modules)
  /\ ~ HasSymbolStream(program.modules[module])
  /\ module' = module + 1
  /\ UNCHANGED <<symbolStreamVars, program, pc, blockLevel, recordCount, failed>>

StartModule ==
  /\ pc = "variables" /\ module <= Len(program.modules)
  /\ HasSymbolStream(program.modules[module])
  /\ StartOn(program.modules[module])
  /\ pc' = "variable symbols"
  /\ UNCHANGED <<program, module, blockLevel, recordCount, failed>>

\* What every call of the callback does, whatever the record is.
Symbol ==
  /\ pc = "variable symbols"
  /\ Callback
  /\ recordCount' = recordCount + 1
  /\ UNCHANGED <<program, module, pc>>

\* PDB_ASSERT: in a build without it the callback just goes on.
PDB_ASSERT(condition) == failed' = (failed \/ ~ condition)

\* Variant: the end of an inlined call ends nothing.
EndScopeUnlessInlined ==
  /\ Symbol /\ Record.kind \in Ends
  /\ PDB_ASSERT(blockLevel > 0)
  /\ blockLevel' = IF Record.kind = "S_END" THEN (blockLevel - 1) % UInt32Range ELSE blockLevel

EndScope ==
  /\ Symbol /\ Record.kind \in Ends
  /\ PDB_ASSERT(blockLevel > 0)
  /\ blockLevel' = (blockLevel - 1) % UInt32Range

OpenNested ==
  /\ Symbol /\ Record.kind \in Nested
  /\ blockLevel' = (blockLevel + 1) % UInt32Range
  /\ UNCHANGED failed

OpenProcedure ==
  /\ Symbol /\ Record.kind \in Procedures
  /\ PDB_ASSERT(blockLevel = 0)
  /\ blockLevel' = (blockLevel + 1) % UInt32Range

\* A thunk opens a scope, a trampoline of either kind does not.
OpensScope == Record.kind = "S_THUNK32" /\ Record.thunk # "TrampolineIncremental"

\* Variant: no thunk opens a scope.
PrintThunk ==
  /\ Symbol /\ Record.kind \in Thunks
  /\ PDB_ASSERT(blockLevel = 0)
  /\ UNCHANGED blockLevel

OpenThunk ==
  /\ Symbol /\ Record.kind \in Thunks
  /\ PDB_ASSERT(blockLevel = 0)
  /\ blockLevel' = IF OpensScope THEN (blockLevel + 1) % UInt32Range ELSE blockLevel

PrintRecord ==
  /\ Symbol /\ Record.kind \in Printed
  /\ UNCHANGED <<blockLevel, failed>>

\* "We only care about records inside functions": any other kind there is an error.
IgnoreRecord ==
  /\ Symbol
  /\ Record.kind \notin Procedures \cup Ends \cup Nested \cup Thunks \cup Printed
  /\ PDB_ASSERT(~ (blockLevel > 0))
  /\ UNCHANGED blockLevel

FinishModule ==
  /\ pc = "variable symbols"
  /\ AtEnd
  /\ module' = module + 1
  /\ pc' = "variables"
  /\ UNCHANGED <<symbolStreamVars, program, blockLevel, recordCount, failed>>

Next == \/ SkipModule \/ StartModule \/ FinishModule
        \/ EndScope \/ OpenNested \/ OpenProcedure \/ OpenThunk
        \/ PrintRecord \/ IgnoreRecord

-----------------------------------------------------------------------------

\* A record is printed in as many scopes as are open around it according to the
\* ends the records themselves name, in whatever module, behind whatever scopes.
LevelIsDepth ==
  pc = "variable symbols" => blockLevel = Cardinality(OpenIn(stream, offset))

\* The assertions of the callback: "Block level for S_END is 0", "Block level for
\* S_INLINESITE_END is 0", "BlockLevel %u != 0", "Unhandled record kind": scopes
\* balance, in each module for itself.  That only kinds the callback has a case for
\* are in a scope is taken for granted (SymbolsAssumption); what can fail of the last
\* assertion is a level that is not back to 0 where other kinds come.
AssertsHold == ~ failed

=============================================================================
