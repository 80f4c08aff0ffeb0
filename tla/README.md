# RawPDB in TLA+

A model of RawPDB, the library that reads Microsoft program databases (PDB files)
from memory, and of the examples in `src/src/Examples`, which are its clients. TLC
checks the modules on small instances; TLAPS proves the properties of the core
modules, of the driver `ExampleMain`, of the examples about functions, symbols and lines and
of the walks through types for every instance. Paths below are relative to `src/src`.

## The system

A PDB file is a small file system (MSF): fixed-size blocks, a super block, a
directory with the size and the block indices of every stream. RawPDB maps the
whole file, keeps pointers into it, and copies as little as possible.

| Component | State it keeps | Operations | What makes it correct |
|---|---|---|---|
| `BitUtil`, `Util` | none | rounding, bit search, block counts, record sizes | masks and shifts equal products and divisions |
| `DirectMSFStream` | pointers to the file and to block indices, sizes | `ReadAtOffset`, block by block | a read returns the stream's bytes and looks up no index of another stream, with any number of readers |
| `CoalescedMSFStream` | a pointer to contiguous data, perhaps a copy it owns | two constructors, `GetDataAtOffset`, moves, destructor | the view is the slice asked for, copied only if the blocks are scattered, freed once |
| `RawFile` | the directory stream it owns, pointers into it, an array of block lists | construction, `CreateMSFStream`, moves, destructor | each stream is given its own block indices |
| `ModuleInfoStream` | array of modules, of estimated length | construction, `FindLinkerModule` | no module behind the array's end, every record found |
| `DBIStream` | header, direct stream | `HasValid...`, `Create...` for six sub-streams | nothing is read that was not found to be there; sub-streams are apart |
| `InfoStream` | two flags, the index of the names stream | construction | it reads what the linker wrote |
| `TPIStream`, `TypeTable` | header; array of record pointers | walk, `GetTypeRecord` | type indices and records are in step |
| `IPIStream` | header, array of record pointers | construction, moves | the same |
| `ModuleSymbolStream`, `ModuleLineStream` | data of one module | `ForEach...` with callbacks | the walk meets every record and nothing else |
| `PublicSymbolStream`, `GlobalSymbolStream`, `SectionContributionStream`, `ImageSectionStream`, `NamesStream`, `SourceFileStream` | pointers into coalesced data | look-ups | a pointer leads to the entry meant |
| Examples | vectors of what they collect | one pass or two over streams | what they print belongs together |

**Interaction.** `main` maps a file, asks one `HasValid...` function after the other
and creates streams. Every stream is created by a `RawFile` or a `DBIStream` from
a `DirectMSFStream`; it borrows the mapping and the block indices of the `RawFile`.
Clients get records through callbacks that run between two steps of a walk. There
is no message, no I/O and no lock.

**What is hard.** Arithmetic at block boundaries. Variable-length records whose
positions are known only by walking. Pointers and ownership under moves. State
that a callback keeps between records (a depth, the function stored last, the
checksums of a module). Lists that name records before or behind them. Early
returns that each have to release the mapping. Concurrent readers: README.md of
the repository promises that streams "can all be read concurrently", without locks or
waits. `PROJECT.json` lists the hazards line by line.

## Modules

### Core: streams and files

- `PDBUtil` – `ConvertSizeToBlockCount`, `ConvertBlockIndexToFileOffset`, and what a
  `memcpy` does to a buffer.
- `BitUtil` – the bit operations of `Foundation/PDB_BitUtil.h`; with `Width = 8` TLC
  evaluates, as an assumption of the run `direct`, that they agree with the divisions
  the other modules use. The `size_t` and `uint32_t` of the code differ from
  this only in the width.
- `MSFBlocks`, `MSFLayout` – where the bytes of a stream are in the file, and the
  streams of an instance. A byte of the file is represented by its own position, so
  that reading the wrong one is always seen.
- `MSFStream` – the abstract stream: a read is asked for, and later answered at once
  with the right bytes.
- `DirectMSFStream` – `ReadAtOffset`, one action per `memcpy`: `CopyInOneGo` for the
  fast path, `CopyRestOfBlock`, `CopyWholeBlock` and `CopyRemainingBytes` for the slow one, one program
  counter per thread. Maps to `MSFStream` with the request as abstract state.
- `CoalescedMSFStream` – `Begin` with the arguments of either constructor, one action per comparison
  of the contiguity check, one per copied block.
- `RawFile` – the constructor in five actions in the order of the code
  (directory indices, directory, stream count, one per stream, end), then
  `CreateMSFStream`. The file is an array of 32-bit words.
- `Lifetimes` – objects that own a buffer and an array (a `RawFile`; an `IPIStream` or
  `ModuleInfoStream` under other field names) in C++ variables: construct, move,
  assign (to itself too), destroy, while borrowed `DirectMSFStream`s point into them. Its
  names (`ObjectsSpec`, `BorrowMSFStream` for `CreateMSFStream`) leave those of `RawFile` free:
  the proofs about both are in `RawFileProofs`.
- `ModuleInfoStream` – one action per record of the walk and per step of the search.

### Records and the examples that read them

In each of these a walk of the library is a component with variables of its own, and the
client's callback is conjoined with its steps.

- `SourceFileStream` extends `ModuleInfoStream`: the source info substream is built for the
  modules that were found, and asked for the files of each.
- `ModuleLineStream`, and `ExampleLines`, which extends it. `IsLineStream` and `IsModule` say
  what the compiler writes: sections and items one behind the other, padded to four bytes,
  the checksum of a block's file at the distance the block gives. `ItemSize` and the rounding are
  the code's own; that they agree with the layout (a checksum's header counted as 8
  bytes instead of 6, a section's size with or without its last padding) is what is checked.
  `Sort` gives each entry a `Place`, the number of entries that come before it, plus one,
  with equal offsets in any order.
- `TypeTable` is the walk of `TPIStream` with the callback of the table. `TypeRecords` says what a
  type record holds, how long each entry of its lists is, and how `GetTypeName`,
  `GetFunctionPrototype` and `GetMethodPrototype` make a name of it.
  `ExampleTypes` goes through all records and, one entry per step, through the fields
  and overloads of each; `ExampleTPISize` passes names along the references.
- `IPIStream` and `ExampleIPI`. `TypeExamples` joins them with the two before: the IPI
  records name types of the TPI stream of the same file.
- `ModuleSymbolStream`, `ImageSectionStream`, and their clients `ExampleContributions`,
  `ExampleSymbols`, `ExampleFunctionSymbols` and `ExampleFunctionVariables`. `ExampleFunctions`
  runs the four one after the other on the same program, as `main` does. A call of
  `std::sort` in these is a step to any sequence with the same elements in order: the code relies on
  nothing else, and elements that compare equal may come out either way.
- `DBIStream` and `InfoStream`, composed in `ExampleMain`, which has `ValidateFile`, every
  early return of `main`, the mapping, and the look-ups of `ExamplePDBSize`, one per step.
  `read` records the last range read of a stream, `substreams` the ranges of the
  sub-streams created, `streamSizes` what `ExamplePDBSize` has put down so far.

Recursion in the code (`GetTypeName` through the records, the traversal of
`ExampleTPISize`) is a recursive function over the type indices, not a recursive operator,
so that proofs about the walks in these modules remain possible.

The `MC...` modules build instances: layouts are computed from small lists of what a
stream contains, as a linker would write them. Definitions marked "Variant" are
plausible errors; they occur in no specification and serve to see that a property
would notice them.

## Runs

| Run | Instance | What it shows |
|---|---|---|
| `direct` | streams up to 5 bytes in blocks of 2 (three block layouts: in order, backwards, shared), every offset and size, 2 threads | bytes copied so far are right (`PrefixWritten`), own indices only, refines `MSFStream`, every read returns |
| `coalesced` | up to 6 bytes in blocks of 2, every placement, both constructors | the view is the slice asked for, no foreign index is compared, every construction ends |
| `raw_file` | up to 3 streams of 0 to 2 blocks and nil streams | the directory's walk gives each stream its indices |
| `module_info` | up to 3 modules, names of every residue, up to 2 files of each | estimate, walk, linker module; a module's files are its own as far as 16 bits count |
| `lifetimes` | 3 variables, 2 borrowers, 6 addresses | no leak, no double free, no stale pointer |
| `lines` | 2 modules, up to 3 sections in every order | layout followed, files resolved, every line once in the order of image sections and addresses with its own piece of code; the code of the modules is in two sections of the image at the same offsets |
| `types` | 3 families of TPI streams: types made of each other, lists of every kind of field and overload, records shared by two classes and a member function; every IPI stream of up to 3 records | type indices lead to their records, names and prototypes are those of the types, lists are walked in step, a name reaches what belongs to it, strings of the IPI stream resolve |
| `functions` | every nesting of up to 5 records and 2 in a second module; every small choice of publics, globals and contributions | the largest contributions are shown, each symbol and function once, the function with its own frame data and out of its own module, depth of scopes |
| `main` | a sound file and all that differ from it in up to two things | reads stay in streams, as far as anything is checked before them, sub-streams are apart, mapping released once, what the linker wrote in the info stream is found |
| `types_vbase`, `lines_columns`, `main_ipi` | as above | the three disagreements below |

**Bounds.** Every case of the code is a relation to a block, word or record boundary:
before, on, behind; first, inner, last. Three blocks have a first, an inner and a
last; blocks of two bytes have an offset of each kind; three records can have a
target before and behind them; two modules show state that is carried over. The
proofs of the core do not depend on these bounds. `UInt32Range`, `Width` and `UInt32`
stand for 32-bit arithmetic with smaller numbers. `UInt16Range` (3 in
`module_info`) is small enough for the indices of source files to wrap; `CountToShow` (2) is
the 20 contributions of the example, with more than 2 to choose from. `BaseLeaves` are
the number formats in a virtual base; `FirstTypeIndex` is the linker's 0x1000. `MaxSize`,
`MaxModules`, `MaxFiles`, `MaxRecords`, `MaxRecordsOfSecond`, `MaxSections`,
`MaxIPIRecords`, `MaxCount`, `DirectoryWords` and the sets of sizes in the `.cfg` files are all
the other bounds there are.

**Deadlock** is checked where the system keeps accepting calls (`direct`,
`coalesced`, `module_info`, `lifetimes`) and switched off where the program returns,
or where a file with no stream at all leaves nothing to ask for (`raw_file`).

**Fairness.** Only a step of a read, or of a construction, that has begun is fair: weak
fairness per thread. README.md of the repository says there are no locks and no
waits, so a thread that is scheduled at all makes progress. No call is ever
forced to be made. The finiteness of the other walks is not stated as liveness.

**Symmetry** is used in `lifetimes` only, over variables, borrowers and addresses,
which the actions do not tell apart; that run has no liveness.

## Proofs

TLAPS checks, for every value of the constants that satisfies the named assumptions:

| Module | Theorems | Inductive invariant and why it is needed |
|---|---|---|
| `DirectMSFStreamProofs` | `TypeCorrect`, `PrefixAlwaysWritten`, `OnlyOwnIndices`, `ReadsAreAtomic` | `IInv` adds, per program counter, how the block index, the bytes left and the length of the prefix are related; without it `PrefixWritten` says nothing of where the next copy goes. The refinement follows with the copies as stutters and the return as the answer. |
| `CoalescedMSFStreamProofs` | `TypeCorrect`, `ViewAlwaysIsSlice`, `OnlyOwnIndices` | adds that the indices compared so far are consecutive and the blocks copied so far are filled in. The lemma `ContiguousBytes` turns consecutive indices into a contiguous slice. |
| `RawFileProofs` | `TypeCorrect`, `DirectoryIsFound`, `AlwaysDisjoint`, `AlwaysInItsBlocks`, `AlwaysReadsItsFile` | adds that the cursor stands where the next stream's indices start and that the lists handed out end there. `AlwaysReadsItsFile` joins it with the reads: what `DirectMSFStream` answers with for a created stream, a `Slice` of its block indices (`ReadsAreAtomic`), is the slice of the stream the linker laid down. It is not the property of a run. |
| `RawFileProofs`, about `Lifetimes` | `OwnershipIsExact`, `PointersNeverLeaveStream`, `BorrowedStreamsStayValid` | `OwnershipInv`: the owners' sets of addresses are disjoint and make up the live ones; borrowers are traced to the variable that holds their file; a variable without an object owns nothing. |
| `ModuleInfoStreamProofs` | `TypeCorrect`, `NoModuleBehindTheEnd`, `AlwaysOnRecords`, `SearchIsRight`, `ModulesStayAsTheyAre`, `ViewsShowOwnFiles` | the offset is the start of record number `m_moduleCount`, and that many records of at least 64 bytes lie in front of it. The view of a module's files follows from the layout of the source info substream and the modules, which no later step changes. |
| `ExampleMainProofs` | `MappingAlwaysReleased`, `InfoStreamAlwaysIsRead`, `SubstreamsAlwaysDisjoint`, `ReadsAlwaysStayInStream` | `MappingInv` ties the mapping to `pc`; `CheckedInv` says for each `pc` what the checks passed so far have established of the file, which is what a later read relies on; `SubstreamsPlaced` that every sub-stream created is one of those the header lays out one behind the other. |
| `ExampleFunctionsProofs` | `WalksStayInModules`, then one theorem for each property of the run `functions` | see below |
| `ExampleLinesProofs` | `WalkMeetsEveryItem`, `EveryFileResolves`, `EveryLineHasItsCode` | see below |
| `TypeExamplesProofs` | `TableIsInStep`, `ReferencesLeadToRecords`, `TypeIndicesNameRecords`, `FollowedTwice`, `FieldsAreInTurn`, `NamesAlwaysResolve`, `NamesAlwaysOfReferences`, `PrototypesHaveOneMarker`, `RecordsAreAlwaysIndexed`, `IdentifiersNameRecords`, `StringsAndTypesAlwaysResolve` | see below |

The proofs about streams each begin with the facts about quotients and remainders that they need.

**The examples about functions** rest on `Walking` (each walk over symbol records is at a
record of its module, or at its end). On top of it come six invariants, each of which says what a
walk has done *so far*, because the properties speak of the end only:

| Invariant | Says | For |
|---|---|---|
| `LevelCounted` | `blockLevel` is the number of scopes open at the record the walk is at, and 0 between modules. A scope's start opens one and its end closes the innermost; this is where the nesting of the scopes comes in. | `LevelIsDepth`, `AssertsHold` |
| `FramesInOwn` | the procedure last passed, if it has an address, is the last element of `functionSymbols`, so that an `S_FRAMEPROC` found now is stored with it. | `FrameProcOfOwnFunction` |
| `AddressesAndSizes` | no function has the address 0, and public ones have no size before `ComputeSizes`. | `LastSizeContributed` |
| `FunctionsCollected` | functions stored and records passed correspond one to one, `seenFunctionRVAs` are their addresses; later, the same with the public ones, and sorted. | `FunctionsComplete` |
| `ContributionsCollected` | the same of contributions; those shown are the first of the sorted ones. | `LargestShown` |
| `SymbolsCollected` | the same of symbols: publics, globals, then records of modules. | `SymbolsComplete`, `FunctionsInOwnContributions` |

**The examples about types** rest on two walks, of the TPI and of the IPI stream: `Walking`
and `IPIWalking` say that each is at the start of the record whose pointer it stores next,
and what it has stored. Then:

| Invariant | Says | For |
|---|---|---|
| `Pending`, `Asked` | the references still to be gone through lead to records in front of the one at hand, or to built-in types; the table was complete when it was last asked. | `TypeIndexNamesRecord` |
| `FollowedAsNamed` | a record without a name was not followed, one with the name of a single type once; only the mark for several allows a second time. The record the loop is at has no name yet, nor has one behind it. | `FollowedTwiceAtMost` |
| `Tagging` | its three parts `Handing`, `Labels` and `Sound` are explained below. | `NamesOfReferences` |
| `Displaying` | the list displayed is one of fields, and the loop is at the start of one or at the end of the list, at a multiple of four; a loop over overloads is in a field that has a list of them, at the start of the next. | `FieldsInTurn` |
| `Printing` | the strings collected are those among the first `index` records, each at its own index; the identifier is the type index less the empty lists passed; the line is that of the record before. | `IdentifierNamesRecord`, `StringsAndTypesResolve` |

That `NextOffset` leads from each field to the end the compiler gave it (`NextIsEnd`) is a case per
kind of field. The lists are of any length: that no two fields start at the same place
(`StartsInOrder`) is shown on the least field that would be out of order, whose existence
(`LeastNatural`) follows from the library's theorem that inclusion orders finite sets well.

`NamesOfReferences` speaks of the end of a search that stops at every record whose name does not
change. What holds on the way is `Handing`: for every reference from record `p` to record `q`, what `p` hands
on, its own name if it is a definition the loop has passed and else the name it was given, has
got to `q` (`Below`: `q` has the same name, or the mark), or the reference is *waiting*. It is waiting
if it is among the pending ones with none in front of it to `p` or a record behind
`p`, so that `p` is not given another name before it is gone through, and if the name on its way is the one
`p` hands on, or any other and `q` has a name already: the second name leaves the mark whatever
it is. This is why a record may be passed over once it has the mark. `Labels` says that each
definition or member function the loop has passed has its name or is about to get it, `Sound` that
nothing is named that nothing refers to. At the end nothing is pending: names have got to all records in reach
(`NamesGoDown`, on the least record that would not hand one on), and no record can have one name when
two refer to it.

Names and texts of types are computed by recursive functions, `Resolve`, `Route` and `Texts`, so
what is proved of them is a statement about one type given those in front
(`NameGoesOn`, `NameIsSound`, `TextIsSpelled`), and `LeastNatural` again for all types: none is the first
the statement fails for. That the recursive functions are defined at all is shown the same way
(`NamesAreFound`, `RoutesAreFound`, `TextsAreFound`): what a type's name or text depends on
is in front of it (`NameOfTypesInFront`, `TextOfTypesInFront`), so a function for the types up to one goes on to
the next. For `OneMarker` a text is *plain*, without marker, or a *format*, with one; `IsSpelled` says
which types have which, and is stronger than the property where the induction needs it: the text
of a method, or of a pointer to one, is plain, because another prototype takes it over as it stands.

**The example about lines** rests on `WalkInv`, the walk of `ModuleLineStream`: it stands on a section,
inside one on an item or at its end, always at a multiple of four, so that rounding an end up
(`RoundedIsPadded`) is the same as padding a length. On top of it:

| Invariant | Says | For |
|---|---|---|
| `ChecksumsInv` | once the walk has come by the section of checksums, `moduleFileChecksumHeader` points behind its header; at the end of the walk it therefore does. | `FilesResolve` |
| `FilesInv` | the file of a line is either `Pending`, and then the offset kept for it leads to the checksum with its name (`FoundAt`), or has that name already; only files of the module at hand are pending. | `FilesResolve` |
| `CoverInv` | before the sort, entry number `i` leads to line number `i`, and both have the address and the size the compiler knew, where the section has one block. | `LinesCoverCode` |

`FilesResolve` speaks of the moments between modules and `LinesCoverCode` of the end only, which
is why neither is inductive. For the sort, `PlacesGrow` and `PlacesTaken` show by counting that
the places are those of the array, each taken by one entry: an order in which nothing is
lost or doubled exists whatever ties there are.

In the other examples sorting is treated by its contract: lemmas such as `ContributionsSorted` carry a one-to-one
correspondence through any permutation.

**Assumptions** are the shapes of the instances: a block size that is a positive number, block
indices that are numbers, streams as the linker writes them (`FilesAssumption`,
`ModuleStreamsAssumption`, `SourceStreamsAssumption`, `SymbolStreamsAssumption`,
`StreamsAssumption`, `SizesFit`, `MainFilesAssumption`), scopes that nest and symbol
records with the fields of their kind (`ScopesAssumption`, `SymbolsAssumption`), in scopes none but
the kinds `ExampleFunctionVariables` has a case for (so that of its assertion "Unhandled record kind"
`AssertsHold` covers only that the level is back to 0 where other kinds come), publics and
contributions that lead to records and modules there are (`ProgramsAssumption`), functions
that lie in the contributions of their own module and contributions listed by address
(`ContributionsAssumption`), line information as the compiler lays it out
(`LineStreamsAssumption`, and the `ProgramsAssumption` of `ExampleLines`: checksums of 0, 16, 20 or 32
bytes, one section of them a module, which the example asserts, a number of its own for
each line to tell it by, and lines that cover the code of a section with one block), type records that name records in front of them
(`TPIStreamsAssumption`, `ContentAssumption`, and `IsIPIStream` of every IPI stream), lists of enumerators
that hold nothing but enumerators and the index of the rest of the list, below 32768 (`IsEnumerated`:
`DisplayEnumerates` takes that index for a number with an empty name), member functions of
classes, structures and unions only, not of the large classes below, no type
called `%s`, `(null)` or `???`, lists of overloads that nothing but a method leads to, and functions
that take and return no arrays, nor pointers to arrays of function pointers (`PassedTypes`), whose missing name the
examples would append. That the loops over a list of fields meet only fields of the list, and so
find only references to records in front, is proved (`FieldsAreReached`,
`ReferencesStayInFront`). TLC evaluates each assumption on its run's instance. `TypeOK` of the core
modules is proved and is therefore no invariant of the runs. Five theorems need more, as
premises of their own, without which the code does not do what they say:

- `ReadsAlwaysStayInStream` needs `KeepsIPIPromise`: a file whose feature codes promise an IPI
  stream has one that holds a header. The run `main_ipi` shows what happens otherwise. That the
  public and the global stream hold the headers read from them, and the DBI stream what its header
  says, is checked nowhere in the code; it is part of `FilesAssumption` (`IsHeaderOf`).
- `FramesStayWithFunctions` needs `FramedFunctionsHaveAddresses`: a procedure without an address
  is not stored, and `ExampleFunctionSymbols.cpp:77` then puts its frame information
  down to the function in front of it.
- `FieldsAreInTurn` needs `VirtualBasesAreNear`: in front of the offset of a virtual base there is no
  kind. The run `types_vbase` shows what happens otherwise.
- `NamesAlwaysResolve` needs `TypesAreSmall`: from 32 KiB on the size of a class, of a union or of one of the
  large classes (`LF_CLASS2` and `LF_STRUCTURE2`, which `GetTypeName` names and nothing
  displays) is a number with a kind in front, and `GetLeafName` takes what is behind the kind for the name.
- `NamesAlwaysOfReferences` needs `TypesAreSmall`, for the names of unions, and
  `UnionsOwnNoFunctions`: `ExampleTypes.cpp:1365` reads the name of a union from the record of the
  member function that asks for it.

**Model-checked only:**

- Liveness (`EveryReadReturns`, `ConstructionEnds`): out of the prover's reach.

## Disagreements with the repository's own words

- `PDB_ModuleLineStream.h:60` takes the pointer to a block's columns at the block's
  own offset, not behind its lines as `PDB_DBITypes.h:865` has them (`lines_columns`).
- `Examples/ExampleMain.cpp:175` creates the IPI stream although `HasValidIPIStream` found
  it too short for its header; the read violates the assertion of
  `PDB_DirectMSFStream.cpp:41` (`main_ipi`).
- `Examples/ExampleTypes.cpp:863` passes over a virtual base with a length that leaves out
  the two bytes of its kind and knows nothing of its numbers. Offsets below 32 KiB are
  saved by the rounding; otherwise the walk goes on inside the field and the assertion
  at line 661 fails (`types_vbase`).

Others were seen and have no run, because no statement of the repository says otherwise
or because the files in question are not among the instances:

- Look-ups: the identifier of `ExampleIPI.cpp:110` falls behind after an empty list, and
  line 113 looks the first string up without the comparison with 0 the others get;
  `ExampleTypeTable.h:26` lets `typeIndexEnd` through, which `PDB_TPIStream.h:37` calls the
  last type; `PDB_DirectMSFStream.cpp:48` looks an index up even to read zero bytes;
  `PDB_SourceFileStream.h:37` starts at a 16-bit index, so that the files of modules
  behind the first 65536 are those of others (`FilesOfOwnModule` says so in its premise).
- `ExampleFunctionSymbols.cpp:77` stores frame information with the function added last, which
  is another one if that of the procedure at hand has no address and was not added.
- `ExampleLines.cpp:113` stores the first line of a later block at the section's start.
- Names in `ExampleTypes.cpp`: an argument behind a pointer to a function keeps the
  `underlyingType` of the one before if its own is built-in (443); an argument has one `*`
  whatever its level (459); a pointer to a modified type forgets which record it is (304).
- Fields in `ExampleTypes.cpp`: the list an `LF_INDEX` continues in is not followed (868),
  offsets are read as `uint16_t` (680), and of a value with a kind in front the kind is
  printed (990).
- `ExampleTPISize`: the name of a union is read from the member function's own record
  (1365), and member functions reached through a list are renamed `!!!` by their own
  visit (1373).
- Data cut off in the middle of a record is read past its end
  (`PDB_ModuleInfoStream.cpp:132`, `PDB_InfoStream.cpp:78`, `PDB_DBIStream.cpp:186`); such
  files are damaged, which the library does not claim to notice.

`PROJECT.json` lists those of them that a test would hardly reach among the hazards, and
the properties say where they leave them out.

## What is not modelled

- Contents of a damaged file beyond the checks the code makes: the library trusts the
  linker, so instances are files as linkers write them, short streams where the
  code checks for them.
- Text: names are values, a prototype is a sequence of the names in it with a mark where its
  marker stands; the wording of what is printed is left out, and so are the sort and the
  print-out of `ExamplePDBSize`.
- `ModuleSymbolStream::FindRecord`, `GetParentRecord` and `GetEndRecord` (nothing in the
  repository calls them); the disabled print-out of `ExampleLines`; the members that are
  one field's getter.
- The move operations of `IPIStream`, `TPIStream` and `ModuleInfoStream` beyond the pattern in
  `Lifetimes`, in particular the header that stays in an `IPIStream` moved from.
- `NamesStream` beyond its index and the use of its offsets: it keeps two pointers.
- The operating system's mapping, timing, build files, assertion and logging macros.

## Plan

Done, in this order: `PDBUtil`, `MSFStream`, `DirectMSFStream`, `CoalescedMSFStream`,
`RawFile`, `ModuleInfoStream`, `Lifetimes` with their proofs; the record streams with
their examples; `DBIStream`, `InfoStream` and `ExampleMain`; then the types
(`TypeRecords`, `ExampleTypes`, joined with `ExampleIPI`), `ExampleContributions` and
`ExampleSymbols` in `ExampleFunctions`, `SourceFileStream`, and `ExamplePDBSize` in `ExampleMain`;
the proofs about `SourceFileStream`, `ExampleMain`, `ExampleFunctions`, `TypeExamples` and `ExampleLines`.

Left: the liveness properties, which are model-checked only, and the components listed above as
partly or not modelled.
