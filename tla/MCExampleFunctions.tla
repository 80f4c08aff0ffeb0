------------------------- MODULE MCExampleFunctions -------------------------
(* Instances of ExampleFunctions for TLC: every way the records of two modules *)
(* can nest, laid out in streams; and every small choice of public symbols and *)
(* contributions for a program of one module or of two.                        *)
EXTENDS ExampleFunctions, SequencesExt

CONSTANTS MaxRecords, MaxRecordsOfSecond,
          Thunk               \* the ordinals of thunks that come up

Leaf(kind) == [kind |-> kind, thunk |-> "none"]
\* What comes inside a function: blocks, inlined calls, and printed records.
Inside[n \in 0 .. MaxRecords] ==
  IF n = 0 THEN {<<>>}
  ELSE {<<Leaf("S_LDATA32")>> \o rest : rest \in Inside[n - 1]}
       \cup UNION { { <<Leaf(scope[1])>> \o body \o <<Leaf(scope[2])>> \o rest :
                        body \in Inside[k], rest \in Inside[n - 2 - k] } :
                    k \in 0 .. (n - 2),
                    scope \in {<<"S_BLOCK32", "S_END">>, <<"S_INLINESITE", "S_INLINESITE_END">>} }
\* What comes in a module: functions, thunks and records between them.
Outside[n \in 0 .. MaxRecords] ==
  IF n = 0 THEN {<<>>}
  ELSE {<<Leaf(kind)>> \o rest : kind \in {"S_BUILDINFO", "S_TRAMPOLINE"},
                                 rest \in Outside[n - 1]}
       \cup UNION { { <<scope>> \o body \o <<Leaf("S_END")>> \o rest :
                        scope \in {Leaf("S_GPROC32")}
                                  \cup {[kind |-> "S_THUNK32", thunk |-> t] : t \in Thunk},
                        body \in Inside[k], rest \in Outside[n - 2 - k] } :
                    k \in 0 .. (n - 2) }
       \cup UNION { { <<Leaf("S_GPROC32"), Leaf("S_FRAMEPROC")>> \o body
                        \o <<Leaf("S_END")>> \o rest :
                        body \in Inside[k], rest \in Outside[n - 3 - k] } :
                    k \in 0 .. (n - 3) }

Ends == {"S_END", "S_INLINESITE_END"}

\* The sizes make a record end on a multiple of four, or two bytes in front of it.
SizeOf(kind) == CASE kind = "S_LDATA32" -> 8 [] kind = "S_GPROC32" -> 6
                  [] kind \in Ends -> 2 [] OTHER -> 10
Starts(records) ==
  LET start[k \in 1 .. (Len(records) + 1)] ==
        IF k = 1 THEN SizeOfSignature
        ELSE ((start[k - 1] + 2 + SizeOf(records[k - 1].kind) + 3) \div 4) * 4
  IN  start

Opens(kind) == kind \in {"S_GPROC32", "S_THUNK32", "S_BLOCK32", "S_INLINESITE"}
\* Number of the record that ends the scope record k opens.
EndOf(records, k) ==
  LET depth[l \in k .. Len(records)] ==
        (IF l = k THEN 0 ELSE depth[l - 1])
          + (IF Opens(records[l].kind) THEN 1 ELSE 0)
          - (IF records[l].kind \in Ends THEN 1 ELSE 0)
  IN  CHOOSE l \in k .. Len(records) : depth[l] = 0 /\ \A i \in k .. (l - 1) : depth[i] > 0

\* A function is put at the offset in its section that its record has in the stream.
StreamFor(records, section) ==
  IF records = <<>> THEN NoSymbolStream ELSE
  LET start == Starts(records)
      At(o) == CHOOSE k \in DOMAIN records : start[k] = o
      ContentOf(k) ==
        LET common == [kind |-> records[k].kind, size |-> SizeOf(records[k].kind)]
            scope == [end |-> start[EndOf(records, k)]]
            code == [section |-> section, offset |-> start[k], codeSize |-> 7]
        IN  CASE records[k].kind = "S_THUNK32" ->
                   common @@ scope @@ code @@ [thunk |-> records[k].thunk]
              [] records[k].kind = "S_GPROC32" -> common @@ scope @@ code
              [] records[k].kind = "S_TRAMPOLINE" ->
                   common @@ [thunkSection |-> section, thunkOffset |-> start[k]]
              [] records[k].kind = "S_LDATA32" -> common @@ code
              [] Opens(records[k].kind) -> common @@ scope
              [] OTHER -> common
  IN  [size |-> start[Len(records) + 1],
       recordAt |-> [o \in {start[k] : k \in DOMAIN records} |-> ContentOf(At(o))]]

Streams(n, section) == {StreamFor(records, section) : records \in UNION {Outside[k] : k \in 0 .. n}}
MCSymbolStreams ==
  (Streams(MaxRecords, 1) \cup Streams(MaxRecords, 2)) \ {NoSymbolStream}

\* The public symbols: two new functions and an alias of the first, one that a
\* module may have, data, one in no section of the image, and no public at all.
\* The global ones: data twice, in no section once, and a type.
Public(section, o, isFunction) ==
  [kind |-> "S_PUB32", section |-> section, offset |-> o, isFunction |-> isFunction]
Global(kind, section, o) == [kind |-> kind, section |-> section, offset |-> o]
SymbolRecords ==
  (0 :> Public(1, 80, TRUE)) @@ (1 :> Public(2, 90, TRUE)) @@ (2 :> Public(1, 80, TRUE))
    @@ (3 :> Public(1, SizeOfSignature, TRUE)) @@ (4 :> Public(1, 84, FALSE))
    @@ (5 :> Public(3, 12, TRUE)) @@ (6 :> [kind |-> "S_CONSTANT"])
    @@ (7 :> Global("S_GDATA32", 1, 84)) @@ (8 :> [kind |-> "S_UDT"])
    @@ (9 :> Global("S_LTHREAD32", 0, 6)) @@ (10 :> Global("S_LDATA32", 2, 60))
GlobalHashRecords == <<9, 11, 10, 8, 7>>
\* The contributions in front of a last public function, at it and behind it, two of
\* a size, and two that have no address.
Contribution(section, o, size, moduleIndex) ==
  [section |-> section, offset |-> o, size |-> size, moduleIndex |-> moduleIndex]
SomeContributions ==
  <<Contribution(0, 80, 1, 0), Contribution(1, 80, 4, 0),
    Contribution(2, 90, 9, 0), Contribution(2, 95, 4, 0), Contribution(5, 1, 2, 0)>>

Program(modules, hashRecords, inOrder) ==
  [modules |-> modules, virtualAddresses |-> <<100, 200>>, symbolRecords |-> SymbolRecords,
   hashRecords |-> hashRecords, globalHashRecords |-> GlobalHashRecords,
   contributions |-> inOrder]

Nestings ==
  {Program(modules, <<4, 1>>, <<Contribution(1, 0, 70, 0), Contribution(2, 0, 60, 1)>>) :
     modules \in Streams(MaxRecords, 1) \X Streams(MaxRecordsOfSecond, 2)}
  \cup
  {Program(modules, <<4, 1>>, <<Contribution(1, 0, 70, 1), Contribution(2, 0, 60, 0)>>) :
     modules \in Streams(MaxRecords, 2) \X Streams(MaxRecordsOfSecond, 1)}
HashRecords == {<<1, 2, 3, 4, 5, 6, 7>>, <<7, 6, 5, 4, 3, 2, 1>>}
               \cup {<<i>> : i \in 1 .. 7}
               \cup {p \in (1 .. 7) \X (1 .. 7) : p[1] # p[2]}
FewModules == {<<s>> : s \in Streams(2, 1)}
PublicsAndContributions ==
  {Program(modules, hashRecords, SelectSeq(SomeContributions, LAMBDA c : c \in known)) :
     modules \in FewModules, hashRecords \in HashRecords,
     known \in SUBSET Range(SomeContributions)}
MCPrograms == Nestings \cup PublicsAndContributions
=============================================================================
