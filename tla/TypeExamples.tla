---------------------------- MODULE TypeExamples ----------------------------
(***************************************************************************)
(* The examples main runs on the records of the two type streams of a      *)
(* file: the IPIStream is constructed first, ExampleTypes goes through the *)
(* TPI stream, and ExampleIPI through the records of the IPIStream, which  *)
(* name types of the TPI stream.  ExampleTPISize, whose call is commented  *)
(* out in main, has the TPI stream to itself.                              *)
(***************************************************************************)
EXTENDS ExampleTPISize

CONSTANTS Files,              \* pairs of the type streams of a file
          IPIStreams

VARIABLES ipiStream, ipiPc, ipiOffset, ipiTypeIndex, ipiRecords,
          strings, index, identifier, ipiLine

ipiVars == <<ipiStream, ipiPc, ipiOffset, ipiTypeIndex, ipiRecords,
             strings, index, identifier, ipiLine>>

IPI == INSTANCE ExampleIPI WITH
         stream <- ipiStream, pc <- ipiPc, offset <- ipiOffset, typeIndex <- ipiTypeIndex,
         m_records <- ipiRecords, line <- ipiLine, table <- stream, TypeContents <- TPIStreams

ASSUME FilesAssumption ==
  /\ \A s \in IPIStreams : IPI!IsIPIStream(s)
  /\ {f.tpi : f \in Files} \subseteq TPIStreams
  /\ {f.ipi : f \in Files} \subseteq IPIStreams

MainInit ==
  \E f \in Files :
    /\ stream = f.tpi /\ ipiStream = f.ipi
    /\ Init
    /\ IPI!Init

CreateIPIStream == IPI!Construct /\ UNCHANGED vars

TypesExample == ipiPc = "ready" /\ Next /\ UNCHANGED ipiVars

IPIExample ==
  /\ Returned /\ example = "ExampleTypes"
  /\ \/ IPI!StartCollecting \/ IPI!Collect
     \/ IPI!StartPrinting \/ IPI!PrintRecord \/ IPI!Finish
  /\ UNCHANGED vars

MainNext == CreateIPIStream \/ TypesExample \/ IPIExample

MainSpec == MainInit /\ [][MainNext]_<<vars, ipiVars>>

-----------------------------------------------------------------------------

\* A type index leads to its IPI record (see IPIStream).
RecordsAreIndexed == IPI!RecordsAreIndexed

\* Every string printed is the one a record names, no type is printed as a format
\* (see ExampleIPI).
StringsAndTypesResolve == IPI!StringsAndTypesResolve

\* The ID printed is the type index, up to the empty lists (see ExampleIPI).
IdentifierNamesRecord == IPI!IdentifierNamesRecord
=============================================================================
