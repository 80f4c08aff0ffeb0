----------------------------- MODULE MSFLayout -----------------------------
(***************************************************************************)
(* The streams a file may hold, for the modules about one stream: its size *)
(* and the words of the stream directory its block indices are part of.    *)
(***************************************************************************)
EXTENDS MSFBlocks

CONSTANTS DirectoryWords, \* words of the directory reachable behind m_blockIndices
          Streams         \* the streams a file may hold

ASSUME DirectoryAssumption == DirectoryWords \in Nat

\* A stream's block indices are a part of the stream directory: the words
\* behind its own indices are those of the next streams.
ASSUME StreamsAssumption ==
  \A s \in Streams : /\ s.m_size \in Nat
                     /\ s.m_blockIndices \in [0 .. DirectoryWords -> Nat]
                     /\ ConvertSizeToBlockCount(s.m_size, BlockSize) <= DirectoryWords
=============================================================================
