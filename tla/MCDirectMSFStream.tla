------------------------ MODULE MCDirectMSFStream ------------------------
(* Instances of DirectMSFStream for TLC. *)
EXTENDS DirectMSFStream, BitUtil

CONSTANT MaxSize

\* A stream stored backwards, one stored in order and one that uses a block twice.
Layouts == { [i \in 0 .. DirectoryWords |-> 5 - i],
             [i \in 0 .. DirectoryWords |-> 1 + i],
             [i \in 0 .. DirectoryWords |-> 1 + (i % 2)] }

MCStreams == { [m_size |-> n, m_blockIndices |-> f] : n \in 0 .. MaxSize, f \in Layouts }
=============================================================================
