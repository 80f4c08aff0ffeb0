----------------------- MODULE MCCoalescedMSFStream -----------------------
(* Instances of CoalescedMSFStream for TLC. *)
EXTENDS CoalescedMSFStream

CONSTANT MaxSize

\* Every stream of up to MaxSize bytes, with every layout over four blocks.
MCStreams == { [m_size |-> n, m_blockIndices |-> f] :
                 n \in 0 .. MaxSize, f \in [0 .. DirectoryWords -> 1 .. 4] }
=============================================================================
