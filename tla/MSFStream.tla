----------------------------- MODULE MSFStream -----------------------------
(***************************************************************************)
(* What an MSF stream promises, whatever class implements it: a stream is  *)
(* a contiguous range of bytes although its blocks are scattered over the  *)
(* file, and a read of any part of it, by any number of threads at once,   *)
(* is answered as if it happened in one step.                              *)
(***************************************************************************)
EXTENDS MSFLayout

CONSTANT Readers                 \* threads that hold a reference to the stream

VARIABLES m_blockIndices, m_size,  \* the stream, chosen once
          pending,                 \* pending[r]: r waits for an answer
          size, offset,            \* what r asked for
          answer                   \* what r got

vars == <<m_blockIndices, m_size, pending, size, offset, answer>>

Init ==
  /\ \E s \in Streams : m_blockIndices = s.m_blockIndices /\ m_size = s.m_size
  /\ pending = [r \in Readers |-> FALSE]
  /\ size = [r \in Readers |-> 0]
  /\ offset = [r \in Readers |-> 0]
  /\ answer = [r \in Readers |-> FreshBuffer(0)]

Ask(r, s, o) ==
  /\ ~ pending[r]
  /\ o + s <= m_size
  /\ pending' = [pending EXCEPT ![r] = TRUE]
  /\ size' = [size EXCEPT ![r] = s]
  /\ offset' = [offset EXCEPT ![r] = o]
  /\ answer' = [answer EXCEPT ![r] = FreshBuffer(0)]
  /\ UNCHANGED <<m_blockIndices, m_size>>

Answer(r) ==
  /\ pending[r]
  /\ pending' = [pending EXCEPT ![r] = FALSE]
  /\ answer' = [answer EXCEPT ![r] = Slice(m_blockIndices, offset[r], size[r])]
  /\ UNCHANGED <<m_blockIndices, m_size, size, offset>>

Next == \E r \in Readers :
          \/ \E s, o \in 0 .. m_size : Ask(r, s, o)
          \/ Answer(r)

Spec == Init /\ [][Next]_vars
=============================================================================
