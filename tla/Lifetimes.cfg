\* Three variables and two borrowed streams; six addresses are enough for three
\* objects that each own an array and a copy of their data.
CONSTANTS
  Slots = {s1, s2, s3}
  Borrowers = {b1, b2}
  Heap = {h1, h2, h3, h4, h5, h6}
SPECIFICATION ObjectsSpec
SYMMETRY Symmetry
INVARIANTS OwnedExactlyOnce PointersStayInStream StreamsOutliveMoves
