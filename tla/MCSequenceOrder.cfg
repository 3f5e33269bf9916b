\* Three sequences of up to three nodes, six in all: two of three, or three of
\* two, which a cycle may need together.
SPECIFICATION Spec
CONSTANTS
  a = a
  b = b
  c = c
  Nodes = {a, b, c}
  NumSeqs = 3
  MaxLen = 3
  MaxTotal = 6
  MaxSelected = 3
  NoNode = NoNode
SYMMETRY NodeSymmetry
INVARIANTS OrderRespected ResultIsSpecified
