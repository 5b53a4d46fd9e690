\* Two tasks append and navigate, writes fail, the process stops anywhere; the files
\* implement the session tree.
CONSTANTS
  Writers = {w1, w2}
  MaxEntries = 4
  ShortWrites = FALSE
  Moves = TRUE
SPECIFICATION Spec
SYMMETRY WriterSymmetry
INVARIANTS
  Durable
  ForkRooted
PROPERTIES
  ImplementsTree
