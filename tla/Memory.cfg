\* Sessions grow, move, vanish and cannot be read, also while a refresh runs, and a
\* refresh may be stopped.  The summary takes one of two texts of a category.
SPECIFICATION Spec
CONSTANTS
  t1 = t1
  t2 = t2
  Sessions = {s1, s2}
  Texts <- MCTexts
  Categories = {1}
  CategoryOf <- MCCategoryOf
  Unreadable = {s1, s2}
  Refreshers = {r1}
  MaxRecords = 3
  Caps <- MCCaps
  Room = 2
  MaxEntries = 3
  MaxRefreshes = 2
  MaxStops = 1
SYMMETRY Symmetry
INVARIANTS
  ReusesUnchanged
  SettledAgree
  Remembers
CHECK_DEADLOCK FALSE
