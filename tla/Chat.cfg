CONSTANTS
  Users = {host, g1}
  Host = host
  Calls = {c1, c2}
  Recent = 2
  MaxTexts = 2
  MaxSends = 3
  MaxFaults = 1
SPECIFICATION Spec
SYMMETRY Symmetry
INVARIANT TypeOK
INVARIANT NothingIsMissed
INVARIANT ShownInOrder
INVARIANT SaidOnce
PROPERTY LastWords
CHECK_DEADLOCK FALSE
