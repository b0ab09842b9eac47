CONSTANTS
  host = host   g1 = g1   g2 = g2
  Members = {host, g1}
  Hosts = {host}
  Fragile = {host}
  Calls = {c1, c2}
  MaxChanges = 2
SPECIFICATION Spec
SYMMETRY Symmetry
INVARIANT TypeOK
 
INVARIANT MeIsTrue
CHECK_DEADLOCK FALSE
