CONSTANTS
  None = None
  Founders = {a1, a2}
  Users = {a1, a2, u1}
  Emails = {e}
  Calls = {c1, c2}
  MaxRequests = 3
  MaxRooms = 2
  Visitors = {a1, a2}
  NewActive = {TRUE}
SPECIFICATION Spec
SYMMETRY Symmetry
INVARIANT TypeOK
INVARIANT NamesDiffer
INVARIANT SomeoneGoverns
PROPERTY ChangesAreMeant
CHECK_DEADLOCK FALSE
