CONSTANTS
  host = host   guest = guest
  r1 = r1   r2 = r2
  h1 = h1   g1 = g1   g2 = g2
  None = None
  Users = {host, guest}
  Rooms = {r1}
  Sockets = {h1}
  Pids = {p1}
  Calls = {c1, c2}
  Settings = {"mic"}
  HostOf <- MCHostOf
  UserOf <- MCUserOf
  Invited <- MCInvited
  JoinRoles = {"unset"}
  SocketOps = {"join", "moderate", "kick"}
  HttpOps <- GuestNames
  Endable = {}
  MaxCrashes = 0
SPECIFICATION Spec
SYMMETRY Symmetry
INVARIANT TypeOK
PROPERTIES OffUntilAskedOn ChangesAreAuthorised
CHECK_DEADLOCK FALSE
