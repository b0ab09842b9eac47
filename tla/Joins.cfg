CONSTANTS
  host = host   guest = guest
  r1 = r1   r2 = r2
  h1 = h1   g1 = g1   g2 = g2
  None = None
  Users = {host, guest}
  Rooms = {r1}
  Sockets = {g1, g2}
  Pids = {p1, p2}
  Calls = {c1, c2}
  Settings = {}
  HostOf <- MCHostOf
  UserOf <- MCUserOf
  Invited <- MCInvited
  JoinRoles = {"participant"}
  SocketOps = {"join"}
  HttpOps <- HostKicks
  Endable = {}
  MaxCrashes = 0
SPECIFICATION Spec
SYMMETRY Symmetry
INVARIANT DuplicatesNeedARace
PROPERTY LeftStaysLeft
CHECK_DEADLOCK FALSE
