CONSTANTS
  host = host   guest = guest
  r1 = r1   r2 = r2
  h1 = h1   g1 = g1   g2 = g2
  None = None
  Users = {host, guest}
  Rooms = {r1, r2}
  Sockets = {g1, g2}
  Pids = {p1, p2}
  Calls = {c1}
  Settings = {}
  HostOf <- MCHostOf
  UserOf <- MCUserOf
  Invited <- MCInvited
  JoinRoles = {"spectator"}
  SocketOps = {"join", "leave"}
  HttpOps <- HostKicks
  Endable = {r1}
  MaxCrashes = 1
SPECIFICATION FairSpec
INVARIANT OnlyAdmittedListen
PROPERTY EndedRoomStaysDrained
PROPERTY DropClosesRow
CHECK_DEADLOCK FALSE
