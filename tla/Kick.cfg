CONSTANTS
  host = host   guest = guest
  r1 = r1   r2 = r2
  h1 = h1   g1 = g1   g2 = g2
  None = None
  Users = {host, guest}
  Rooms = {r1}
  Sockets = {g1, h1}
  Pids = {p1}
  Calls = {c1, c2}
  Settings = {}
  HostOf <- MCHostOf
  UserOf <- MCUserOf
  Invited <- MCInvited
  JoinRoles = {"participant"}
  SocketOps = {"join", "leave", "kick"}
  HttpOps <- NoHttp
  Endable = {}
  MaxCrashes = 0
SPECIFICATION FairSpec
PROPERTY KickEvicts
CHECK_DEADLOCK FALSE
