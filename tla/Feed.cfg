CONSTANTS
  host = host   guest = guest   s1 = s1   s2 = s2
  Members = {host, s1}
  Hosts = {host}
  Spectators = {s1}
  Calls = {c1, c2}
  Fields = {"layout", "command"}
  Command = "command"
  Patches <- MCPatches
  MaxEdits = 1
  MaxTries = 2
SPECIFICATION FairSpec
INVARIANT TypeOK
INVARIANT Synced
INVARIANT BroadcastScenesMoveOn
INVARIANT CommandsRunOnce
INVARIANT CountIsTrueInOrder
PROPERTY FollowsTheBoard
PROPERTY EverySceneArrives
CHECK_DEADLOCK FALSE
