CONSTANTS
  MaxVisits = 2
  MaxPrompts = 3
  MaxToggles = 1
SPECIFICATION Spec
INVARIANT TypeOK
INVARIANT TracksFollowTheSettings
PROPERTY LeavingReleases
CHECK_DEADLOCK FALSE
