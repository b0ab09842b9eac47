CONSTANTS
  Pages = {a, b}
  None = None
SPECIFICATION Spec
SYMMETRY Symmetry
INVARIANT TypeOK
INVARIANT SettledPagesAreLinked
INVARIANT OneEndIsReachable
INVARIANT CandidatesAreTimely
INVARIANT HeardUnlessEarly
CHECK_DEADLOCK FALSE
