\* Three minors of which one exists at the start, up to two devices bound,
\* three steps of other processes.
CONSTANTS
  Dev = {0, 1, 2}
  Present = {0}
  MAX_LOOP = 2
  MaxActs = 3
SPECIFICATION FairSpec
INVARIANTS TypeOK LeftoversMatch
PROPERTIES OthersKeepTheirs ReturnsUnlessWedged
