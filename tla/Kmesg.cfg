\* Two instances on one file, a buffer smaller than the ring (prefixes make
\* the text longer than the records), five units, two kills.
CONSTANTS
  Reader = {k1, k2}
  RING = 3
  BUF = 2
  MaxUnits = 5
  MaxKills = 2
SPECIFICATION FairSpec
INVARIANTS TypeOK Conserved
PROPERTIES IsLossyLog Drains
