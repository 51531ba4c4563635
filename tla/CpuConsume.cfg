\* Three children, two SIGINTs to the parent or to the group; calloc and
\* fork may fail.
CONSTANTS
  TASKS = 3
  MayFail = TRUE
  MaxInts = 2
  SAMPLES = 5
  WINDOW = 2
  Width = 4
  Uptime = 5
SPECIFICATION FairSpec
INVARIANTS TypeOK OneOrphanAtMost
PROPERTIES Ends CtrlCClears
