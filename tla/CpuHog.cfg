\* Three hogs, two SIGINTs (the second may hit the handler of the first),
\* fork() may fail for any of them.
CONSTANTS
  KIDS = 3
  ForkMayFail = TRUE
  MaxInts = 2
SPECIFICATION FairSpec
INVARIANTS TypeOK WaitOnlyOnDoomed NothingLeftBehind
PROPERTY InterruptEnds
