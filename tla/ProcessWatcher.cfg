\* Three pids for two slots, two samples after the base one, two-bit counters,
\* fresh zero memory, three starts, ticks or exits.
CONSTANTS
  Pids = {1, 2, 3}
  SIZE = 2
  MAX_SAMPLES = 2
  W = 4
  Junk = {0}
  MaxActs = 3
SPECIFICATION FairSpec
INVARIANTS TypeOK OneSlotPerPid DeltasTelescope
PROPERTY ReportsUnlessFull
