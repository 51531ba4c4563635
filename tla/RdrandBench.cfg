\* Three processors: a leader and up to two helpers, two batches of work,
\* thread creation may fail.
CONSTANTS
  CPUS = 3
  Quota = 2
  MaxBatch = 2
  CreateMayFail = TRUE
SPECIFICATION FairSpec
INVARIANTS TypeOK StartTogether RowsMeasured
PROPERTY EndsIfOnTime
