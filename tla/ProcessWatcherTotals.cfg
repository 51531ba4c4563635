\* One process that uses system time between two samples.
CONSTANTS
  Pids = {1}
  SIZE = 1
  MAX_SAMPLES = 1
  W = 4
  Junk = {0}
  MaxActs = 2
SPECIFICATION Spec
INVARIANT TotalsAreSums
