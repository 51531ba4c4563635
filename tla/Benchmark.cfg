\* Megabytes of two units, block sizes 1, 2 and 4 units, sizes that are and
\* are not multiples of them and one whose block count does not fit an int, -r
\* in and out of range, any call may fail, SIGINT at any moment.
CONSTANTS
  Sizes = {1, 3, 9}
  Maxes = {0, 1, 3}
  Repeats = {0, 1, 2, 12}
  MEG = 2
  INT = 16
  Intact = {TRUE, FALSE}
SPECIFICATION Spec
INVARIANTS TypeOK ScratchGone AllButATail
