\* A device of three blocks of which a fake has two, an int too small for the third
\* block, for three blocks and for the size of two extents (that of three is 0); one
\* change by another process; old blocks of zeros or of junk.
CONSTANTS
  SIZE = 3
  REAL = 2
  LIMIT = 3
  MAXINT = 2
  EXTENT = 2
  Watched = {"good"}
  MaxChanges = 1
SPECIFICATION FileSpec
INVARIANTS FileTypeOK NoFalseAlarm FaultFound MappersExact
