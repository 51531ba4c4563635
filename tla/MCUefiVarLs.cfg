\* Two commands at once out of all kinds, from every initial set of variables.
CONSTANTS
  Proc = {p1, p2}
  Name = {"Boot", "BootOrder"}
  Longer <- MCLonger
  Entry <- MCEntry
  Zero = Zero
  Garbage = Garbage
SPECIFICATION Spec
INVARIANT ListsItsEntries
