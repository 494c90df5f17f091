\* Four names on pages of two, one of them no dial policy's.
CONSTANTS
  Names = {1, 2, 3, 4}
  Undialed = {2}
  PageSize = 2
  MaxWrites = 2
  MaxFaults = 1
SPECIFICATION SweepSpec
INVARIANTS QuietSweepClears
PROPERTIES SweepTakesListedOrphans OrphansGo
