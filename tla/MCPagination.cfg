\* Up to five rows, in pages of one to three.  The bounds of NormalizePageSize
\* are small so that a listing takes several pages.
CONSTANTS
  Ids = {1, 2, 3, 4, 5}
  PageSizes <- MCPageSizes
  DefaultPageSize = 2
  MaxPageSize = 3
SPECIFICATION PaginationFairSpec
INVARIANTS PaginationTypeOK Complete NoRowTwice
PROPERTIES Terminates
\* Once all is listed and deleted, nothing is left to do.
CHECK_DEADLOCK FALSE
