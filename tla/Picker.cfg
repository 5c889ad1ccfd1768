\* Two ids and two copies, pages of two entries that a full frame may cut to
\* one, one broadcast on its way at a time, both tabs and one kind filter, a
\* query that one of the copies matches, and a connection that ends and comes
\* back.
CONSTANTS
  Absent = Absent
  None = None
  a = a
  b = b
  MaxId = 2
  MaxTime = 2
  MaxEvents = 1
  Copies <- MCCopies
  Kind <- MCKind
  Kinds = {"link"}
  Hits <- MCHits
  PageSize = 2
  Limited = TRUE
  Typing = TRUE
SPECIFICATION Spec
INVARIANTS
  TypeOK
  RowsTrue
  ListRight
  PageUnderWay
