\* Restore: three sectors, the table, one that neither end covers, and one metadata sector at
\* the end.  Fast zero: three sectors, one chunk of two and a shorter last one.  One sector
\* is zero at first, or keeps nothing that is written to it.
CONSTANTS
  RestoreTail = 2
  MaxWeak = 1
  ZeroTail = 2
  ChunkSize = 2
  Boundary = 1
  Table = {0}
  Metadata = {2}
  MaxBlank = 1
  MaxOdd = 1
SPECIFICATION Spec
INVARIANTS
  ReportIsTrue
  ReplacementIsSpared
  ErasureIsOrdered
CHECK_DEADLOCK FALSE
