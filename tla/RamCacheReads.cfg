SPECIFICATION FairSpec
CONSTANTS
  Readers = {r1, r2}
  Paths = {p}
  Sigs = {s1, s2}
  Gens = {1}
  Bytes <- TwoVersions
  Oversized = {}
  MaxBytes = 2
  MaxEntries = 2
  MaxVersion = 2
INVARIANTS NoMismatchedServe FreshServe
PROPERTY ReadReturns
