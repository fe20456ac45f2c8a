SPECIFICATION Spec
CONSTANTS
  Readers = {r1, r2}
  Paths = {p, q}
  Sigs = {s1}
  Gens = {1}
  Bytes <- ThreeVersions
  Oversized = {3}
  MaxBytes = 2
  MaxEntries = 2
  MaxVersion = 3
INVARIANTS LruMatchesEntries Accounting BudgetRespected
SYMMETRY Symmetry
