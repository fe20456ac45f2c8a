SPECIFICATION MountSpec
CONSTANTS
  p = p
  s1 = s1
  s2 = s2
  Readers = {r1}
  Paths = {p}
  Sigs = {s1, s2}
  Gens = {1, 2, 3, 4}
  Bytes <- TwoVersions
  Oversized = {2}
  MaxBytes = 1
  MaxEntries = 2
  MaxVersion = 2
  Rules <- AllFaces
INVARIANTS RevokedOnReload MaskedByCurrentRules
