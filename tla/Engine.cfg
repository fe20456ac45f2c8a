\* Three callers on a two-level tree: Resolve's memo against Reloads and swaps,
\* and, with two calls, edits and directories that cannot be read.
SPECIFICATION Spec
CONSTANTS
  Callers = {c1, c2, c3}
  Dirs <- MCDirs
  Root = "root"
  GlobalDir = "global"
  Keys <- MCKeys
  Chain <- MCChain
  LoadOrder <- MCLoadOrder
  CacheMax = 1
  WalkMayFail = TRUE
  MaxCalls = 4
  MaxEdits = 1
SYMMETRY CallerSymmetry
CONSTRAINT Corners
INVARIANTS TypeOK CacheFresh NoStaleServe
INVARIANTS EditsNoticed OpenSeesEdits
