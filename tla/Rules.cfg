SPECIFICATION Spec
CONSTANTS
  DirOrder <- MCDirOrder
  Entries <- MCEntries
  Contents <- MCContents
  Builtins <- MCBuiltins
  NoFile <- MCNoFile
  MaxEdits = 3
INVARIANTS GlobalFloor HiddenSubtree PoisonHides GlobsAgreeWithGit PoisonReported LintSound
CHECK_DEADLOCK FALSE
