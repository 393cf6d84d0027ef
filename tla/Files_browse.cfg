SPECIFICATION Spec
CONSTANTS
  Tabs = {t1, t2}
  Ttl = 1
  SweepEvery = 1
  MaxEntries = 1
  FilePaths <- MCFilePaths
  TickRows <- MCTickRows
  Folded <- MCFolded
  MaxHandles = 2
  MaxAsked = 3
  MaxEvents = 1
SYMMETRY Symmetry
INVARIANT PasswordsInv
INVARIANT OnlyOvertakenIsTorn
INVARIANT ArchiveIsWhatIsTicked
CHECK_DEADLOCK FALSE
