SPECIFICATION FairSpec
CONSTANTS
  Procs = {p1, p2}
  Descriptions = {tea}
  Inodes = {i1, i2, i3, i4, i5, i6}
  MaxRuns = 4
  None = none
INVARIANTS
  TypeOK
  WholeUnlessOverlapped
  RenameSucceedsUnlessOverlapped
  OpenNeverFails
PROPERTIES
  UpdatesInIsolation
  CommandsFinish
\* After MaxRuns commands there is nothing left to do.
CHECK_DEADLOCK FALSE
