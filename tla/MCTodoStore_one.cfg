SPECIFICATION SpecDisk
CONSTANTS
  Procs = {p1}
  Descriptions = {tea}
  Inodes = {i1, i2, i3, i4, i5}
  MaxRuns = 4
  None = none
INVARIANTS
  MainWhole
  IdsConsecutive
PROPERTIES
  ImplementsTodoList
\* After MaxRuns commands there is nothing left to do.
CHECK_DEADLOCK FALSE
