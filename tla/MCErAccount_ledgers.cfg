SPECIFICATION Spec
CONSTANTS
  Data = {0, 1, 2}
  Zero = 0
  MaxCommits = 3
  MaxRequests = 2
  NoAccount = NoAccount
INVARIANTS
  TypeOK
  LockedIsFinal
  CommittedWasHeld
  LastWriteStands
