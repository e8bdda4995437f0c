SPECIFICATION Spec
CONSTANTS
  Run = Run  Wait = Wait  NoCommand = NoCommand
  NSlots = 2
  IdMax = 2
  Requests <- pair
  States = {Run, Wait}
  MaxTime = 5
  MaxJobs = 3
INVARIANTS TypeOK StopsAtItsLimit NeverAheadOfTime NothingIsSavedUp IdsTellJobsApart
PROPERTY FiresOnEveryEntry
CONSTRAINT EarlySaves
