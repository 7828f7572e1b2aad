\* Three jobs for two slots: every job may be delayed, run again after a crash,
\* find its own old key or another's, and lose its key to the time to live.
CONSTANTS
  Job = {j1, j2, j3}
  Nobody = Nobody
  SlotCount = 2
  Workers = 3
  MaxTries = 1
  MaxCrashes = 1
SPECIFICATION FairSpec
INVARIANTS TypeOK HolderOwns NothingLeaked
PROPERTIES EveryJobDone ImplementsSemaphore
CHECK_DEADLOCK FALSE
