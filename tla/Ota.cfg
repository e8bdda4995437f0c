SPECIFICATION FairSpec
CONSTANTS
  MaxNetworks = 2
  Cancellers = {"routine", "shell", "timer"}
INVARIANTS SessionNotTorn IdleIsHome
PROPERTY FinishEnds
