SPECIFICATION FairSpec
CONSTANTS
  MaxVer = 4
  MaxDrops = 1
  MaxFailures = 1
  MaxFlips = 3
  MaxReloads = 1
  MaxElsewhere = 1
INVARIANT PromptedInTurn
PROPERTIES ShownInOrder MyTurnIsPrompted EndIsShownToBoth
CHECK_DEADLOCK FALSE
