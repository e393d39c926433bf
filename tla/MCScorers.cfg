SPECIFICATION Spec
CONSTANTS
  PlayPool <- MCPlayPool
  ShowPool <- MCShowPool
  MaxSeries = 5
  MaxAsked = 2
  Mine <- MCMine
  Others <- MCOthers
  Scores <- MCScores
  WalkedDeal <- MCWalkedDeal
  MaxGrid = 20
  DealPool <- MCDealPool
  Counted = {1, 6, 11, 15}
  Deck <- MCDeck
  KeepProb <- MCKeepProb
  KeepBase = 10
  WinTable <- MCWinTable
  WinBase = 5
  PegJoint <- MCPegJoint
  HeelsDist <- MCHeelsDist
  OppHandDist <- MCOppHandDist
  Deals <- MCDeals
  TieScale = 10
  WinScale = 100
INVARIANTS
  ScorersAgree
  RepliesAgree
  DiscardsAgree
CHECK_DEADLOCK FALSE
