SPECIFICATION MCSpec
CONSTANTS
  Names <- MCNames
  Emails <- MCEmails
  Texts <- MCTexts
  SessionTTL = 2
  ResetTTL = 1
  MaxId = 5
  MaxNow = 2
  Games = {g1, g2}
  Accounts = {ann, bob}
  Guest = Guest
  NULL = NULL
  Target = 10
  Outcomes <- MCOutcomes
  Attempts = 2
  ListLimit = 1
SYMMETRY Interchangeable
INVARIANTS
  SameAnswers
  HistoryAddsUp
  PathsAgree
CHECK_DEADLOCK FALSE
