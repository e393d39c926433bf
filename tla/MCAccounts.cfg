SPECIFICATION MCSpec
CONSTANTS
  q1 = q1
  q2 = q2
  Reqs = {q1, q2}
  Usernames <- MCUsernames
  Addresses <- MCAddresses
  SessionTTL = 1
  ResetTTL = 1
  MaxFresh = 5
  MaxNow = 2
  MaxFaults = 1
  Keys = {k1, k2}
  Limit = 2
  Window = 2
  Closed = Closed
  MaxTime = 4
  MaxCount = 3
SYMMETRY Interchangeable
INVARIANTS ResetEndsOldLogins MailedLinksWork
PROPERTY KeepsPromise
CHECK_DEADLOCK FALSE
