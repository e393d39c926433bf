SPECIFICATION FairSpec
CONSTANTS
  host = host
  guest = guest
  Tabs = {host}
  SeatOf <- MCSeatOf
  Conns = {c1, c2}
  NoConn = NoConn
  BotSeats = {}
  Batches = {1}
  MaxEvents = 2
  MaxRoster = 1
  MaxRestarts = 1
  MaxFailedSaves = 0
INVARIANT SeenIsLogged
PROPERTIES
  Delivers
  EventsReachTabs
CHECK_DEADLOCK FALSE
