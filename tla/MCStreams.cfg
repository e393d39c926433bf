SPECIFICATION Spec
CONSTANTS
  host = host
  guest = guest
  Tabs = {host, guest}
  SeatOf <- MCSeatOf
  Conns = {c1, c2, c3}
  NoConn = NoConn
  BotSeats = {}
  Batches = {1}
  MaxEvents = 1
  MaxRoster = 3
  MaxRestarts = 0
  MaxFailedSaves = 0
INVARIANTS
  PresenceIsOpenStreams
  NothingOwedWhenAsleep
SYMMETRY ConnsAlike
CHECK_DEADLOCK FALSE
