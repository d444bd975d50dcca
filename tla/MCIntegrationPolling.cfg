SPECIFICATION FairSpec
CONSTANTS
  k1 = k1
  k2 = k2
  l1 = l1
  run = run
  Tick = {k1}
  Listen = {l1}
  NoListen = NoListen
  NoRow = NoRow
  MaxPerPoll = 1
  MaxEvents = 2
INVARIANTS TypeOK NothingSkipped
PROPERTIES ActiveKeepsRow EventsArrive
