SPECIFICATION FairSpec
CONSTANTS
  Worker = {w1, w2}
  Session = {s1}
  NoWorker = none
  MaxVersion = 3
  MaxSessionsPerWorker = 2
  MaxCrashes = 1
  Steady = {w1}
INVARIANTS TypeOK Fencing TokenUnshared
PROPERTIES ImplementsContract FreeSessionIsLeased StaleSessionStops
