SPECIFICATION FairSpec
CONSTANTS
  Worker = {w1, w2}
  Session = {s1, s2}
  NoWorker = none
  MaxVersion = 2
  MaxSessionsPerWorker = 2
  MaxCrashes = 0
  Steady = {w1}
PROPERTIES FreeSessionIsLeased
