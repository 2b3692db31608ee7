SPECIFICATION Spec
CONSTANTS
  Recipient = {r1, r2}
  Worker = {w1, w2}
  NoToken = none
  Hook = {h1}
  Limit = 1
  MaxRev = 2
  Reported = {r1}
  Reports = {"failed"}
  MaxFaults = 1
  Faults = {"lost", "database"}
INVARIANT NeverResendable
CHECK_DEADLOCK FALSE
