SPECIFICATION Spec
CONSTANTS
  Worker = {w1, w2}
  Session <- OneNumber
  NoWorker = none
  MaxVersion = 2
  Job <- OneRow
  Lote = {"auto"}
  Account = {"account"}
  SessionOf <- OneSessionOf
  LoteOf <- OneLoteOf
  Welcome = "welcome"
  High = {}
  Turn <- OneTurn
  AccountOf <- OneAccountOf
  GroupCap = 5
  AccountLimit = 10
  SystemMax = 50
  MaxAttempts = 1
  Threshold = 3
  MaxClaims = 2
  Recovering = {w2}
  Faults = {"lease", "timeout", "overdue", "database"}
INVARIANTS TypeOK
PROPERTIES KeepsPromise
CHECK_DEADLOCK FALSE
