SPECIFICATION Spec
CONSTANTS
  Worker = {w1}
  Session <- TwoNumbers
  NoWorker = none
  MaxVersion = 1
  Job <- TwoRows
  Lote = {"auto"}
  Account = {"account"}
  SessionOf <- TwoSessionOf
  LoteOf <- TwoLoteOf
  Welcome = "welcome"
  High = {}
  Turn <- TwoTurn
  AccountOf <- OneAccountOf
  GroupCap = 5
  AccountLimit = 1
  SystemMax = 50
  MaxAttempts = 2
  Threshold = 1
  MaxClaims = 1
  Recovering = {}
  Faults = {}
INVARIANTS AccountBackpressure
CHECK_DEADLOCK FALSE
