SPECIFICATION FairSpec
CONSTANTS
  Worker = {w1}
  Session <- OneNumber
  NoWorker = none
  MaxVersion = 1
  Job <- OneRow
  Lote = {"auto"}
  Account = {"account"}
  SessionOf <- OneSessionOf
  LoteOf <- OneLoteOf
  Welcome = "welcome"
  High = {}
  Turn <- OneTurn
  AccountOf <- OneAccountOf
  GroupCap = 5
  AccountLimit = 10
  SystemMax = 50
  MaxAttempts = 2
  Threshold = 1
  MaxClaims = 2
  Recovering = {w1}
  Faults = {"database", "timeout", "crash", "overdue"}
PROPERTIES NothingStuckInFlight
CHECK_DEADLOCK FALSE
