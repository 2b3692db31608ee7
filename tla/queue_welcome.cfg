SPECIFICATION Spec
CONSTANTS
  Worker = {w1}
  Session <- OneNumber
  NoWorker = none
  MaxVersion = 1
  Job <- LaneRows
  Lote = {"auto", "manual"}
  Account = {"account"}
  SessionOf <- LaneSessionOf
  LoteOf <- LaneLoteOf
  Welcome = "welcome"
  High = {"m"}
  Turn <- LaneTurn
  AccountOf <- OneAccountOf
  GroupCap = 2
  AccountLimit = 10
  SystemMax = 50
  MaxAttempts = 2
  Threshold = 1
  MaxClaims = 1
  Recovering = {}
  Faults = {}
PROPERTIES WelcomeFirst
CHECK_DEADLOCK FALSE
