SPECIFICATION Spec
CONSTANTS
  Parts = {"events", "relay", "session", "offer", "pilot", "media", "tokens", "account", "silence", "batch"}
  p = p
  l = l
  c1 = c1
  c2 = c2
  c3 = c3
  Purchase <- OnePurchase
  Lead <- OneLead
  Click <- ThreeClicks
  About <- ThreeAbout
  Function = {f1, f2}
  NoEvent = none
  MaxSteps = 2
  ByDelay = {2}
  MaxExtra = 1
  MaxRetries = 1
  MaxFaults = 1
  Payload = {e1}
  Runner = {u1, u2}
  NoPayload = none
  MaxAttempts = 3
  MaxDeaths = 2
  Saver = {s1, s2}
  Clear = clear
  MaxVersion = 2
  MaxFailures = 3
  wa = wa
  wb = wb
  a1 = a1
  a2 = a2
  b1 = b1
  Worker <- TwoWorkers
  Run <- ThreeRuns
  Owner <- ThreeOwner
  NoWorker = none
  MaxToggles = 2
  MaxSetbacks = 1
  MaxOffers = 2
  Group = {g1, g2}
  MaxOpen = 2
  Again = {2}
  Slots = 1
  MaxRequests = 3
  Job = {j1, j2}
  Collector = {k1, k2}
  Caller = {q1, q2}
  NoCaller = none
  MaxTokens = 2
  rs = rs
  rx = rx
  ro = ro
  ra = ra
  key = key
  sub = sub
  Request <- FourRequests
  Kind <- FourKind
  Key <- FourKey
  Sub <- FourSub
  NoAccount = none
  NoSub = nosub
  MaxErrors = 1
  MaxIncidents = 2
  MaxTroubles = 1
  Row = {x1, x2}
  Teller = {t1, t2}
  MaxMishaps = 1
CONSTRAINT Judged
INVARIANTS
  TypeOK FollowedOnce AnsweredOnce DoneIsTrue NoExtraAttempt LogoutForgets ConnectedIsOpen
  ConvertedOrAllowed SlotBound WaitingIsAsked SlotReleased MediaKept NeverSpent OwnerEnters
  ResolvedWithItsSilence AgreesWithItsRows
PROPERTIES DelaySettles RelaySettles OlderNeverWins OfferSettles
CHECK_DEADLOCK FALSE
