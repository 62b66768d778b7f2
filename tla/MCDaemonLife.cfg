SPECIFICATION FairLifeSpec
CONSTANTS
  Process = {p1, p2}
  Nobody = Nobody
  MaxGeneration = 2
  Conn = {c1, c2}
  Thread = {t1, t2}
  Request = {q1}
  Watchdog = Watchdog
  Main = Main
  Nothing = Nothing
INVARIANTS
  LifeTypeOK
  HomeIsExclusive
  OneLoop
  StoreUnderLock
  StaleNoticed
PROPERTIES
  GenerationsIncrease
  HeartbeatRecovers
  LoopsEnd
CHECK_DEADLOCK FALSE
