CONSTANTS
  NoReq = NoReq
  Req = {r1, r2}
  Kid = {k1, k2}
  NoKid = NoKid
  Genuine = {TRUE}
  Ttl = 1
  ArmTimeout = 1
  MaxTime = 2
SPECIFICATION FairSpec
INVARIANTS
  SingleFlight
  PublishedKeyAccepted
PROPERTIES
  StaleKeyBound
  CacheNeverRegresses
  RequestsDecided
