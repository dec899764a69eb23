SPECIFICATION FairSpec
CONSTANTS
  Senders = {closer, s1, s2}
  Impatient = {closer}
  Ttl = 2
  Latency = 1
  NoHash = NoHash
INVARIANTS TypeOK NoRedundantFetch SignsRecentHash WaitsBounded
PROPERTIES EveryCallReturns KeepsPromise
