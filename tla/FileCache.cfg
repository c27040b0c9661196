SPECIFICATION FairSpec
CONSTANTS
  Threads = {t1, t2}
  NFiles = 2
  MaxRequests = 2
  MaxVersions = 2
  Lengths = {1, 3}
  Single = 2
  Total = 1
INVARIANTS CacheAccounts SentFromLive
PROPERTIES RevalidatedIsCurrent Answered
