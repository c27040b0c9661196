SPECIFICATION FairSpec
CONSTANTS
  Threads = {t1, t2}
  MaxSessions = 3
  MaxThreads = 1
  Step = 1
INVARIANTS PoolAccounts TokensMatchQueue StrandedOnlyWithoutThread
  UnusedWhenDestroyed
PROPERTIES LeakStopsService HandoffSpec EventuallyServed PoolStops
