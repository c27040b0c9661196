SPECIFICATION FairSpec
CONSTANTS
  N = 2
  Pids = {p1, p2, p3}
  Clients = {c1}
  QueueMax = 2
  Prestarts = {FALSE, TRUE}
  Round = FALSE
  Crashes = 1
  Reloads = 1
INVARIANTS MasterInv OneWorkerPerSlot ReloadReaches
PROPERTIES DroppedOnlyWithoutWorker ServiceStops
