SPECIFICATION FairSpec
CONSTANTS
  c1 = c1
  c2 = c2
  Clients = {c1, c2}
  Fds = {1, 2, 3}
  Requests <- MCRequests
  Proxied = {c1}
INVARIANT Found
 
CHECK_DEADLOCK FALSE
