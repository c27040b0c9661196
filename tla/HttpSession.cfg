SPECIFICATION FairSpec
CONSTANTS
  Requests = 2
  Kinds = {"close", "post", "big", "neg", "auth", "connect"}
  Tickets = {0, 2}
  Auths = {FALSE, TRUE}
  Tunnels = {TRUE}
INVARIANTS AnswersOwnRequest HarmAfterLoss
 
CHECK_DEADLOCK FALSE
