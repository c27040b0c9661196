SPECIFICATION Spec
CONSTANTS
  s1 = s1
  s2 = s2
  Sessions = {s1, s2}
  Asks <- MCAsks
  Keeping = {s1}
  Inet = {"fcgi"}
  Requests = 2
  Fds = {1, 2, 3, 4, 5}
  Faults = 1
INVARIANTS AnswersWhole OpenForSomebody
CHECK_DEADLOCK FALSE
