SPECIFICATION Spec
CONSTANTS
  BufLen = 3
  IntMax = 31
  Room = 2
  Slow = {TRUE}
  MaxUp = 6
  MaxDown = 1
  ClientFds = {8}
  BackendFd = 9
  Word = 64
INVARIANT Faithful
