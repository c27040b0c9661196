SPECIFICATION FairSpec
CONSTANTS
  BufLen = 3
  IntMax = 4
  Room = 3
  Slow = {FALSE, TRUE}
  MaxUp = 8
  MaxDown = 2
  ClientFds = {8, 70}
  BackendFd = 9
  Word = 64
INVARIANTS RelayInv LiveBytesKept FaithfulWhenTaken
PROPERTIES ClosesDrained IdleWhenDone EndsWithPeer
