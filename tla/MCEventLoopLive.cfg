SPECIFICATION FairSpec
CONSTANTS
  c1 = c1
  c2 = c2
  c3 = c3
  NoConn = NoConn
  NoNick = NoNick
  Listener = Listener
  Conns <- Conns2
  Fds <- Fds1
  Nicks <- MCNicks
  Lower <- MCLower
  InitialAccounts <- MCAccounts
  Edited <- MCNicks
  MaxInbox = 1
  MaxEvents = 2
PROPERTIES
  MarkedIsSwept
  ClosedPeerIsReleased
