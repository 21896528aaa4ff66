SPECIFICATION Spec
CONSTANTS
  c1 = c1
  c2 = c2
  c3 = c3
  NoConn = NoConn
  NoNick = NoNick
  Listener = Listener
  Conns <- Conns3
  Fds <- Fds2
  Nicks <- MCNicks
  Lower <- MCLower
  InitialAccounts <- MCAccounts
  Edited <- NoEdits
  MaxInbox = 1
  MaxEvents = 2
SYMMETRY ConnSymmetry
INVARIANTS
  TypeOK
  NoLostEdge
  NoSilentDeparture
