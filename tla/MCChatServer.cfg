SPECIFICATION ChatSpec
CONSTANTS
  c1 = c1
  c2 = c2
  c3 = c3
  NoPw = NoPw
  NoConn = NoConn
  NoNick = NoNick
  Conns <- MCConns
  Fds <- MCFds
  Nicks <- MCNicks
  Lower <- MCLower
  InitialAccounts <- MCAccounts
  GroupNames <- MCGroupNames
  Passwords = {}
  NoPassword <- NoPw
SYMMETRY ConnSymmetry
INVARIANTS
  FdTableAgrees
  SessionOfItsConnection
  AdminAsGranted
  UniqueNicknames
  ChatTypeOK
  MailReachesItsReaders
  MembersHaveAccounts
PROPERTIES
  GroupMailStaysInside
  ImplementsGroups
CONSTRAINT OnlyWhatMattersHere
