SPECIFICATION StoreSpec
CONSTANTS
  pw = pw
  NoPw = NoPw
  Spellings <- MCSpellings
  Users <- MCUsers
  GroupNames <- MCGroupNames
  Lower <- MCLower
  Passwords <- MCPasswords
  NoPassword <- NoPw
  Unencodable <- MCUnencodable
  DiskFails = TRUE
INVARIANTS
  StoreTypeOK
  OrderlyStopKeepsGroups
  KillLosesThisRunOnly
  RestoredGroupsAreSound
CONSTRAINT OnlyGoIsPrivate
