SPECIFICATION GroupsSpec
CONSTANTS
  pw = pw
  NoPw = NoPw
  Spellings <- MCSpellings
  Users <- MCUsers
  GroupNames <- MCGroupNames
  Lower <- MCLower
  Passwords <- MCPasswords
  NoPassword <- NoPw
INVARIANTS
  GroupsTypeOK
  OwnerIsMember
  BannedAreOut
PROPERTIES
  EndsWithItsOwner
  ChangesAreAnnounced
  MessagesStayInside
  ImplementsRoles
