SPECIFICATION FairSpec
CONSTANTS
  Lines <- MCLines
  HeaderSize = 2
  MaxGarbage = 1
  Capacity = 5
  MaxSaid = 2
  MaxTold = 0
PROPERTIES
  CommandsAreAnswered
  DisconnectedStopsReceiving
  ClosingClientEnds
  ExitIsNoticed
