SPECIFICATION Spec
CONSTANTS
  Lines <- MCLines
  HeaderSize = 2
  MaxGarbage = 1
  Capacity = 5
  MaxSaid = 2
  MaxTold = 1
INVARIANTS
  ConversationTypeOK
  HandledInOrder
  PrintedInOrder
  QuietMeansAnswered
  ToldInOrder
PROPERTY
  ImplementsExchange
