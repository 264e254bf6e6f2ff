CONSTANTS
  Clients = {c1, c2}
  WriteTimeout = 1
  ReadTimeout = 2
SPECIFICATION Spec
INVARIANT TypeOK
INVARIANT IInv
PROPERTY WholeReplyDelivered
PROPERTY OnlyWholeReplies
PROPERTY DeadlineIsFinal
PROPERTY CommandAnswered
PROPERTY ImplementsExchange
