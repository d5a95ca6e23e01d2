CONSTANTS
  Requests <- MCRequests
  XorByte <- MCXor
  MaxRequests = 3
  MaxDamage = 1
SPECIFICATION FairSpec
INVARIANTS
  TypeOK
  InOrderWhenIntact
  Resynchronises
PROPERTIES
  ChannelSpec
  SentIsExecuted
CHECK_DEADLOCK FALSE
