SPECIFICATION MailboxSpec
CONSTANTS
  Senders = {a, b, c}
  Capacity = 1
  MaxSends = 1
  MaxWakers = 4
INVARIANT NoStandstill
CHECK_DEADLOCK FALSE
