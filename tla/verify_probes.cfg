SPECIFICATION FairSpec
CONSTANTS
  Grace = 3
  Nap = 3
  Lag = 2
INVARIANTS
  TypeOK
PROPERTIES
  PollEventsNeedSlowReply
  MissingNeedsChurn
  ProbesEnd
