SPECIFICATION Spec
CONSTANTS
  Profiles <- MCProfiles
  Word = 65536
  MaxOffers = 6
  Balances <- MCBalances
  Amount = 1
  Default = 2
  MaxRuns = 2
CHECK_DEADLOCK FALSE
INVARIANTS
  OneNonceStream
  ReadyMeansReady
  PaidOnce
  EndHasReason
  OffersAsConfigured
  SendersArePaid
  OffersExecute
PROPERTIES
  StartupEnds
