SPECIFICATION MCSpec
CONSTANTS
  buyer = buyer
  seller = seller
  arbiter = other
  other = other
  NoAddr = NoAddr
  Addr <- MCAddr
  Foci <- TermsFoci
  MaxEscrows = 3
  MaxTime = 2
  MaxRounds = 1
  MaxRequests = 0
  ResponseWindow = 1
  Schedules <- Halves
  Shares <- Uneven
  Tranches <- Thirds
  MaxCollateral = 120
  Ratios <- Minimum
  Panels <- Approving
  Plans <- Staged
  MaxRejections = 1
  Requests <- AllRequests
  Amounts <- Changes
  Percents <- Verdicts
  Times <- Later
  InitConfig <- Settings
INVARIANT TypeOK RenewalChainBounded WaitingIsRecorded
PROPERTY AmendedOnce
CHECK_DEADLOCK FALSE
