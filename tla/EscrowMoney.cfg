SPECIFICATION MCSpec
CONSTANTS
  buyer = buyer
  seller = seller
  arbiter = arbiter
  other = other
  NoAddr = NoAddr
  Addr <- MCAddr
  Foci <- MoneyFoci
  MaxEscrows = 1
  MaxTime = 3
  MaxRounds = 1
  MaxRequests = 0
  ResponseWindow = 1
  Schedules <- Halves
  Shares <- Uneven
  Tranches <- Thirds
  MaxCollateral = 120
  Ratios <- Minimum
  Panels <- Approving
  Plans <- Staged
  MaxRejections = 1
  Requests <- AllRequests
  Amounts <- Parts
  Percents <- Verdicts
  Times <- Soon
  InitConfig <- Settings
INVARIANT Backed NothingNegative WaitingIsRecorded FeesCapped
PROPERTY TerminalIsFinal DisputeFreezes VerdictCoolsOff RefundHasGrounds SellerWaits ImplementsCustody
CHECK_DEADLOCK FALSE
