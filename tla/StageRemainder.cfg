SPECIFICATION MCSpec
CONSTANTS
  buyer = buyer
  seller = seller
  arbiter = arbiter
  other = other
  NoAddr = NoAddr
  Addr <- MCAddr
  Foci <- StageFocus
  MaxEscrows = 2
  MaxTime = 1
  MaxRounds = 0
  MaxRequests = 0
  ResponseWindow = 1
  Schedules <- Halves
  Shares <- Uneven
  Tranches <- Thirds
  MaxCollateral = 120
  Ratios <- Minimum
  Panels <- Approving
  Plans <- Staged
  MaxRejections = 1
  Requests <- AllRequests
  Amounts <- Parts
  Percents <- Split
  Times <- Soon
  InitConfig <- Settings
INVARIANT StagesPayDeposit
CHECK_DEADLOCK FALSE
