SPECIFICATION MCSpec
CONSTANTS
  buyer = buyer
  seller = seller
  arbiter = other
  other = other
  NoAddr = NoAddr
  Addr <- MCAddr
  Foci <- PartsFoci
  MaxEscrows = 3
  MaxTime = 3
  MaxRounds = 1
  MaxRequests = 1
  ResponseWindow = 1
  Schedules <- Halves
  Shares <- Uneven
  Tranches <- Thirds
  MaxCollateral = 120
  Ratios <- Minimum
  Panels <- Approving
  Plans <- Staged
  MaxRejections = 1
  Requests <- AllRequests
  Amounts <- Parts
  Percents <- Split
  Times <- Soon
  InitConfig <- Settings
INVARIANT MilestonesAddUp StagesLeaveNothing SubmissionIsSolvers
PROPERTY OnlyKnownStepsUnbalance
CHECK_DEADLOCK FALSE
