SPECIFICATION LiveSpec
CONSTANTS
  buyer = buyer
  seller = seller
  arbiter = arbiter
  other = other
  NoAddr = NoAddr
  Addr <- MCAddr
  Foci <- AnswerFocus
  MaxEscrows = 1
  MaxTime = 4
  MaxRounds = 0
  MaxRequests = 1
  ResponseWindow = 1
  Schedules <- Halves
  Shares <- Uneven
  Tranches <- Thirds
  MaxCollateral = 120
  Ratios <- Minimum
  Panels <- Approving
  Plans <- Staged
  MaxRejections = 1
  Requests <- AllRequests
  Amounts <- Parts
  Percents <- Split
  Times <- Soon
  InitConfig <- Settings
PROPERTY EscalationEnds
CHECK_DEADLOCK FALSE
