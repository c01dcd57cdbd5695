SPECIFICATION MCSpec
CONSTANTS
  ann = ann
  bob = bob
  cyd = cyd
  dee = dee
  Foci <- AllFoci
  Member <- MCMember
  Founders <- MCFounders
  Orders <- MCOrders
  RoscaCfgs <- MCCfgs
  Score <- MCScore
  Day = 1
  MaxRound = 3
  MaxTime = 5
  MaxRequests = 1
  Windows <- MCSpans
  MaxProposals = 3
  Amounts <- MCAmounts
  Spans <- MCSpans
  Proposable <- ProposalType
  Values <- MCValues
  Sizes <- MCSizes
  Joining <- MCJoining
INVARIANT VotesCounted
PROPERTY PlaceKept RoundPaidOnce
CHECK_DEADLOCK FALSE
