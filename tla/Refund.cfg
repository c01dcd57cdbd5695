SPECIFICATION LiveSpec
CONSTANTS
  customer = customer
  shop = shop
  admin = admin
  usdc = usdc
  euro = euro
  self = self
  holder = holder
  whale = whale
  Foci <- AllFoci
  Token <- MCTokens
  Contract <- MCContracts
  Voters <- MCVoters
  Stake <- MCStake
  Spans <- MCSpans
  Volumes <- MCVolumes
  MaxProposals = 1
  MaxTime = 5
  ListingRules <- MCRules
  Customers <- MCCustomers
  Merchants <- MCMerchants
  Admin = admin
  Payment <- MCPayment
  Self = self
  ReserveToken = usdc
  MaxRefunds = 2
  MaxExtensions = 1
  MaxFraud = 3
  MaxAbuse = 30
  RefundCfg <- Defaults
  RefundCfgs <- MCCfgs
  Amounts <- MCAmounts
INVARIANT QueueListsWaiting HeldAddsUp SuspendedIsListed BallotsCounted
PROPERTY PaidOnce RefundEnds
CHECK_DEADLOCK FALSE
