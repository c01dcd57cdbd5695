SPECIFICATION LiveSpec
CONSTANTS
  customer = customer
  shop = shop
  stall = stall
  usdc = usdc
  euro = euro
  sub = sub
  plan = plan
  invoice = invoice
  debit = debit
  schedule = schedule
  consent = consent
  code = code
  Foci <- AllFoci
  Customers <- MCCustomers
  Merchants <- MCMerchants
  Token <- MCTokens
  Usdc = usdc
  MaxPayments = 2
  MaxTime = 4
  Prices <- MCPrices
  Terms <- MCTerms
  InitCfg <- Settings
  Members <- MCMembers
  MaxCases = 1
  MaxBatch = 2
  Signers <- MCSigners
  Codes = {code}
  NoCode = "None"
  Subs = {sub}
  Plans = {plan}
  Invoices = {invoice}
  Debits = {debit}
  Schedules = {schedule}
  Consents = {consent}
  OraclePrices <- MCOraclePrices
  Splits <- MCSplits
INVARIANT QueueListsPayouts ChargedAsAgreed
PROPERTY PaidFromOwnPurse DisputeHolds ClosedIsFinal NoPaymentForBarred PaymentEnds DebitEnds
CHECK_DEADLOCK FALSE
