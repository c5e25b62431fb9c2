SPECIFICATION MCSpec
CONSTANTS
    alice = alice
    bob = bob
    Users = {alice, bob}
    NoUser = none
    Referrer <- MCReferrer
    Proposals <- MCProposals
    DefaultSettings <- MCDefault
    Positions = {1}
    Owner <- MCOwner
    Profit <- MCProfit
    Requests = {m1, m2}
    FeeSchedulers = {f1, f2}
    MaxUuids = 3
    MaxDay = 2
    Adjustments = {4}
    Scanners = {s1, s2}
    SteadyScanners = {s1}
    SteadySchedulers = {f1}
    Deposits = {1, 2}
    Receiver <- MCReceiver
    Amount <- MCAmount
    Confirmations = 1
    BlockRange = 2
    MaxRanges = 2
    StartBlock = 1
    MaxHead = 4
INVARIANTS
    LedgerBacksBalance
    ScannedDepositsCredited
    PaidDaysGranted
    SettledMeansCharged
    RewardsWithinFee
PROPERTIES
    NoMembershipOnCredit
    DepositsCredited
    FeesSettled
CHECK_DEADLOCK FALSE
