SPECIFICATION PartSpec
CONSTANTS
    Customers <- MCCustomers
    Arrivals <- MCArrivals
    Intents <- MCIntents
    SenderOf <- MCSenderOf
    RecipientOf <- MCRecipientOf
    AmountOf <- MCAmountOf
    Confirmations <- MCConfirmations
    IntentOf <- MCIntentOf
    ClientKeyOf <- MCClientKeyOf
    OpeningBalance <- MCOpeningBalance
    MinTransfer = 1
    MaxTransfer = 2
    DailyOutgoingLimit = 2
    MaxProcessingAttempts = 2
    NoRow = NoRow
INVARIANTS
    IntentSpentOnce
    MoneyTraced
    TotalsKept
    RecoveryBounded
PROPERTIES
    NeverReopened
CHECK_DEADLOCK FALSE
