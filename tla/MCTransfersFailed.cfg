SPECIFICATION PartSpec
CONSTANTS
    Customers <- MCCustomers
    Arrivals = {{"c5"}}
    Intents <- MCIntents
    SenderOf <- MCSenderOf
    RecipientOf <- MCRecipientOf
    AmountOf <- MCAmountOf
    Confirmations <- MCConfirmations
    IntentOf <- MCIntentOf
    ClientKeyOf <- MCClientKeyOf
    OpeningBalance <- MCOpeningBalance
    MinTransfer = 1
    MaxTransfer = 2
    DailyOutgoingLimit = 4
    MaxProcessingAttempts = 2
    NoRow = NoRow
INVARIANTS
    FailedIsUnposted
CHECK_DEADLOCK FALSE
