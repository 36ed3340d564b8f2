SPECIFICATION PartSpec
CONSTANTS
    Customers <- MCCustomers
    Arrivals = {{"c1"}}
    Intents <- MCIntents
    SenderOf <- MCSenderOf
    RecipientOf <- MCRecipientOf
    AmountOf <- MCAmountOf
    Confirmations <- MCConfirmations
    IntentOf <- MCIntentOf
    ClientKeyOf <- MCClientKeyOf
    OpeningBalance <- MCOpeningBalance
    MinTransfer = 1
    MaxTransfer = 2
    DailyOutgoingLimit = 4
    MaxProcessingAttempts = 2
    NoRow = NoRow
PROPERTIES
    VerdictsPreserved
CHECK_DEADLOCK FALSE
