SPECIFICATION ChannelSpec
CONSTANTS
    AccountIds = {1, 2, 3}
    PostingAmounts = {1, 2}
    MaxPostings = 4
    Codes = {"static"}
    Dynamic = {}
    Scans = {"s1", "s2"}
    Confirms = {"c1", "c2", "c3"}
    CodeOf <- MCCodeOf
    PayerOf <- MCPayerOf
    OwnerOf <- MCOwnerOf
    ScanOf <- MCScanOf
    KeyOf <- MCKeyOf
    Operations = {"o1", "o2"}
    CashConfirms = {"c1", "c2", "c3"}
    CashAmountOf <- MCCashAmountOf
    OpOf <- MCOpOf
    CashKeyOf <- MCCashKeyOf
    MinTransfer = 1
    MaxTransfer = 3
    DailyLimit = 3
    LastDay = 1
    Handlers = {"h1", "h2"}
    MaxMessages = 9
    Payees = {"bob"}
    UssdAmounts = {115, 200}
    Float100 <- MCFloat100
    Customers = {"alice", "bob"}
    WalletKeys = {"k1", "k2"}
    References = {"ref1", "ref2"}
    WalletRequests = {"r1", "r2", "r3", "r4"}
    CustomerOf <- MCCustomerOf
    WalletKeyOf <- MCWalletKeyOf
    MaxReferenceAttempts = 2
    Wallets = {"alice", "bob"}
    LedgerRequests = {"q1", "q2", "i1", "o1", "o2"}
    LedgerKeys = {"k1", "k2", "k3"}
    KindOf <- MCKindOf
    LedgerKeyOf <- MCLedgerKeyOf
    WalletOf <- MCWalletOf
    PayeeOf <- MCPayeeOf
    LedgerAmountOf <- MCLedgerAmountOf
    Opening <- MCOpening
    Ids = {1, 2, 3, 4}
    MaxTime = 1
    HistoryPage = 1
    MaxJournals = 1
    LedgerFaults = {"UNBALANCED_JOURNAL", "BALANCE_PROJECTION_DRIFT"}
    LedgerRows = {0, 2, 50}
    Counts = {0, 50}
    MaxIssues = 50
    MaxPrinted = 16
    FormAmounts = {1, 2}
    MaxFormCalls = 4
    MaxMounts = 2
    ListPage = 2
    FirstRows = 5
    MaxRows = 7
    MaxListCalls = 2
    MaxIssued = 2
INVARIANTS
    CanonicalPostings
    UssdPaysAsConfirmed
    OneWalletPerCustomer
    ChannelBooksHold
    PagesTellTheTruth
    ReportIsTrue
    FormsActOnce
    ListsAreWhole
    ScreensUsable
PROPERTIES
    QrMoneyTraced
    AgentCashTraced
CHECK_DEADLOCK FALSE
