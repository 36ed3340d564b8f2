SPECIFICATION FairSpec
CONSTANTS
    Accounts <- MCAccounts
    Rank <- MCRank
    Class <- MCClass
    AllowNegative = {"settlement"}
    Keys <- MCKeys
    RequestsUnderTest = {"send", "back", "changed", "fund", "reused", "spend", "lopsided", "foreign"}
    Requests <- RequestsUnderTest
    KeyOf <- MCKeyOf
    ReferenceOf <- MCReferenceOf
    PostingsOf <- MCPostingsOf
    Transfers <- MCTransfers
    SourceOf <- MCSourceOf
    Postable <- MCPostable
    OpeningTotals <- MCOpening
    Workers = {"w1", "w2"}
    NoRequest = NoRequest
    NoWorker = NoWorker
INVARIANTS
    TypeOK
    OncePerKey
    BooksBalance
    NoOverdraft
    ReplyNamesOriginal
    LockedReadsFresh
    LockOrder
PROPERTIES
    ExactPosting
    ImplementsService
    EveryRequestServed
