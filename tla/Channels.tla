------------------------------ MODULE Channels ------------------------------
(***************************************************************************)
(* What moves and shows money besides customer transfers: the pure part of *)
(* a journal (Postings), QR payments (QrPayments, whose variables and      *)
(* specification are this module's own), agent cash and USSD in Payments,  *)
(* wallet provisioning, channel operations, history and the                *)
(* reconciliations, and the web application's forms, lists and sign-in     *)
(* screens.  A behaviour is about one of them; the components share        *)
(* nothing that their properties speak of.                                 *)
(***************************************************************************)
EXTENDS Integers, Sequences, FiniteSets, QrPayments

CONSTANTS
    AccountIds, PostingAmounts, MaxPostings,                 \* of Postings
    Operations, CashConfirms, CashAmountOf, OpOf, CashKeyOf, MinTransfer,
    MaxTransfer, DailyLimit, LastDay,                       \* of AgentCash
    Handlers, MaxMessages, Payees, UssdAmounts, Float100, \* of UssdSession
    Customers, WalletKeys, References, WalletRequests, CustomerOf,
    WalletKeyOf, MaxReferenceAttempts,                   \* of Provisioning
    Wallets, LedgerRequests, LedgerKeys, KindOf, LedgerKeyOf, WalletOf,
    PayeeOf, LedgerAmountOf, Opening,               \* of ChannelOperations
    Ids, MaxTime, HistoryPage,                                \* of History
    MaxJournals, LedgerFaults, LedgerRows, Counts, MaxIssues, MaxPrinted,
                                                       \* of Reconciliation
    FormAmounts, MaxFormCalls, MaxMounts,                    \* of WebForms
    ListPage, FirstRows, MaxRows, MaxListCalls,              \* of WebLists
    MaxIssued                                               \* of WebSignIn

VARIABLES
    part,                                        \* what a behaviour is about
    postings,                                                \* of Postings
    day, previews, cashRows, cashExpired, cashEvents, cashPosted, cashPc,
    cashReply, cashAnswer, cashOverlapped,                  \* of AgentCash
    session, messages, ussdPc, read, shown, consents, paid,
    ussdOverlapped, unsent, undeleted,                    \* of UssdSession
    wallets, records, walletPc, ref, attempts, walletAnswer,
                                                         \* of Provisioning
    balance, settled, active, floats, ledgerPc,     \* of ChannelOperations
    now, booked, pageFilter, pager, cursor, pages, pageStart, \* of History
    journals, projected, faults, atStart, query, counted, ledgerIssues,
    ledgerRoom, payments, pushed, risk, resilience, results,       \* of Reconciliation
    form, mount, typed, preview, key, waiting, formError, done, formCalls,
    intents, made, told, lost,                               \* of WebForms
    view, filter, listed, next, loading, error, calls, total,
    overlapped,                                              \* of WebLists
    flow, step, fallback, otpStep, phone, pin, otp, challenge, token,
    cooldown, place, call, stray, cookies, cookie, issued, spent, created,
    left                                                    \* of WebSignIn

cashVars == <<day, previews, cashRows, cashExpired, cashEvents, cashPosted,
              cashPc, cashReply, cashAnswer, cashOverlapped>>
ussdVars == <<session, messages, ussdPc, read, shown, consents, paid,
              ussdOverlapped, unsent, undeleted>>
walletVars == <<wallets, records, walletPc, ref, attempts, walletAnswer>>
ledgerVars == <<balance, settled, active, floats, ledgerPc>>
historyVars == <<now, booked, pageFilter, pager, cursor, pages, pageStart>>
reportVars == <<journals, projected, faults, atStart, query, counted,
                ledgerIssues, ledgerRoom, payments, pushed, risk, resilience, results>>
formVars == <<form, mount, typed, preview, key, waiting, formError, done,
              formCalls, intents, made, told, lost>>
listVars == <<view, filter, listed, next, loading, error, calls, total,
              overlapped>>
screenVars == <<flow, step, fallback, otpStep, phone, pin, otp, challenge,
                token, cooldown, place, call, stray, cookies, cookie, issued,
                spent, created, left>>

channelVars ==
    <<vars, part, postings, cashVars, ussdVars, walletVars, ledgerVars,
      historyVars, reportVars, formVars, listVars, screenVars>>

Pure == INSTANCE Postings WITH Amounts <- PostingAmounts
Agent == INSTANCE AgentCash WITH
    Confirms <- CashConfirms, AmountOf <- CashAmountOf, KeyOf <- CashKeyOf,
    rows <- cashRows, expired <- cashExpired, events <- cashEvents,
    posted <- cashPosted, pc <- cashPc, reply <- cashReply,
    answer <- cashAnswer, overlapped <- cashOverlapped
Ussd == INSTANCE UssdSession WITH
    Accounts <- Payees, Amounts <- UssdAmounts, pc <- ussdPc,
    overlapped <- ussdOverlapped
Provision == INSTANCE Provisioning WITH
    Keys <- WalletKeys, Requests <- WalletRequests, KeyOf <- WalletKeyOf,
    pc <- walletPc, answer <- walletAnswer
Channel == INSTANCE ChannelOperations WITH
    Keys <- LedgerKeys, Requests <- LedgerRequests, KeyOf <- LedgerKeyOf,
    PayerOf <- WalletOf, AmountOf <- LedgerAmountOf, pc <- ledgerPc
Statement == INSTANCE History WITH
    PageSize <- HistoryPage, postings <- booked, filter <- pageFilter,
    shown <- pages, atStart <- pageStart
Reconcile == INSTANCE Reconciliation
Forms == INSTANCE WebForms WITH
    Amounts <- FormAmounts, MaxCalls <- MaxFormCalls, error <- formError,
    calls <- formCalls, records <- made
Lists == INSTANCE WebLists WITH
    PageSize <- ListPage, MaxCalls <- MaxListCalls, rows <- listed
Browser == INSTANCE WebSignIn

ChannelsOK ==
    /\ ConstantsOK /\ Pure!ConstantsOK /\ Agent!ConstantsOK
    /\ Ussd!ConstantsOK /\ Provision!ConstantsOK /\ Channel!ConstantsOK
    /\ Statement!ConstantsOK /\ Reconcile!ConstantsOK

\* The variables of a component that a behaviour is not about are 0.
NoCash == /\ day = 0 /\ previews = 0 /\ cashRows = 0 /\ cashExpired = 0
          /\ cashEvents = 0 /\ cashPosted = 0 /\ cashPc = 0 /\ cashReply = 0
          /\ cashAnswer = 0 /\ cashOverlapped = 0
NoUssd == /\ session = 0 /\ messages = 0 /\ ussdPc = 0 /\ read = 0 /\ shown = 0
          /\ consents = 0 /\ paid = 0 /\ ussdOverlapped = 0 /\ unsent = 0
          /\ undeleted = 0
NoWallets == /\ wallets = 0 /\ records = 0 /\ walletPc = 0 /\ ref = 0
             /\ attempts = 0 /\ walletAnswer = 0
NoLedger == balance = 0 /\ settled = 0 /\ active = 0 /\ floats = 0 /\ ledgerPc = 0
NoHistory == /\ now = 0 /\ booked = 0 /\ pageFilter = 0 /\ pager = 0 /\ cursor = 0
             /\ pages = 0 /\ pageStart = 0
NoReport == /\ journals = 0 /\ projected = 0 /\ faults = 0 /\ atStart = 0
            /\ query = 0 /\ counted = 0 /\ ledgerIssues = 0 /\ ledgerRoom = 0
            /\ payments = 0 /\ pushed = 0 /\ risk = 0 /\ resilience = 0 /\ results = 0
NoForms == /\ form = 0 /\ mount = 0 /\ typed = 0 /\ preview = 0 /\ key = 0
           /\ waiting = 0 /\ formError = 0 /\ done = 0 /\ formCalls = 0
           /\ intents = 0 /\ made = 0 /\ told = 0 /\ lost = 0
NoLists == /\ view = 0 /\ filter = 0 /\ listed = 0 /\ next = 0 /\ loading = 0
           /\ error = 0 /\ calls = 0 /\ total = 0 /\ overlapped = 0
NoScreens == /\ flow = 0 /\ step = 0 /\ fallback = 0 /\ otpStep = 0 /\ phone = 0
             /\ pin = 0 /\ otp = 0 /\ challenge = 0 /\ token = 0 /\ cooldown = 0
             /\ place = 0 /\ call = 0 /\ stray = 0 /\ cookies = 0 /\ cookie = 0
             /\ issued = 0 /\ spent = 0 /\ created = 0 /\ left = 0

Parts == {"postings", "qr", "agent", "ussd", "wallets", "channel", "history",
          "reconcile", "forms", "lists", "browser"}

\* One component has started; no QR code is issued while a behaviour is about
\* another.
ChannelInit ==
  /\ part \in Parts /\ Init
  /\ IF part = "postings" THEN Pure!Init ELSE postings = 0
  /\ IF part = "agent" THEN Agent!Init ELSE NoCash
  /\ IF part = "ussd" THEN Ussd!Init ELSE NoUssd
  /\ IF part = "wallets" THEN Provision!Init ELSE NoWallets
  /\ IF part = "channel" THEN Channel!Init ELSE NoLedger
  /\ IF part = "history" THEN Statement!Init ELSE NoHistory
  /\ IF part = "reconcile" THEN Reconcile!Init ELSE NoReport
  /\ IF part = "forms" THEN Forms!Init ELSE NoForms
  /\ IF part = "lists" THEN Lists!Init ELSE NoLists
  /\ IF part = "browser" THEN Browser!Init ELSE NoScreens

OthersStand ==
  /\ UNCHANGED part
  /\ part # "qr" => UNCHANGED vars
  /\ part # "postings" => UNCHANGED postings
  /\ part # "agent" => UNCHANGED cashVars
  /\ part # "ussd" => UNCHANGED ussdVars
  /\ part # "wallets" => UNCHANGED walletVars
  /\ part # "channel" => UNCHANGED ledgerVars
  /\ part # "history" => UNCHANGED historyVars
  /\ part # "reconcile" => UNCHANGED reportVars
  /\ part # "forms" => UNCHANGED formVars
  /\ part # "lists" => UNCHANGED listVars
  /\ part # "browser" => UNCHANGED screenVars

ChannelNext ==
    \/ part = "postings" /\ Pure!Next /\ OthersStand
    \/ part = "qr" /\ Next /\ OthersStand
    \/ part = "agent" /\ Agent!Next /\ OthersStand
    \/ part = "ussd" /\ Ussd!Next /\ OthersStand
    \/ part = "wallets" /\ Provision!Next /\ OthersStand
    \/ part = "channel" /\ Channel!Next /\ OthersStand
    \/ part = "history" /\ Statement!Next /\ OthersStand
    \/ part = "reconcile" /\ Reconcile!Next /\ OthersStand
    \/ part = "forms" /\ Forms!Next /\ OthersStand
    \/ part = "lists" /\ Lists!Next /\ OthersStand
    \/ part = "browser" /\ Browser!Next /\ OthersStand

ChannelSpec == ChannelInit /\ [][ChannelNext]_channelVars

-----------------------------------------------------------------------------
\* A retry that lists or splits the same postings differently hashes to the
\* same payload, rows survive in order with their sums, and the lock order
\* depends on the account set alone (normalisePostings, post,
\* deterministicAccountOrder).
CanonicalPostings ==
    part = "postings" =>
            /\ Pure!NormalisedSums
            /\ Pure!NormalisedOrder
            /\ Pure!RetryHashesAlike
            /\ Pure!LockOrderCanonical

\* An agent's completed sum exceeds the day's limit only if previews
\* overlapped; an operation settled once keeps what its caller was told; a
\* request that arrives after the first confirmation settles nothing
\* (AgentService preview, confirm, settle).
AgentCashTraced ==
    /\ [](part = "agent" =>
            /\ Agent!LimitHoldsUnlessOverlapped
            /\ Agent!SoleSettlementIsFinal)
    /\ [][part = "agent" => Agent!LateConfirmStep]_channelVars

\* A USSD payment goes to the recipient of a confirmation screen, for its
\* amount or a minor unit less, and has a confirmation of its own unless two
\* deliveries were handled at once or an ended session stayed in Redis after a
\* crash or a failed delete (UssdService).
UssdPaysAsConfirmed == part = "ussd" => Ussd!UssdPaysAsConfirmed

\* Overlapping requests under any keys create one wallet per customer and
\* tell exactly one that it did, the advisory lock leaves the identity index
\* nothing to refuse, and references are unique although two transactions may
\* draw one (AccountService.provisionDefault).
OneWalletPerCustomer == part = "wallets" => Provision!OneWalletPerCustomer

\* Wallets minus agent float stay where they were under interleaved and
\* retried QR, cash-in and cash-out journals, and the unlocked funds check
\* overdraws nothing (ChannelOperationsService).
ChannelBooksHold ==
    part = "channel" =>
            /\ Channel!FloatBacksWallets
            /\ Channel!StaleCheckIsHarmless

\* Paging shows every posting that existed when it began exactly once,
\* whatever commits between two pages, and a balance shown stands unless a
\* posting of the same millisecond followed (TransactionService.list).
PagesTellTheTruth ==
    part = "history" =>
            /\ Statement!PagesCoverTheStart
            /\ Statement!ShownBalanceStands

\* Journals that commit between the queries raise no alarm, four PASS results
\* leave nothing broken behind, the Ledger's list drops a code only when full
\* and the Payments one none, and the aggregate report omits a Payments code
\* only when others crowd it out (ReconciliationService.run of Ledger,
\* Payments, Risk and Resilience, reconcile-all).
ReportIsTrue ==
    part = "reconcile" =>
            /\ Reconcile!NoFalseAlarm
            /\ Reconcile!AllPassIsTrue
            /\ Reconcile!LedgerLosesOnlyWhenFull
            /\ Reconcile!EveryCodeReported
            /\ Reconcile!PrintedUnlessCrowded

\* One opening of the transfer form makes at most one transfer, its error
\* line never denies money that moved unless an answer was lost, and every
\* drill on record was announced, is awaited or was given up on (transfer-
\* form, recovery-console).
FormsActOnce ==
    part = "forms" =>
            /\ Forms!PaysOncePerForm
            /\ Forms!ErrorMeansUnpaid
            /\ Forms!DrillsAccountedFor

\* Rows are listed once and without a gap while new ones arrive, unless
\* operator requests overlapped or failed, and rows of an older filter are
\* flagged (transfer-list, transaction-list, operator-dashboard, recovery-
\* console).
ListsAreWhole ==
    part = "lists" =>
            /\ Lists!RowShownOnce
            /\ Lists!MixedRowsAreFlagged
            /\ Lists!NothingSkipped

\* The browser sends a code with the challenge it was typed for, announces
\* access only with a session it holds, and asks for a code only while it can
\* still send phone and PIN - or "back" was pressed meanwhile (onboarding-
\* flow, sign-in-flow).
ScreensUsable ==
    part = "browser" =>
            /\ Browser!CodeMatchesChallenge
            /\ Browser!AccessIsHeld
            /\ Browser!CodeScreenCompletable
=============================================================================
