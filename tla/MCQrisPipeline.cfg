SPECIFICATION FairSpec
CONSTANTS
    t1 = t1
    t2 = t2
    k1 = k1
    k2 = k2
    Trx = {t1, t2}
    Toko = {k1}
    TokoOf <- OneToko
    CallbackToko = {k1}
    Workers = {w1}
    Callers = {}
    RequestAmounts = {10000}
    PaidAmounts = {1049, 20000}
    Outcomes = {"paid"}
    ExternalPurposes = {"nexusggr_topup"}
    FaultKinds = {"redis", "db", "crash"}
    MaxFaults = 2
    MaxWebhooks = 2
    MaxMoney = 1500000
    FeeTransaction = 3
    Ggr = 7
INVARIANTS
    TypeOK
    CreditedAtMostOnce
    LedgerExplainsBalances
    CallbackFollowsCredit
    NoSilentLoss
PROPERTIES
    IdealLedger
    PaymentIsCredited
    CreditIsAnnounced
CHECK_DEADLOCK FALSE
