SPECIFICATION FairSpec
CONSTANTS
    t1 = t1
    t2 = t2
    k1 = k1
    k2 = k2
    Trx = {t1}
    Toko = {k1}
    TokoOf <- OneToko
    CallbackToko = {k1}
    Workers = {w1}
    Callers = {c1}
    RequestAmounts = {10000}
    PaidAmounts = {10000, 20000}
    Outcomes = {"paid"}
    ExternalPurposes = {"nexusggr_topup"}
    FaultKinds = {}
    MaxFaults = 1
    MaxWebhooks = 2
    MaxMoney = 1500000
    FeeTransaction = 3
    Ggr = 7
PROPERTY PaymentIsCredited
CHECK_DEADLOCK FALSE
