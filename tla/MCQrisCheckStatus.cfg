SPECIFICATION Spec
CONSTANTS
    t1 = t1
    t2 = t2
    k1 = k1
    k2 = k2
    Trx = {t1}
    Toko = {k1}
    TokoOf <- OneToko
    CallbackToko = {k1}
    Workers = {w1, w2}
    Callers = {c1, c2}
    RequestAmounts = {10000}
    PaidAmounts = {10000, 20000}
    Outcomes = {"paid", "failed"}
    ExternalPurposes = {"nexusggr_topup", "other", "malformed"}
    FaultKinds = {"redis", "db", "crash"}
    MaxFaults = 2
    MaxWebhooks = 3
    MaxMoney = 1500000
    FeeTransaction = 3
    Ggr = 7
SYMMETRY RequestSymmetry
INVARIANTS
    RegularDepositCreditedOnce
    CreditsArePaid
CHECK_DEADLOCK FALSE
