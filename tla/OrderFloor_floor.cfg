SPECIFICATION Spec
CONSTANTS
    Orders = {o1, o2}
    Tables = {t1, t2}
    Guests = {g1, g2}
    Staff = {s1}
    Handlers = {h1}
    NoTable = NoTable
    Nobody = Nobody
    Subtotals <- MCSmallCarts
    Extras <- MCNoExtras
    MaxLines <- MCMaxLines
    MaxPayments = 1
    TaxPercent = 500
    ServicePercent = 0
    Gates <- MCApproval
    AllowCashAdvance = TRUE
    AdminActs = FALSE
    LongSittings = TRUE
SYMMETRY FloorSymmetry
INVARIANTS ExposureCapped
PROPERTIES KeepsPromise
CHECK_DEADLOCK FALSE
