SPECIFICATION Spec
CONSTANTS
    Orders = {o1}
    Tables = {t1}
    Guests = {g1}
    Staff = {s1}
    Handlers = {h1}
    NoTable = NoTable
    Nobody = Nobody
    Subtotals <- MCSmallCarts
    Extras <- MCNoExtras
    MaxLines <- MCMaxLines
    MaxPayments = 1
    TaxPercent = 500
    ServicePercent = 0
    Gates <- MCBothGates
    AllowCashAdvance = TRUE
    AdminActs = FALSE
    LongSittings = FALSE
    SlotsPerDay = 2
    Horizon = 6
    Offset <- MCOffset
    WindowDays = 1
INVARIANTS BookIsTradingDay
CHECK_DEADLOCK FALSE
