SPECIFICATION Spec
CONSTANTS
    Orders = {o1}
    Tables = {t1}
    Guests = {g1}
    Staff = {s1}
    Handlers = {h1}
    NoTable = NoTable
    Nobody = Nobody
    Subtotals <- MCBothCarts
    Extras <- MCExtras
    MaxLines <- MCMaxLines
    MaxPayments = 2
    TaxPercent = 500
    ServicePercent = 0
    Gates <- MCBothGates
    AllowCashAdvance = TRUE
    AdminActs = TRUE
    LongSittings = FALSE
    SlotsPerDay = 2
    Horizon = 6
    Offset <- MCOffset
    WindowDays = 1
INVARIANTS HeadlineIsLastBar FiguresAgree OfferedIsAccepted AskedIsOwed

PROPERTIES TakingsStand
CHECK_DEADLOCK FALSE
