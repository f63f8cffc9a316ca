SPECIFICATION Spec
CONSTANTS
    Orders = {o1}
    Tables = {}
    Guests = {g1}
    Staff = {s1}
    Handlers = {h1, h2}
    NoTable = NoTable
    Nobody = Nobody
    Subtotals <- MCLargeCarts
    Extras <- MCSmallExtra
    MaxLines <- MCMaxLines
    MaxPayments = 2
    TaxPercent = 500
    ServicePercent = 0
    Gates <- MCBothGates
    AllowCashAdvance = TRUE
    AdminActs = FALSE
    LongSittings = FALSE
SYMMETRY HandlerSymmetry
INVARIANTS TypeOK ApprovalHonoured NeverOverbilled NeverStranded
PROPERTIES GateHonoured
CHECK_DEADLOCK FALSE
