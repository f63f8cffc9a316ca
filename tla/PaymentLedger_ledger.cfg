SPECIFICATION Spec
CONSTANTS
    Handlers = {h1, h2}
    MaxPayments = 2
    MaxAttempts = 1
    Total = 4
    Advance = 2
    Extra = 2
    MaxTotal = 6
INVARIANTS OnlyAcceptedMoney CoveredIsPaid PaidHasReceipt
PROPERTIES PaidWhenCovered
SYMMETRY HandlerSymmetry
VIEW SafetyView
