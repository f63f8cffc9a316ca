CONSTANTS
    Foods = {dosa, idli}
    Notes = {plain, spicy}
    NoNote = plain
    MaxTaps = 3
    MaxRequests = 2
    MaxFaults = 2
    MaxCalls = 2
SPECIFICATION Spec
SYMMETRY FoodSymmetry
CONSTRAINT TwoActs
INVARIANTS BasketKept PaidScreenIsPaid LiveRowsAreMoney
CHECK_DEADLOCK FALSE
