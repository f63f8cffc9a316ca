SPECIFICATION FairSpec
CONSTANTS
    Handlers = {h1}
    MaxPayments = 2
    MaxAttempts = 2
    Total = 4
    Advance = 2
    Extra = 2
    MaxTotal = 4
PROPERTIES CapturedIsBooked
