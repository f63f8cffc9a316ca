\* Three changes to the order, three faults.
SPECIFICATION FairSpec
CONSTANTS
    d1 = d1
    s1 = s1
    Diners = {d1}
    Staff = {s1}
    MaxVersion = 3
    MaxFaults = 3
    Unread = Unread
    Nothing = Nothing
CONSTRAINT OneScreen
INVARIANTS
    NoSilentStaleness
PROPERTIES
    NeverGoesBack
    EventuallyShown
