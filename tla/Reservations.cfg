\* Two requests at a time over a small reservation book.
SPECIFICATION Spec
CONSTANTS
    b1 = b1
    b2 = b2
    h1 = h1
    h2 = h2
    t1 = t1
    Bookings = {b1, b2}
    Handlers = {h1, h2}
    Tables = {t1}
    NoTable = NoTable
    Keep = Keep
    Seats <- MCSeats
    Sizes <- MCSizes
    Times <- MCTimes
    Durations <- MCDurations
    Patches <- MCPatches
    PartySizes <- MCSizes
    Offsets <- MCOffsets
    Lead = 1
    DayLength = 4
    PageLimit = 1
    DefaultDuration = 1
    MaxDuration = 3
    MaxCover = 2
SYMMETRY Symmetry
VIEW View
CONSTRAINT Guarded
INVARIANTS
    NeverOversold
    OffersStand
