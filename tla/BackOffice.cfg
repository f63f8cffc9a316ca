SPECIFICATION MCSpec
CONSTANTS
    Texts = {"Bistro"}
    House = "Bistro"
    MaxSaves = 2
    Editions <- MCEditions
    Moves <- SeededRoles
    Starters <- MCStarters
    MaxChanges = 2
    Editors = {e1, e2}
    Prices = {300, 501}
    Discounts = {0, 400, 10000}
SYMMETRY EditorSymmetry
INVARIANTS SavedIsShown OfferedIsAllowed BuiltInRolesWork AlertsReach ChargedWithinList ShownIsCharged
PROPERTY UntouchedIsKept
CHECK_DEADLOCK FALSE
