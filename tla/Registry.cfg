SPECIFICATION Spec
CONSTANTS
    Categories = {c1, c2}
    Foods = {f1}
    Roles = {super, waiter}
    SuperAdmin = super
    Users = {u1, u2, u3}
    Keys = {k1, k2}
    Tables = {t1}
    Orders = {o1}
    Handlers = {h1, h2}
    MaxFiles = 3
    None = None
    Keep = Keep
SYMMETRY Symmetry
INVARIANTS ReferencesResolve SomeoneAdministers PictureIsThere
CHECK_DEADLOCK FALSE
