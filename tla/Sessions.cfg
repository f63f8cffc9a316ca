\* One tab, two calls at a time.  Without symmetry, which liveness would not survive.
SPECIFICATION FairSpec
CONSTANTS
    c1 = c1
    c2 = c2
    t1 = t1
    Calls = {c1, c2}
    Tabs = {t1}
    TabOf <- OneTab
    Tokens = {k1, k2, k3}
    Logins = {l1}
    MaxChanges = 2
    NoToken = NoToken
    Dead = Dead
    NoAccess = NoAccess
INVARIANTS
    OneHeir
    ResetKills
    NeverBounced
PROPERTY EventuallyCurrent
