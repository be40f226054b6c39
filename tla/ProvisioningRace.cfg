\* The loop and an administrator's button over two grants of two messages, in the
\* troubles of MCProvisioning.
CONSTANTS
    None = None
    g1 = g1
    g2 = g2
    Operations = {g1, g2}
    Admins = {a1}
    Messages = {m1, m2}
    Tasks = {loop, tap}
    Loop = loop
    Owners = {u1, u2}
    Scopes = {s1, s2}
    Versions = {0, 1, 2}
    Troubles <- SmallTroubles
SPECIFICATION FairSpec
INVARIANTS
    DispatchedOnce
    CreateOnSnapshot
    OneGrantAtWork
PROPERTIES
    PendingEnds
CHECK_DEADLOCK FALSE
