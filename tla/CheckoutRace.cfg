\* Two handlers of one user, two message buttons and two purchases, every kind of tap,
\* and relinking between two SaaS users, in the combinations of SmallRounds.
CONSTANTS
    None = None
    c1 = c1
    c2 = c2
    Operations = {o1, o2}
    Orders = {o1, o2}
    Callbacks = {c1, c2}
    Owners = {u1, u2}
    Tasks = {t1, t2}
    Rounds <- SmallRounds
SPECIFICATION Spec
INVARIANTS
    AtMostOnePost
    ClosedWithoutOrder
PROPERTIES
    PromiseKept
SYMMETRY Symmetry
