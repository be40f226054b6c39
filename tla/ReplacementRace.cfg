\* The loop and a handler over two operations with their buttons, in the troubles of
\* MCReplacement.  Deadlock is not an error: users have no more buttons to tap.
CONSTANTS
    None = None
    r1 = r1
    r2 = r2
    Operations = {r1, r2}
    Callbacks = {c1, c2}
    Tasks = {loop, tap}
    Loop = loop
    Scopes = {s1, s2}
    Readers = {p1}
    Troubles <- SmallTroubles
    MaxVersion = 3
SPECIFICATION FairSpec
INVARIANTS
    ReplacedOnce
    WithdrawnUnsent
    OneAtWork
    DoneIsOwn
PROPERTIES
    CopyLags
    QueuedIsServed
    FinishedIsClosed
CHECK_DEADLOCK FALSE
