\* Two screens and the reconciler over one key: every pair of operations, or one
\* operation and one failed call.  A day has two parts.
CONSTANTS
    None = None
    Keys = {k1}
    Servers = {s1}
    Inbounds = {1,2}
    Public = {1}
    Shared = FALSE
    Day = 2
    MaxTime = 3
    Replacements = 1
    Screens = {t1,t2}
    Traffic = traffic
    Daily = daily
    Expired = expired
    Loops = {expired}
    Ops = {"renew", "shorten", "reset", "ban", "reward", "replace", "forget", "erase", "sweep", "missing", "unreach", "mode", "restart"}
    Once = {"renew", "shorten", "reset", "ban", "reward", "replace", "forget", "erase", "sweep", "missing", "unreach", "mode", "restart"}
    MaxOps = 2
    MaxSlips = 1
    MaxEvents = 2
SPECIFICATION Spec
INVARIANTS
    LastSyncStands
    PaidTimeOnly
SYMMETRY ScreenSymmetry
