\* One coroutine with every call through two changes of the panel or restarts of the
\* bot, and two that add the same client through a failed exchange.
CONSTANTS
    None = None
    Inbounds = {1, 2}
    Sids = {a, b}
    Tasks = {t1, t2}
    MaxTokens = 2
    MaxUntil = 1
    Refusals = {"401"}
    Attempts = 3
    MaxSlips = 1
    MaxChanges = 2
    Ops = {"add", "update", "extend", "limit", "delete", "purge", "reset", "onlines", "settings"}
    Crews <- AllCrews
SPECIFICATION Spec
INVARIANTS
    OneIdentity
PROPERTIES
    LoneCallDoes
SYMMETRY Coroutines
