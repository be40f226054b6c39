\* Three changes of one key, or two with the direct senders at work; each reports
\* something new or what an earlier one reported, and SaaS may refuse the first for
\* good.  One row per pass, a refresher, the reconciliation at startup, one crash.
\* The bot idles when every event is delivered and no key changes.
CONSTANTS
    MaxVersion = 3
    MaxGated = 2
    Refreshers = {f1}
    Reconciler = reconciler
    Worker = worker
    BatchSize = 1
    QuickRetries = 0
    Refusable = {1}
    MaxSlips = 1
SPECIFICATION FairSpec
INVARIANTS
    OvertakesOnlyFailed
    
    NothingLost
PROPERTIES
    NobodyBlocks
CHECK_DEADLOCK FALSE
