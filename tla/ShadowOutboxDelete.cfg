\* One key is created and deleted, with one crash. The bot idles afterwards.
CONSTANTS
    MaxVersion = 2
    MaxGated = 2
    Refreshers = {f1}
    Reconciler = reconciler
    Worker = worker
    BatchSize = 1
    QuickRetries = 0
    Refusable = {1}
    MaxSlips = 1
SPECIFICATION Spec
INVARIANTS
    DeletionAnnounced
CHECK_DEADLOCK FALSE
