\* Three charges, two refusals in a row ending the subscription, one renewal by
\* hand, and two crashes, errors or lost answers.
\* The loop idles when the subscription has ended.
CONSTANTS
    MaxOrders = 3
    MaxFailures = 2
    MaxRenewals = 1
    MaxSlips = 2
SPECIFICATION FairSpec
INVARIANTS
    OneChargeAtATime
    PeriodsArePaid
    OneMoreAtMost
PROPERTIES
    SucceededIsCredited
CHECK_DEADLOCK FALSE
