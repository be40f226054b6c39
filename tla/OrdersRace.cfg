\* The shop in one of two visits (MCOrders): one customer, the user who invited it, a
\* live key and a key to be made, one order, two bills, two handlers that race, a price
\* that changes and one death of the process.  Deadlock is not an error: users stop.
CONSTANTS
    None = None
    u1 = u1
    u2 = u2
    Users = {u1, u2}
    Orders = {o1}
    Keys = {k1, k2}
    Tariffs = {t1}
    Bills = {b1, b2}
    Customers = {u1}
    Renewable = {k1}
    Prices = {1, 2}
    Welcome = 1
    Referrer <- ReferrerOfOne
    Tasks = {h1, h2}
    Quotes = {q1}
    Visits <- SmallVisits
    Minimum <- MinimumOfProviders
    Reward <- RewardOfOne
    MaxCrashes = 1
SPECIFICATION FairSpec
INVARIANTS
    DeliveredOnce
    ChargedAsShown
    PaidIsKept
PROPERTIES
    PaidIsServed
CHECK_DEADLOCK FALSE
