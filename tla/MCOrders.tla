------------------------------- MODULE MCOrders -------------------------------
(* Small instances of OrdersProps for TLC. *)
EXTENDS OrdersProps

CONSTANTS u1, u2

\* u2 invited u1.
ReferrerOfOne == [u \in Users |-> IF u = u1 /\ u2 \in Users THEN u2 ELSE None]

RewardOfOne == [l \in Levels |-> IF l = 1 THEN 1 ELSE 0]

MinimumOfProviders == [p \in Providers |-> 1]

\* With the balance screens, whose quotes may be reused; or with everything else.
SmallVisits ==
    { {"screen", "balance", "share", "reprice", "qr", "void"},
      {"page", "telegram", "crypto", "qr", "recurring", "setup", "home", "reprice", "void"} }
=============================================================================
