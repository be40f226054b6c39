------------------------------ MODULE OrdersProps ------------------------------
(***************************************************************************)
(* What is required of Orders.                                             *)
(***************************************************************************)
EXTENDS Orders

\* However often a payment is reported, by the provider's button, a return link or
\* Telegram, and wherever the process dies, its order gives one key or one period, and
\* its referrers of each level one reward.
DeliveredOnce ==
    /\ \A o \in Orders : delivered[o] <= 1
    /\ \A o \in Orders, l \in Levels : rewarded[<<o, l>>] <= 1

\* A confirmed balance screen takes the price it showed, and takes it once.
ChargedAsShown == \A q \in Quotes : charged[q] \in {0, quotes[q].price}

\* The order gave its key or period and, when it began a subscription, that was kept
\* too; or the process died with its handler or its message, which is then dropped.
Served(o) ==
    \/ delivered[o] > 0 /\ (orders[o].kind = "recurring" => orders[o].key \in subs)
    \/ o \in lost

\* The payment of an order has come to the bot: in a message of Telegram, or by an
\* answer of the provider that a handler has taken.
Reported(o) ==
    \/ \E b \in updates : bills[b].order = o
    \/ \E t \in Tasks : tasks[t].pc = "order" /\ tasks[t].order = o

\* An order whose payment has come to the bot is served, whatever other handlers
\* hold its locks and whatever other bill of it is reported meanwhile.  (Only one
\* payment of an order gives anything: billing.py:229 takes the next for the same.)
PaidIsServed == \A o \in Orders : Reported(o) ~> Served(o)

\* At every moment a paid bill is still on its way: Telegram will report it, a handler
\* has its order in hand, or the order knows the bill that its button asks about.
PaidIsKept ==
    \A b \in Bills :
        LET o == bills[b].order
        IN (bills[b].status = "paid" /\ bills[b].saved) =>
              \/ b \in updates
              \/ \E t \in Tasks : tasks[t].order = o
              \/ orders[o].payment = b
              \/ bills[b].via = "crypto"
              \/ Served(o)

-----------------------------------------------------------------------------
(* The inductive invariant                                                 *)

Holds(t, pcs) == tasks[t].pc \in pcs

\* An order keeps to pending, paid or failed; what it gave, it gave when paid.
OrderTrue(o) ==
    /\ IF orders[o].status = "none" THEN orders[o].kind = "none" /\ ~orders[o].page
       ELSE orders[o].owner \in Users
    /\ orders[o].page => orders[o].kind \in {"none", "telegram", "crypto"}
    /\ orders[o].status = "failed" => orders[o].kind = "recurring"
    /\ orders[o].status # "paid" =>
          delivered[o] = 0 /\ \A l \in Levels : rewarded[<<o, l>>] = 0
    /\ orders[o].status = "paid" /\ orders[o].kind # "balance" => delivered[o] > 0 \/ o \in lost

\* The orders that a bill may have: no balance payment, and subscriptions only by
\* the first payment at the provider.
Billed(o, via) ==
    /\ o \in Orders /\ orders[o].status # "none" /\ orders[o].kind # "balance"
    /\ via # "qr" => orders[o].kind # "recurring"

\* A bill of a provider is the one its order knows; a payment that Telegram has
\* taken waits in its message, at the order's lock, or was delivered or lost.
BillTrue(b) ==
    bills[b].status # "none" =>
        /\ Billed(bills[b].order, bills[b].via)
        /\ bills[b].via = "qr" => orders[bills[b].order].payment = b
        /\ bills[b].status = "paid" /\ bills[b].via = "telegram" =>
              \/ b \in updates
              \/ \E t \in Tasks : Holds(t, {"order"}) /\ tasks[t].order = bills[b].order
              \/ delivered[bills[b].order] > 0
              \/ bills[b].order \in lost

\* What a handler still owes to its order.
Owing == {"panel", "deduct", "reward"}

TaskTrue(r) ==
    /\ r.pc # "idle" => r.user \in Users
    /\ r.pc \notin {"idle", "keypanel"} => r.order \in Orders /\ orders[r.order].status # "none"
    /\ r.pc \in {"bill", "ask", "order", "end"} \cup Owing => orders[r.order].kind # "balance"
    /\ r.pc = "bill" => orders[r.order].payment = None
    /\ r.pc \in {"end"} \cup Owing => orders[r.order].status = "paid"
    /\ r.pc \in {"order", "panel", "deduct"} => r.level = 1
    /\ r.pc \in Owing => \A l \in Levels : l >= r.level => rewarded[<<r.order, l>>] = 0
    /\ r.pc \in {"deduct", "reward"} => r.referrer \in Users

\* One handler makes the bill of an order, and one settles it.
Alone ==
    \A t, s \in Tasks :
        /\ tasks[t].order = tasks[s].order
        /\ \/ Holds(t, Owing) /\ Holds(s, Owing)
           \/ Holds(t, {"bill"}) /\ Holds(s, {"bill"})
        => t = s

\* The share on a screen is a part of its price; a quote is charged when it is
\* taken out of the FSM data of its owner.
ScreenTrue(u) ==
    /\ fsm[u].deduct <= fsm[u].price
    /\ fsm[u].setup # None => orders[fsm[u].setup].status # "none"
    /\ fsm[u].quote # None => quotes[fsm[u].quote].owner = u /\ charged[fsm[u].quote] = 0

QuoteTrue(q) ==
    /\ quotes[q].owner = None => charged[q] = 0
    /\ quotes[q].owner # None => quotes[q].tariff \in Tariffs

UpdatesTrue == \A b \in updates : bills[b].status = "paid"

IInv ==
    /\ TypeOK
    /\ \A o \in Orders : OrderTrue(o)
    /\ \A b \in Bills : BillTrue(b)
    /\ \A t \in Tasks : TaskTrue(tasks[t])
    /\ Alone
    /\ \A u \in Users : ScreenTrue(u)
    /\ \A q \in Quotes : QuoteTrue(q)
    /\ UpdatesTrue
    /\ DeliveredOnce /\ ChargedAsShown
=============================================================================
