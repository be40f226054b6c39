--------------------------------- MODULE Orders ---------------------------------
(***************************************************************************)
(* The handlers of the legacy shop: from the purchase page to a paid order *)
(* and a key (bot/handlers/user/payments/*.py, bot/services/billing.py).   *)
(*                                                                         *)
(* The process is one asyncio thread.  A handler is a task whose pc names  *)
(* the await it is at; between two awaits it runs alone, but it may die    *)
(* between any two transactions.  The FSM data of the users and the locks  *)
(* live in memory only.                                                    *)
(***************************************************************************)
EXTENDS OrderBook

CONSTANTS Tasks,        \* handlers that may run at once
          Quotes,       \* tokens of the balance screens
          Visits,       \* bound: the sets of taps that users make in one behaviour
          Minimum,      \* the least price that a provider accepts
          Reward,       \* what an order pays to the referrer of each level
          MaxCrashes    \* bound on the deaths of the process

Kinds == {"page", "telegram", "crypto", "qr", "recurring", "screen", "balance", "share",
          "setup", "home", "reprice", "void"}

Levels == 1..3

ASSUME OrdersAssumption ==
    /\ Reward \in [Levels -> Nat]
    /\ Minimum \in [Providers -> Nat]
    /\ None \notin Tasks \cup Quotes
    /\ Visits \subseteq SUBSET Kinds
    /\ MaxCrashes \in Nat

VARIABLES fsm,       \* FSM data of each user, in memory
          tasks,     \* the handlers at work
          orderLock, \* _payment_order_locks
          userLock,  \* user_locks
          updates,   \* successful_payment messages still to be handled
          quotes,    \* what each balance screen showed
          subs,      \* keys with an active subscription
          crashes,
          taps,      \* the taps of this behaviour
          charged,   \* taken from the balance for each quote
          delivered, \* periods or keys each order was given
          taken,     \* taken from the balance for each order
          rewarded,  \* rewards paid for each order and level
          lost       \* orders whose handler or message died with the process

volatile == <<fsm, tasks, orderLock, userLock>>
history == <<charged, delivered, taken, rewarded, lost>>
vars == <<book, volatile, updates, quotes, subs, crashes, taps, history>>

\* balance_to_deduct, tariff_price_cents, tariff_id, key_id; balance_quote;
\* new_key_order_id (new_key_id is the key of that order).
Data == [deduct : Nat, price : Nat, tariff : Tariffs \cup {None}, key : Keys \cup {None},
         quote : Quotes \cup {None}, setup : Orders \cup {None}]

NoData == [deduct |-> 0, price |-> 0, tariff |-> None, key |-> None, quote |-> None, setup |-> None]

\* The waits of a handler: for the provider to make a bill or tell its state; for
\* the order's lock, the panel, the payer's lock, a referrer's lock; and the end.
Task == [pc : {"idle", "bill", "ask", "order", "panel", "deduct", "reward", "end", "keypanel", "add"},
         user : Users \cup {None}, key : Keys \cup {None}, order : Orders \cup {None},
         via : {"telegram", "qr", "crypto", "balance"}, now : BOOLEAN,
         amount : Nat, deduct : Nat, level : 1..4, referrer : Users \cup {None}]

Idle == [pc |-> "idle", user |-> None, key |-> None, order |-> None, via |-> "qr",
         now |-> FALSE, amount |-> 0, deduct |-> 0, level |-> 1, referrer |-> None]

Quote == [owner : Users \cup {None}, tariff : Tariffs \cup {None}, key : Keys \cup {None}, price : Nat]

NoQuote == [owner |-> None, tariff |-> None, key |-> None, price |-> 0]

TypeOK ==
    /\ BookTypeOK
    /\ fsm \in [Users -> Data]
    /\ tasks \in [Tasks -> Task]
    /\ orderLock \in [Orders -> Tasks \cup {None}]
    /\ userLock \in [Users -> Tasks \cup {None}]
    /\ updates \subseteq Bills
    /\ quotes \in [Quotes -> Quote]
    /\ crashes \in 0..MaxCrashes /\ taps \in Visits
    /\ subs \subseteq Keys
    /\ charged \in [Quotes -> Nat]
    /\ delivered \in [Orders -> Nat]
    /\ taken \in [Orders -> Nat]
    /\ rewarded \in [Orders \X Levels -> Nat]
    /\ lost \subseteq Orders

Init ==
    /\ BookInit
    /\ fsm = [u \in Users |-> NoData]
    /\ tasks = [t \in Tasks |-> Idle]
    /\ orderLock = [o \in Orders |-> None]
    /\ userLock = [u \in Users |-> None]
    /\ updates = {}
    /\ quotes = [q \in Quotes |-> NoQuote]
    /\ crashes = 0
    /\ taps \in Visits
    /\ subs = {}
    /\ charged = [q \in Quotes |-> 0]
    /\ delivered = [o \in Orders |-> 0]
    /\ taken = [o \in Orders |-> 0]
    /\ rewarded = [x \in Orders \X Levels |-> 0]
    /\ lost = {}

At(t, pc) == tasks[t].pc = pc

Goto(t, pc) == tasks' = [tasks EXCEPT ![t].pc = pc]

Leave(t) == tasks' = [tasks EXCEPT ![t] = Idle]

Start(t, task) == At(t, "idle") /\ tasks' = [tasks EXCEPT ![t] = task]

OwnKey(u, k) == k = None \/ get_key_details_for_user(k, u)

(***************************************************************************)
(* Purchase pages and invoices.                                            *)
(***************************************************************************)

\* The page makes an order before anything is chosen, for its buttons.
_render_buy_page(u, o) ==
    /\ "page" \in taps /\ orders[o].status = "none"
    /\ orders' = [orders EXCEPT ![o] =
                    [create_pending_order(u, None, "none", None) EXCEPT !.page = TRUE]]
    /\ UNCHANGED <<keys, balance, shop, bills, volatile, updates, quotes, subs, crashes, taps, history>>

\* The button carries the order of the page, whatever became of it, or none.
PageOrNew(u, o, t, kind) ==
    \/ /\ orders[o].page /\ orders[o].owner = u
       /\ orders' = [orders EXCEPT ![o] = update_order_tariff(o, t, kind)]
    \/ /\ orders[o].status = "none"
       /\ orders' = [orders EXCEPT ![o] = create_pending_order(u, t, kind, None)]

Renewal(u, o, t, k, kind) ==
    /\ get_key_details_for_user(k, u) /\ orders[o].status = "none"
    /\ orders' = [orders EXCEPT ![o] = create_pending_order(u, t, kind, k)]

\* An invoice over the whole price, shown once the order is there.
Invoice(o, b, t, kind) ==
    /\ kind \in taps /\ bills[b].status = "none"
    /\ bills' = [bills EXCEPT ![b] = [NoBill EXCEPT !.status = "open", !.order = o, !.via = kind,
                                                    !.amount = price[t]]]
    /\ UNCHANGED <<keys, balance, shop, volatile, updates, quotes, subs, crashes, taps, history>>

pay_stars_invoice(u, o, b, t) == PageOrNew(u, o, t, "telegram") /\ Invoice(o, b, t, "telegram")

renew_stars_invoice(u, o, b, t, k) == Renewal(u, o, t, k, "telegram") /\ Invoice(o, b, t, "telegram")

pay_cards_invoice(u, o, b, t) ==
    PageOrNew(u, o, t, "telegram") /\ price[t] > 0 /\ Invoice(o, b, t, "telegram")

renew_cards_invoice(u, o, b, t, k) ==
    Renewal(u, o, t, k, "telegram") /\ price[t] > 0 /\ Invoice(o, b, t, "telegram")

pay_crypto_invoice(u, o, b, t) == PageOrNew(u, o, t, "crypto") /\ Invoice(o, b, t, "crypto")

\* The back button leads here again, with the order that was made the first time.
renew_crypto_invoice(u, o, b, t, k) ==
    /\ \/ Renewal(u, o, t, k, "crypto")
       \/ /\ orders[o].kind = "crypto" /\ orders[o].key = k /\ get_key_details_for_user(k, u)
          /\ orders' = [orders EXCEPT ![o] = update_order_tariff(o, t, "crypto")]
    /\ Invoice(o, b, t, "crypto")

\* The order first, then the bill at the provider.
create_qr_payment_flow(t, u, o, tariff, k) ==
    /\ "qr" \in taps /\ orders[o].status = "none"
    /\ orders' = [orders EXCEPT ![o] = create_pending_order(u, tariff, "qr", k)]
    /\ Start(t, [Idle EXCEPT !.pc = "bill", !.user = u, !.order = o, !.amount = price[tariff]])
    /\ UNCHANGED <<keys, balance, shop, bills, fsm, orderLock, userLock, updates, quotes, subs, crashes, taps, history>>

\* The first payment of a subscription, which saves the means of payment.
_create_yookassa_subscription_initial_flow(t, u, o, tariff, k) ==
    /\ "recurring" \in taps /\ orders[o].status = "none"
    /\ orders' = [orders EXCEPT ![o] = create_pending_order(u, tariff, "recurring", k)]
    /\ Start(t, [Idle EXCEPT !.pc = "bill", !.user = u, !.order = o, !.amount = price[tariff]])
    /\ UNCHANGED <<keys, balance, shop, bills, fsm, orderLock, userLock, updates, quotes, subs, crashes, taps, history>>

qr_pay_create(t, u, o, tariff) ==
    /\ price[tariff] > 0
    /\ IF recurring[tariff] THEN _create_yookassa_subscription_initial_flow(t, u, o, tariff, None)
       ELSE create_qr_payment_flow(t, u, o, tariff, None)

renew_qr_create(t, u, o, tariff, k) ==
    /\ get_key_details_for_user(k, u) /\ price[tariff] > 0
    /\ IF recurring[tariff] THEN _create_yookassa_subscription_initial_flow(t, u, o, tariff, k)
       ELSE create_qr_payment_flow(t, u, o, tariff, k)

wata_pay_create(t, u, o, tariff) ==
    price[tariff] >= Minimum["wata"] /\ create_qr_payment_flow(t, u, o, tariff, None)

renew_wata_create(t, u, o, tariff, k) ==
    /\ get_key_details_for_user(k, u) /\ price[tariff] >= Minimum["wata"]
    /\ create_qr_payment_flow(t, u, o, tariff, k)

platega_pay_create(t, u, o, tariff) ==
    price[tariff] >= Minimum["platega"] /\ create_qr_payment_flow(t, u, o, tariff, None)

renew_platega_create(t, u, o, tariff, k) ==
    /\ get_key_details_for_user(k, u) /\ price[tariff] >= Minimum["platega"]
    /\ create_qr_payment_flow(t, u, o, tariff, k)

cardlink_pay_create(t, u, o, tariff) ==
    price[tariff] >= Minimum["cardlink"] /\ create_qr_payment_flow(t, u, o, tariff, None)

renew_cardlink_create(t, u, o, tariff, k) ==
    /\ get_key_details_for_user(k, u) /\ price[tariff] >= Minimum["cardlink"]
    /\ create_qr_payment_flow(t, u, o, tariff, k)

\* The provider made the bill and the order learns its id; or it refused, and the
\* order stays without one.
BillMade(t) ==
    /\ At(t, "bill")
    /\ \/ \E b \in Bills :
            /\ bills[b].status = "none" /\ tasks[t].amount > 0
            /\ bills' = [bills EXCEPT ![b] = [NoBill EXCEPT !.status = "open", !.order = tasks[t].order,
                                              !.amount = tasks[t].amount, !.share = tasks[t].deduct]]
            /\ orders' = save_payment_id(tasks[t].order, b)
       \/ UNCHANGED <<bills, orders>>
    /\ Leave(t)
    /\ UNCHANGED <<keys, balance, shop, fsm, orderLock, userLock, updates, quotes, subs, crashes, taps, history>>

(***************************************************************************)
(* Paying from the balance.                                                *)
(***************************************************************************)

Least(a, b) == IF a < b THEN a ELSE b

\* The screen offers the balance towards the price, under the user's lock, and
\* replaces the quote of any earlier screen.
ShowBalance(u, q, t, k) ==
    /\ "screen" \in taps /\ userLock[u] = None
    /\ quotes[q] = NoQuote /\ price[t] > 0 /\ OwnKey(u, k) /\ balance[u] > 0
    /\ quotes' = [quotes EXCEPT ![q] = [owner |-> u, tariff |-> t, key |-> k, price |-> price[t]]]
    /\ fsm' = [fsm EXCEPT ![u] = [@ EXCEPT !.quote = q, !.deduct = Least(balance[u], price[t]),
                                           !.price = price[t], !.tariff = t, !.key = k]]
    /\ UNCHANGED <<book, tasks, orderLock, userLock, updates, subs, crashes, taps, history>>

\* Mistake: the quote is trusted, its terms are not read again.
StillOffered(u, q) == OwnKey(u, quotes[q].key)

\* The quote is consumed, then compared with what is offered now.
SameTerms(u, q) == price[quotes[q].tariff] = quotes[q].price /\ OwnKey(u, quotes[q].key)

Consume(u) == fsm' = [fsm EXCEPT ![u].quote = None, ![u].deduct = 0]

\* pay_with_balance: one confirmed quote, under the user's lock.
PayWithBalance(t, u, q) ==
    LET k == quotes[q].key
        cents == price[quotes[q].tariff]
        pays == SameTerms(u, q) /\ cents > 0 /\ balance[u] >= cents
    IN /\ "balance" \in taps /\ userLock[u] = None
       /\ fsm[u].quote = q /\ quotes[q].owner = u
       /\ UNCHANGED <<shop, bills, orderLock, updates, quotes, subs, crashes, taps, delivered, taken, rewarded, lost>>
       /\ \/ /\ ~pays
             /\ Consume(u)
             /\ UNCHANGED <<orders, keys, balance, tasks, userLock, charged>>
          \* A renewal waits for the panel with the lock held.
          \/ /\ pays /\ k # None
             /\ Consume(u)
             /\ deduct_from_balance(u, cents)
             /\ charged' = [charged EXCEPT ![q] = @ + cents]
             /\ Start(t, [Idle EXCEPT !.pc = "keypanel", !.user = u, !.key = k, !.via = "balance"])
             /\ userLock' = [userLock EXCEPT ![u] = t]
             /\ UNCHANGED <<orders, keys>>
          \* A new key is a draft with an order of its own, which stays pending.
          \/ /\ pays /\ k = None
             /\ \E new \in Keys, o \in Orders :
                  /\ orders[o].status = "none"
                  /\ create_initial_vpn_key(new, u)
                  /\ orders' = [orders EXCEPT ![o] =
                                  create_pending_order(u, quotes[q].tariff, "balance", new)]
                  /\ fsm' = [fsm EXCEPT ![u].quote = None, ![u].deduct = 0, ![u].setup = o]
             /\ deduct_from_balance(u, cents)
             /\ charged' = [charged EXCEPT ![q] = @ + cents]
             /\ UNCHANGED <<tasks, userLock>>

\* The panel answered, well or not: the lock is released, and for the administrators
\* the payment is recorded as an order, when it can be.
BalanceRenewed(t) ==
    LET u == tasks[t].user
    IN /\ At(t, "keypanel")
       /\ userLock' = [userLock EXCEPT ![u] = None]
       /\ Leave(t)
       /\ \/ \E o \in Orders :
               /\ orders[o].status = "none"
               /\ orders' = [orders EXCEPT ![o] =
                               [create_pending_order(u, None, "balance", tasks[t].key) EXCEPT !.status = "paid"]]
          \/ UNCHANGED orders
       /\ UNCHANGED <<keys, balance, shop, bills, fsm, orderLock, updates, quotes, subs, crashes, taps, history>>

\* pay_card_balance and pay_qr_balance: what the screen left in the FSM data, or
\* else the balance of now; nothing is set aside.
Share(u, t) ==
    LET known == fsm[u].tariff # None
        full == IF fsm[u].price > 0 THEN fsm[u].price ELSE price[t]
    IN [tariff |-> IF known THEN fsm[u].tariff ELSE t,
        price |-> full,
        deduct |-> IF fsm[u].deduct > 0 THEN fsm[u].deduct ELSE Least(balance[u], full)]

\* What stays to be paid is the amount of a bill; an amount of 0 is refused.
PayShare(u, o, q, kind) ==
    LET s == Share(u, quotes[q].tariff)
        k == IF fsm[u].key # None THEN fsm[u].key ELSE quotes[q].key
    IN /\ "share" \in taps /\ quotes[q].owner = u /\ orders[o].status = "none"
       /\ fsm' = [fsm EXCEPT ![u] = [@ EXCEPT !.deduct = s.deduct, !.price = s.price,
                                              !.tariff = s.tariff, !.key = k]]
       /\ orders' = [orders EXCEPT ![o] = create_pending_order(u, s.tariff, kind, k)]
       /\ UNCHANGED <<keys, balance, shop, orderLock, userLock, updates, quotes, subs, crashes, taps, history>>

pay_card_balance_handler(u, o, q) ==
    LET s == Share(u, quotes[q].tariff)
    IN /\ PayShare(u, o, q, "telegram")
       /\ IF s.price > s.deduct
          THEN \E b \in Bills :
                 /\ bills[b].status = "none"
                 /\ bills' = [bills EXCEPT ![b] =
                                [NoBill EXCEPT !.status = "open", !.order = o, !.via = "telegram",
                                               !.amount = s.price - s.deduct, !.share = s.deduct]]
          ELSE UNCHANGED bills
       /\ UNCHANGED tasks

pay_qr_balance_handler(t, u, o, q) ==
    LET s == Share(u, quotes[q].tariff)
    IN /\ PayShare(u, o, q, "qr")
       /\ Start(t, [Idle EXCEPT !.pc = "bill", !.user = u, !.order = o,
                                !.amount = s.price - s.deduct, !.deduct = s.deduct])
       /\ UNCHANGED bills

(***************************************************************************)
(* The user pays, or the bill lapses; the administrator sets a price.      *)
(***************************************************************************)
\* With a first payment YooKassa saves the means of payment, or it does not.
PayBill(b) ==
    /\ bills[b].status = "open"
    /\ \E saved \in {TRUE, orders[bills[b].order].kind # "recurring"} :
          bills' = [bills EXCEPT ![b].status = "paid", ![b].saved = saved]
    /\ updates' = IF bills[b].via = "telegram" THEN updates \cup {b} ELSE updates
    /\ UNCHANGED <<orders, keys, balance, shop, volatile, quotes, subs, crashes, taps, history>>

VoidBill(b) ==
    /\ "void" \in taps /\ bills[b].status = "open"
    /\ bills' = [bills EXCEPT ![b].status = "void"]
    /\ UNCHANGED <<orders, keys, balance, shop, volatile, updates, quotes, subs, crashes, taps, history>>

Reprice(t) ==
    /\ "reprice" \in taps
    /\ \E p \in Prices : p # price[t] /\ price' = [price EXCEPT ![t] = p]
    /\ UNCHANGED <<orders, keys, balance, recurring, bills, volatile, updates, quotes, subs, crashes, taps, history>>

(***************************************************************************)
(* Payments come in.                                                       *)
(***************************************************************************)

\* complete_payment_flow reads the share from the FSM data before the order.
Flow(u, o, via) == [Idle EXCEPT !.pc = "order", !.user = u, !.order = o, !.via = via,
                                !.deduct = IF via = "crypto" THEN 0 ELSE fsm[u].deduct]

\* successful_payment of Telegram Stars or cards.
TelegramPaid(t, b) ==
    LET o == bills[b].order
    IN /\ b \in updates
       /\ updates' = updates \ {b}
       /\ Start(t, Flow(orders[o].owner, o, "telegram"))
       /\ UNCHANGED <<book, fsm, orderLock, userLock, quotes, subs, crashes, taps, history>>

\* /start bill...: the user came back from the crypto processor.  The amount is
\* compared with the price of now.
CryptoReturn(t, b) ==
    LET o == bills[b].order
        u == orders[o].owner
    IN /\ bills[b].via = "crypto" /\ bills[b].status = "paid"
       /\ fsm' = [fsm EXCEPT ![u] = NoData]
       /\ IF bills[b].amount < price[orders[o].tariff]
          THEN UNCHANGED tasks
          ELSE Start(t, Flow(u, o, "crypto"))
       /\ UNCHANGED <<book, orderLock, userLock, updates, quotes, subs, crashes, taps, history>>

\* finalize_payment_ui: an order with a draft key goes on to the choice of a server.
Finalize(u, o, data) ==
    fsm' = [fsm EXCEPT ![u] = IF orders[o].key # None /\ keys[orders[o].key].status = "draft"
                              THEN [data EXCEPT !.setup = o] ELSE data]

Ask(t, u, o) == Start(t, [Idle EXCEPT !.pc = "ask", !.user = u, !.order = o, !.via = "qr"]) /\ UNCHANGED fsm

\* "I have paid", up to the question to the provider.
check_qr_payment_flow(t, u, o) ==
    /\ orders[o].owner = u /\ orders[o].kind = "qr"
    /\ \/ is_order_already_paid(o) /\ Finalize(u, o, fsm[u]) /\ UNCHANGED tasks
       \/ ~is_order_already_paid(o) /\ orders[o].payment # None /\ Ask(t, u, o)
    /\ UNCHANGED <<book, orderLock, userLock, updates, quotes, subs, crashes, taps, history>>

_run_yookassa_recurring_check(t, u, o) ==
    /\ orders[o].owner = u /\ orders[o].kind = "recurring" /\ orders[o].payment # None
    /\ Ask(t, u, o)
    /\ UNCHANGED <<book, orderLock, userLock, updates, quotes, subs, crashes, taps, history>>

\* The button, and the link that a provider returns the user by.
Check(t, u, o) == check_qr_payment_flow(t, u, o) \/ _run_yookassa_recurring_check(t, u, o)

\* The first payment of a subscription must have saved the means of payment, and an
\* order that was paid meanwhile is left alone.
_finalize_recurring_yookassa_payment(t) ==
    LET o == tasks[t].order
    IN IF is_order_already_paid(o) \/ ~bills[orders[o].payment].saved THEN Leave(t)
       ELSE tasks' = [tasks EXCEPT ![t] = Flow(tasks[t].user, o, "qr")]

\* The provider tells the state of the bill.  Only a recurring order fails with it.
Answer(t) ==
    LET o == tasks[t].order
    IN /\ At(t, "ask")
       /\ \/ /\ "succeeded" \in Answers(orders[o].payment)
             /\ IF orders[o].kind = "recurring" THEN _finalize_recurring_yookassa_payment(t)
                ELSE tasks' = [tasks EXCEPT ![t] = Flow(tasks[t].user, o, "qr")]
             /\ UNCHANGED orders
          \/ /\ "canceled" \in Answers(orders[o].payment)
             /\ IF orders[o].kind = "recurring" THEN fail_order(o) ELSE UNCHANGED orders
             /\ Leave(t)
       /\ UNCHANGED <<keys, balance, shop, bills, fsm, orderLock, userLock, updates, quotes, subs, crashes, taps, history>>

\* The bill is still open, the provider limits requests, or it cannot be reached.
NoAnswer(t) ==
    /\ At(t, "ask")
    /\ Leave(t)
    /\ UNCHANGED <<book, fsm, orderLock, userLock, updates, quotes, subs, crashes, taps, history>>

(***************************************************************************)
(* process_payment_order and complete_payment_flow.                        *)
(***************************************************************************)

\* What follows an order that this handler closed: a purchase in crypto rewards the
\* referrers, any other takes the share first.
After(t) ==
    [tasks[t] EXCEPT !.now = TRUE, !.referrer = tasks[t].user,
                     !.pc = IF tasks[t].via = "crypto" /\ orders[tasks[t].order].kind # "crypto" THEN "end"
                            ELSE IF tasks[t].deduct > 0 THEN "deduct" ELSE "reward"]

\* _mark_order_runtime_flags(processed_now = False): nothing but the screen.
AlreadyProcessed(t) == [tasks[t] EXCEPT !.pc = "end"]

\* A handler in crypto keeps the order's lock until the referrers are rewarded.
Holding(task) == IF task.via = "crypto" /\ task.pc = "reward" THEN {task.order} ELSE {}

\* Mistake: the order is not closed before the panel is asked.
RenewFirst(t) ==
    LET o == tasks[t].order
    IN /\ orders[o].key # None
       /\ UNCHANGED orders

\* The order is closed before its key is renewed, in a transaction of its own.
CloseForRenewal(t) ==
    LET o == tasks[t].order
    IN /\ orders[o].key # None
       /\ orders' = [orders EXCEPT ![o] = complete_order(o)]

ProcessOrder(t) ==
    LET o == tasks[t].order
        mine == [orderLock EXCEPT ![o] = t]
    IN /\ At(t, "order") /\ orderLock[o] = None
       /\ \/ /\ is_order_already_paid(o)
             /\ tasks' = [tasks EXCEPT ![t] = AlreadyProcessed(t)]
             /\ UNCHANGED <<orders, keys, orderLock, delivered>>
          \/ /\ ~is_order_already_paid(o) /\ ~Payable(o)
             /\ Leave(t)
             /\ UNCHANGED <<orders, keys, orderLock, delivered>>
          \/ /\ Payable(o)
             /\ CloseForRenewal(t)
             /\ Goto(t, "panel")
             /\ orderLock' = mine
             /\ delivered' = [delivered EXCEPT ![o] = @ + 1]
             /\ UNCHANGED keys
          \/ /\ Payable(o) /\ orders[o].key = None
             /\ \E k \in Keys :
                  /\ create_initial_vpn_key(k, orders[o].owner)
                  /\ orders' = [orders EXCEPT ![o] = [complete_order(o) EXCEPT !.key = k]]
             /\ tasks' = [tasks EXCEPT ![t] = After(t)]
             /\ orderLock' = IF o \in Holding(After(t)) THEN mine ELSE orderLock
             /\ delivered' = [delivered EXCEPT ![o] = @ + 1]
       /\ UNCHANGED <<balance, shop, bills, fsm, userLock, updates, quotes, subs, crashes, taps,
                      charged, taken, rewarded, lost>>

\* The panel was brought up to date, or not: the renewal stands.
PanelDone(t) ==
    LET o == tasks[t].order
    IN /\ At(t, "panel")
       /\ tasks' = [tasks EXCEPT ![t] = After(t)]
       /\ orderLock' = IF o \in Holding(After(t)) THEN orderLock ELSE [orderLock EXCEPT ![o] = None]
       /\ UNCHANGED <<book, fsm, userLock, updates, quotes, subs, crashes, taps, history>>

\* The share that the FSM data held is taken from the owner, as far as it is there.
TakeShare(t) ==
    LET o == tasks[t].order
        u == orders[o].owner
        cents == Least(tasks[t].deduct, balance[u])
    IN /\ At(t, "deduct") /\ userLock[u] = None
       /\ deduct_from_balance(u, cents)
       /\ taken' = [taken EXCEPT ![o] = @ + cents]
       /\ Goto(t, "reward")
       /\ UNCHANGED <<orders, keys, shop, bills, fsm, orderLock, userLock, updates, quotes, subs, crashes, taps,
                      charged, delivered, rewarded, lost>>

\* Mistake: the rewards go on until the last level, invited or not.
LastLevel(t) == tasks[t].level \notin Levels

ChainEnds(t) == Referrer[tasks[t].referrer] = None \/ tasks[t].level \notin Levels

\* process_referral_reward, one level after the other up the chain of referrers.
RewardLevel(t) ==
    LET o == tasks[t].order
        r == Referrer[tasks[t].referrer]
        l == tasks[t].level
    IN /\ At(t, "reward")
       /\ \/ /\ r # None /\ l \in Levels /\ userLock[r] = None
             /\ add_to_balance(r, Reward[l])
             /\ rewarded' = [rewarded EXCEPT ![<<o, l>>] = @ + 1]
             /\ tasks' = [tasks EXCEPT ![t].level = l + 1, ![t].referrer = r]
             /\ UNCHANGED orderLock
          \/ /\ ChainEnds(t)
             /\ Goto(t, "end")
             /\ orderLock' = IF o \in Holding(tasks[t]) THEN [orderLock EXCEPT ![o] = None] ELSE orderLock
             /\ UNCHANGED <<balance, rewarded>>
       /\ UNCHANGED <<orders, keys, shop, bills, fsm, userLock, updates, quotes, subs, crashes, taps,
                      charged, delivered, taken, lost>>

\* The share is dropped from the FSM data; a first payment leaves a subscription.
Finish(t) ==
    LET o == tasks[t].order
        begun == {k \in {orders[o].key} \ {None} : orders[o].kind = "recurring"}
    IN /\ At(t, "end")
       /\ Finalize(tasks[t].user, o, [fsm[tasks[t].user] EXCEPT !.deduct = 0])
       /\ subs' = subs \cup begun
       /\ Leave(t)
       /\ UNCHANGED <<book, orderLock, userLock, updates, quotes, crashes, taps, history>>

(***************************************************************************)
(* The new key gets its server (keys_config.py).                           *)
(***************************************************************************)
ChooseServer(t, u) ==
    /\ "setup" \in taps /\ fsm[u].setup # None
    /\ Start(t, [Idle EXCEPT !.pc = "add", !.user = u, !.order = fsm[u].setup])
    /\ UNCHANGED <<book, fsm, orderLock, userLock, updates, quotes, subs, crashes, taps, history>>

ServerAnswered(t) ==
    LET o == tasks[t].order
    IN /\ At(t, "add")
       /\ \/ /\ update_vpn_key_config(orders[o].key)
             /\ orders' = update_payment_key_id(o, orders[o].key)
             /\ fsm' = [fsm EXCEPT ![tasks[t].user] = NoData]
          \/ UNCHANGED <<keys, orders, fsm>>
       /\ Leave(t)
       /\ UNCHANGED <<balance, shop, bills, orderLock, userLock, updates, quotes, subs, crashes, taps, history>>

\* The start screen clears the FSM data.
Home(u) ==
    /\ "home" \in taps /\ fsm[u] # NoData
    /\ fsm' = [fsm EXCEPT ![u] = NoData]
    /\ UNCHANGED <<book, tasks, orderLock, userLock, updates, quotes, subs, crashes, taps, history>>

(***************************************************************************)
(* The process dies: between two awaits of its handlers, or between the    *)
(* two transactions of one.                                                *)
(***************************************************************************)
Dying == {t \in Tasks : tasks[t].order # None}

\* The new process drops every update that Telegram kept for the old one
\* (delete_webhook(drop_pending_updates=True)).
Restart ==
    /\ crashes < MaxCrashes /\ crashes' = crashes + 1
    /\ fsm' = [u \in Users |-> NoData]
    /\ tasks' = [t \in Tasks |-> Idle]
    /\ orderLock' = [o \in Orders |-> None]
    /\ userLock' = [u \in Users |-> None]
    /\ lost' = lost \cup {tasks[t].order : t \in Dying} \cup {bills[b].order : b \in updates}
    /\ updates' = {}
    /\ UNCHANGED <<keys, shop, bills, quotes, subs, taps, delivered, taken, rewarded>>

Crash == Restart /\ UNCHANGED <<orders, balance, charged>>

\* The order is paid, its key is neither renewed nor made.
DieInOrder(t) ==
    LET o == tasks[t].order
    IN /\ At(t, "order") /\ orderLock[o] = None /\ Payable(o)
       /\ orders' = [orders EXCEPT ![o] = complete_order(o)]
       /\ Restart
       /\ UNCHANGED <<balance, charged>>

\* The balance is taken, the key is neither renewed nor made.
DieInBalance(u, q) ==
    /\ "balance" \in taps /\ userLock[u] = None
    /\ fsm[u].quote = q /\ quotes[q].owner = u /\ SameTerms(u, q) /\ quotes[q].price > 0
    /\ deduct_from_balance(u, quotes[q].price)
    /\ charged' = [charged EXCEPT ![q] = @ + quotes[q].price]
    /\ Restart
    /\ UNCHANGED orders

(***************************************************************************)
(* The specification.                                                      *)
(***************************************************************************)
Work(t) ==
    \/ BillMade(t) \/ BalanceRenewed(t) \/ Answer(t) \/ ProcessOrder(t) \/ PanelDone(t)
    \/ TakeShare(t) \/ RewardLevel(t) \/ Finish(t) \/ ServerAnswered(t)

Buy(t, u, o) ==
    \E tariff \in Tariffs :
        \/ qr_pay_create(t, u, o, tariff) \/ wata_pay_create(t, u, o, tariff)
        \/ platega_pay_create(t, u, o, tariff) \/ cardlink_pay_create(t, u, o, tariff)
        \/ \E k \in Keys :
             \/ renew_qr_create(t, u, o, tariff, k) \/ renew_wata_create(t, u, o, tariff, k)
             \/ renew_platega_create(t, u, o, tariff, k) \/ renew_cardlink_create(t, u, o, tariff, k)

Tap(t, u) ==
    \/ \E o \in Orders : Buy(t, u, o) \/ Check(t, u, o)
    \/ \E q \in Quotes : PayWithBalance(t, u, q)
    \/ \E o \in Orders, q \in Quotes : pay_qr_balance_handler(t, u, o, q)
    \/ ChooseServer(t, u)

Page(u) ==
    \/ \E o \in Orders : _render_buy_page(u, o)
    \/ \E o \in Orders, b \in Bills, t \in Tariffs :
         \/ pay_stars_invoice(u, o, b, t) \/ pay_cards_invoice(u, o, b, t) \/ pay_crypto_invoice(u, o, b, t)
         \/ \E k \in Keys :
              \/ renew_stars_invoice(u, o, b, t, k) \/ renew_cards_invoice(u, o, b, t, k)
              \/ renew_crypto_invoice(u, o, b, t, k)
    \/ \E q \in Quotes, t \in Tariffs, k \in Keys \cup {None} : ShowBalance(u, q, t, k)
    \/ \E o \in Orders, q \in Quotes : pay_card_balance_handler(u, o, q)
    \/ Home(u)

Outside ==
    \/ \E b \in Bills : PayBill(b) \/ VoidBill(b)
    \/ \E t \in Tariffs : Reprice(t)

Dies == Crash \/ \E t \in Tasks : DieInOrder(t) \/ \E u \in Customers, q \in Quotes : DieInBalance(u, q)

Next ==
    \/ \E t \in Tasks :
         \/ Work(t) \/ NoAnswer(t)
         \/ \E u \in Customers : Tap(t, u)
         \/ \E b \in Bills : TelegramPaid(t, b) \/ CryptoReturn(t, b)
    \/ \E u \in Customers : Page(u)
    \/ Outside
    \/ Dies

Spec == Init /\ [][Next]_vars

\* asyncio runs every handler that can go on, and its requests end with an
\* answer or a timeout; Telegram repeats an update until it is taken.  Neither a provider's answer nor a tap of the user is fair.
Fairness ==
    /\ \A t \in Tasks : WF_vars(Work(t) \/ NoAnswer(t))
    /\ \A b \in Bills : SF_vars(\E t \in Tasks : TelegramPaid(t, b))

FairSpec == Spec /\ Fairness
=============================================================================
