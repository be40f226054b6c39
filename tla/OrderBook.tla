------------------------------- MODULE OrderBook -------------------------------
(***************************************************************************)
(* What the legacy shop keeps in SQLite: the orders (payments), the keys   *)
(* (vpn_keys), the referral balances (users.personal_balance) and the      *)
(* prices of the tariffs (database/db_payments.py, db_keys.py,             *)
(* db_users.py); and the bills that the payment providers keep.            *)
(*                                                                         *)
(* Money is counted in small units.  A price of 0 is a tariff that is not  *)
(* sold for roubles.  Every operator is one transaction.                   *)
(***************************************************************************)
EXTENDS Naturals, FiniteSets

CONSTANTS Users, Orders, Keys, Tariffs, Bills, None,
          Customers,   \* the users who buy; the others invited them
          Renewable,   \* keys of customers that are live from the start
          Prices,      \* the prices an administrator may set
          Welcome,     \* the balance every user starts with
          Referrer     \* users.referred_by

ASSUME BookAssumption ==
    /\ None \notin Users \cup Orders \cup Keys \cup Tariffs \cup Bills
    /\ Prices \subseteq Nat /\ Welcome \in Nat
    /\ Customers \subseteq Users /\ Renewable \subseteq Keys
    /\ Referrer \in [Users -> Users \cup {None}]

VARIABLES orders, keys, balance, price, bills,
          recurring    \* the tariffs that are sold as subscriptions

shop == <<price, recurring>>

book == <<orders, keys, balance, shop, bills>>

\* page: the id is on the buttons of a purchase page, which may be tapped again.
Order == [status : {"none", "pending", "paid", "failed"}, owner : Users \cup {None},
          tariff : Tariffs \cup {None}, kind : {"none", "telegram", "qr", "crypto", "balance", "recurring"},
          key : Keys \cup {None}, page : BOOLEAN, payment : Bills \cup {None}]

NoOrder == [status |-> "none", owner |-> None, tariff |-> None, kind |-> "none",
            key |-> None, page |-> FALSE, payment |-> None]

Key == [status : {"none", "draft", "live"}, owner : Users \cup {None}]

\* share: what the screen promised to take from the balance besides; saved: the means
\* of payment was kept for a subscription.
Bill == [status : {"none", "open", "paid", "void"}, order : Orders \cup {None},
         via : {"telegram", "qr", "crypto"}, amount : Nat, share : Nat, saved : BOOLEAN]

NoBill == [status |-> "none", order |-> None, via |-> "qr", amount |-> 0, share |-> 0, saved |-> FALSE]

BookTypeOK ==
    /\ orders \in [Orders -> Order]
    /\ keys \in [Keys -> Key]
    /\ balance \in [Users -> Nat]
    /\ price \in [Tariffs -> Nat]
    /\ recurring \in [Tariffs -> BOOLEAN]
    /\ bills \in [Bills -> Bill]

BookInit ==
    /\ orders = [o \in Orders |-> NoOrder]
    /\ \E u \in Customers :
         keys = [k \in Keys |-> IF k \in Renewable THEN [status |-> "live", owner |-> u]
                                ELSE [status |-> "none", owner |-> None]]
    /\ balance = [u \in Users |-> Welcome]
    /\ price \in [Tariffs -> Prices \ {0}]
    /\ recurring \in [Tariffs -> BOOLEAN]
    /\ bills = [b \in Bills |-> NoBill]

(***************************************************************************)
(* Orders.                                                                 *)
(***************************************************************************)
create_pending_order(u, t, kind, k) ==
    [NoOrder EXCEPT !.status = "pending", !.owner = u, !.tariff = t, !.kind = kind, !.key = k]

\* complete_order changes pending orders only.
Payable(o) == orders[o].status = "pending"

is_order_already_paid(o) == orders[o].status = "paid"

complete_order(o) == [orders[o] EXCEPT !.status = "paid"]

\* Only a pending order fails; a paid one stays.
fail_order(o) ==
    orders' = [orders EXCEPT ![o].status = IF @ = "pending" THEN "failed" ELSE @]

\* The tariff of an order changes in any status.
update_order_tariff(o, t, kind) == [orders[o] EXCEPT !.tariff = t, !.kind = kind]

update_payment_key_id(o, k) == [orders EXCEPT ![o].key = k]

\* Mistake: the id of the bill is shown but not saved.
forget_payment_id(o, b) == orders

\* save_yookassa_payment_id, save_wata_link_id, ...
save_payment_id(o, b) == [orders EXCEPT ![o].payment = b]

(***************************************************************************)
(* Keys and balances.                                                      *)
(***************************************************************************)
create_initial_vpn_key(k, u) ==
    /\ keys[k].status = "none"
    /\ keys' = [keys EXCEPT ![k] = [status |-> "draft", owner |-> u]]

update_vpn_key_config(k) == keys' = [keys EXCEPT ![k].status = "live"]

get_key_details_for_user(k, u) == k \in Keys /\ keys[k].status # "none" /\ keys[k].owner = u

add_to_balance(u, cents) == balance' = [balance EXCEPT ![u] = @ + cents]

deduct_from_balance(u, cents) ==
    /\ balance[u] >= cents
    /\ balance' = [balance EXCEPT ![u] = @ - cents]

(***************************************************************************)
(* The providers.  A bill is raw there; every provider names its states    *)
(* in its own way and the bot translates them.                             *)
(***************************************************************************)
Providers == {"yookassa", "wata", "platega", "cardlink"}

\* A name that the provider may give to the state of a bill.
Raw(p) == [open |-> CASE p = "wata" -> {"opened", "429"} [] p = "yookassa" -> {"pending", "waiting_for_capture"}
                      [] p = "platega" -> {"PENDING"} [] p = "cardlink" -> {"NEW", "PROCESS"},
           paid |-> CASE p = "wata" -> {"closed", "paid"} [] p = "yookassa" -> {"succeeded"}
                      [] p = "platega" -> {"CONFIRMED"} [] p = "cardlink" -> {"SUCCESS", "OVERPAID"},
           void |-> CASE p = "wata" -> {"declined", "expired", "canceled", "cancelled"}
                      [] p = "yookassa" -> {"canceled"}
                      [] p = "platega" -> {"CANCELED", "CANCELLED", "CHARGEBACKED"}
                      [] p = "cardlink" -> {"FAIL"}]

check_yookassa_payment_status(raw) == raw

check_wata_payment_status(raw) ==
    CASE raw \in {"closed", "paid"} -> "succeeded"
      [] raw \in {"declined", "expired", "canceled", "cancelled"} -> "canceled"
      [] OTHER -> "pending"

check_platega_payment_status(raw) ==
    CASE raw = "CONFIRMED" -> "succeeded"
      [] raw \in {"CANCELED", "CANCELLED", "CHARGEBACKED"} -> "canceled"
      [] OTHER -> "pending"

check_cardlink_payment_status(raw) ==
    CASE raw \in {"SUCCESS", "OVERPAID"} -> "succeeded"
      [] raw = "FAIL" -> "canceled"
      [] OTHER -> "pending"

\* The answers that check_qr_payment_flow may get about bill b.
Answers(b) ==
    UNION {LET raws == Raw(p)[bills[b].status]
           IN CASE p = "yookassa" -> {check_yookassa_payment_status(r) : r \in raws}
                [] p = "wata" -> {check_wata_payment_status(r) : r \in raws}
                [] p = "platega" -> {check_platega_payment_status(r) : r \in raws}
                [] p = "cardlink" -> {check_cardlink_payment_status(r) : r \in raws} : p \in Providers}
=============================================================================
