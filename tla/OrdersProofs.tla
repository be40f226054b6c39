------------------------------ MODULE OrdersProofs ------------------------------
(***************************************************************************)
(* The safety of OrdersProps for any number of users, orders, bills and    *)
(* handlers, any prices and rewards and any number of restarts.            *)
(***************************************************************************)
EXTENDS OrdersProps, TLAPS

-----------------------------------------------------------------------------
(* The forms of the records                                                *)

OrderStatuses == {"none", "pending", "paid", "failed"}

OrderKinds == {"none", "telegram", "qr", "crypto", "balance", "recurring"}

Labels == {"idle", "bill", "ask", "order", "panel", "deduct", "reward", "end", "keypanel", "add"}

Ways == {"telegram", "qr", "crypto", "balance"}

LEMMA CustomerIsUser == \A u \in Customers : u \in Users /\ u # None
BY BookAssumption

LEMMA OrderForm ==
    ASSUME NEW u \in Users, NEW t \in Tariffs \cup {None}, NEW k \in Keys \cup {None},
           NEW kind \in OrderKinds
    PROVE  LET r == create_pending_order(u, t, kind, k)
           IN  /\ r \in Order /\ r.status = "pending" /\ r.owner = u /\ r.kind = kind
               /\ ~r.page /\ r.payment = None
BY DEF create_pending_order, NoOrder, Order, OrderKinds

LEMMA OrderMade ==
    ASSUME NEW u \in Users, NEW t \in Tariffs \cup {None}, NEW k \in Keys \cup {None},
           NEW kind \in OrderKinds
    PROVE  \E r \in Order : /\ r = create_pending_order(u, t, kind, k)
                           /\ r.status = "pending" /\ r.owner = u /\ r.kind = kind
                           /\ ~r.page /\ r.payment = None
<1> DEFINE made == create_pending_order(u, t, kind, k)
<1>1. /\ made \in Order /\ made.status = "pending" /\ made.owner = u /\ made.kind = kind
      /\ ~made.page /\ made.payment = None
  BY OrderForm
<1>2. made = create_pending_order(u, t, kind, k)
  OBVIOUS
<1> HIDE DEF made
<1> QED BY <1>1, <1>2

LEMMA IdleForm == Idle \in Task /\ Idle.pc = "idle"
BY DEF Idle, Task

\* A handler makes a bill, asks for its state, brings a payment, renews on the
\* panel or chooses a server.
AtBill(u, o, a) == [Idle EXCEPT !.pc = "bill", !.user = u, !.order = o, !.amount = a]

AtShare(u, o, a, d) ==
    [Idle EXCEPT !.pc = "bill", !.user = u, !.order = o, !.amount = a, !.deduct = d]

Asking(u, o) == [Idle EXCEPT !.pc = "ask", !.user = u, !.order = o, !.via = "qr"]

Adding(u, o) == [Idle EXCEPT !.pc = "add", !.user = u, !.order = o]

Renewing(u, k) == [Idle EXCEPT !.pc = "keypanel", !.user = u, !.key = k, !.via = "balance"]

LEMMA BillForm ==
    ASSUME NEW u \in Users, NEW o \in Orders, NEW a \in Nat
    PROVE  /\ AtBill(u, o, a) \in Task /\ AtBill(u, o, a).pc = "bill"
           /\ AtBill(u, o, a).user = u /\ AtBill(u, o, a).order = o
BY IdleForm DEF AtBill, Task

LEMMA ShareForm ==
    ASSUME NEW u \in Users, NEW o \in Orders, NEW a \in Nat, NEW d \in Nat
    PROVE  /\ AtShare(u, o, a, d) \in Task /\ AtShare(u, o, a, d).pc = "bill"
           /\ AtShare(u, o, a, d).user = u /\ AtShare(u, o, a, d).order = o
BY IdleForm DEF AtShare, Task

LEMMA AskForm ==
    ASSUME NEW u \in Users, NEW o \in Orders
    PROVE  /\ Asking(u, o) \in Task /\ Asking(u, o).pc = "ask"
           /\ Asking(u, o).user = u /\ Asking(u, o).order = o
BY IdleForm DEF Asking, Task

LEMMA AddForm ==
    ASSUME NEW u \in Users, NEW o \in Orders
    PROVE  /\ Adding(u, o) \in Task /\ Adding(u, o).pc = "add"
           /\ Adding(u, o).user = u /\ Adding(u, o).order = o
BY IdleForm DEF Adding, Task

LEMMA PanelForm ==
    ASSUME NEW u \in Users, NEW k \in Keys
    PROVE  /\ Renewing(u, k) \in Task /\ Renewing(u, k).pc = "keypanel"
           /\ Renewing(u, k).user = u
BY IdleForm DEF Renewing, Task

LEMMA FlowForm ==
    ASSUME TypeOK, NEW u \in Users, NEW o \in Orders, NEW via \in {"telegram", "qr", "crypto"}
    PROVE  /\ Flow(u, o, via) \in Task /\ Flow(u, o, via).pc = "order"
           /\ Flow(u, o, via).user = u /\ Flow(u, o, via).order = o /\ Flow(u, o, via).level = 1
<1>1. fsm[u].deduct \in Nat
  BY DEF TypeOK, Data
<1>2. PICK d \in Nat : d = IF via = "crypto" THEN 0 ELSE fsm[u].deduct
  BY <1>1
<1>3. Flow(u, o, via) = [Idle EXCEPT !.pc = "order", !.user = u, !.order = o, !.via = via, !.deduct = d]
  BY <1>2 DEF Flow
<1>4. Idle.level = 1
  BY DEF Idle
<1> QED BY <1>3, <1>4, IdleForm DEF Task

\* Money
LEMMA LeastNat == ASSUME NEW a \in Nat, NEW b \in Nat
                  PROVE  Least(a, b) \in Nat /\ Least(a, b) <= a /\ Least(a, b) <= b
BY DEF Least

-----------------------------------------------------------------------------
(* Frames                                                                  *)

\* What no step takes back of an order.
Onward(o) ==
    orders[o].status # "none" =>
        /\ orders'[o].status # "none"
        /\ orders[o].kind # "balance" => orders'[o].kind # "balance"
        /\ orders[o].kind # "recurring" => orders'[o].kind # "recurring"
        /\ orders[o].status = "paid" => orders'[o].status = "paid"

PaymentKept(o) == orders[o].status # "none" => orders'[o].payment = orders[o].payment

OrdersOn == \A o \in Orders : Onward(o) /\ PaymentKept(o)

OrdersWell ==
    /\ orders' \in [Orders -> Order]
    /\ \A o \in Orders : OrderTrue(o)'
    /\ OrdersOn

\* A row becomes a new order that pends.
NewOrder(o, kind) ==
    /\ OrdersWell
    /\ orders'[o].status = "pending" /\ orders'[o].kind = kind /\ orders'[o].payment = None

Become(t, r) == tasks' = [tasks EXCEPT ![t] = r]

LEMMA OrdersSame == UNCHANGED orders => OrdersOn
BY DEF OrdersOn, Onward, PaymentKept

LEMMA TaskStays ==
    ASSUME NEW r \in Task, TaskTrue(r), \A o \in Orders : Onward(o), UNCHANGED rewarded,
           r.pc = "bill" => PaymentKept(r.order)
    PROVE  TaskTrue(r)'
<1>1. CASE r.pc \in {"idle", "keypanel"}
  BY <1>1 DEF TaskTrue, Owing
<1>2. CASE r.pc \notin {"idle", "keypanel"}
  <2>1. r.order \in Orders /\ orders[r.order].status # "none"
    BY <1>2 DEF TaskTrue
  <2>2. Onward(r.order)
    BY <2>1
  <2> QED BY <1>2, <2>1, <2>2 DEF TaskTrue, Onward, PaymentKept
<1> QED BY <1>1, <1>2

LEMMA Moved ==
    ASSUME TypeOK, NEW t \in Tasks, NEW r, Become(t, r)
    PROVE  \A s \in Tasks : tasks'[s] = IF s = t THEN r ELSE tasks[s]
BY DEF TypeOK, Become

\* One handler moves.
LEMMA TasksMove ==
    ASSUME IInv, NEW t \in Tasks, NEW r \in Task, Become(t, r), TaskTrue(r)',
           \A o \in Orders : Onward(o), UNCHANGED rewarded,
           \A s \in Tasks \ {t} : tasks[s].pc = "bill" => PaymentKept(tasks[s].order)
    PROVE  /\ tasks' \in [Tasks -> Task]
           /\ (\A s \in Tasks : TaskTrue(tasks[s]))'
<1>1. tasks \in [Tasks -> Task] /\ \A s \in Tasks : TaskTrue(tasks[s])
  BY DEF IInv, TypeOK
<1>2. \A s \in Tasks : tasks'[s] = IF s = t THEN r ELSE tasks[s]
  BY <1>1 DEF Become
<1>3. tasks' \in [Tasks -> Task]
  BY <1>1 DEF Become
<1>4. ASSUME NEW s \in Tasks PROVE TaskTrue(tasks[s])'
  <2>1. PICK q \in Task : q = tasks'[s]
    BY <1>3
  <2>2. TaskTrue(q)'
    <3>1. CASE s = t
      <4>1. q = r
        BY <1>2, <2>1, <3>1
      <4> QED BY <4>1 DEF TaskTrue
    <3>2. CASE s # t
      <4>1. q = tasks[s]
        BY <1>2, <2>1, <3>2
      <4>2. TaskTrue(q)
        BY <1>1, <4>1 DEF TaskTrue
      <4>3. q.pc = "bill" => PaymentKept(q.order)
        BY <3>2, <4>1 DEF PaymentKept
      <4> QED BY <4>2, <4>3, TaskStays
    <3> QED BY <3>1, <3>2
  <2> QED BY <2>1, <2>2 DEF TaskTrue
<1> QED BY <1>3, <1>4

\* A handler moves and the orders keep their bills.
LEMMA TasksMoveOn ==
    ASSUME IInv, NEW t \in Tasks, NEW r \in Task, Become(t, r), TaskTrue(r)',
           OrdersOn, UNCHANGED rewarded
    PROVE  /\ tasks' \in [Tasks -> Task]
           /\ (\A s \in Tasks : TaskTrue(tasks[s]))'
<1>1. \A o \in Orders : Onward(o)
  BY DEF OrdersOn
<1>2. \A s \in Tasks : tasks[s].pc = "bill" => PaymentKept(tasks[s].order)
  BY DEF IInv, TaskTrue, OrdersOn
<1> QED BY <1>1, <1>2, TasksMove

LEMMA TasksStay ==
    ASSUME IInv, UNCHANGED tasks, OrdersOn, UNCHANGED rewarded
    PROVE  /\ tasks' \in [Tasks -> Task]
           /\ (\A s \in Tasks : TaskTrue(tasks[s]))'
           /\ Alone'
<1>1. tasks \in [Tasks -> Task] /\ \A s \in Tasks : TaskTrue(tasks[s])
  BY DEF IInv, TypeOK
<1>2. ASSUME NEW s \in Tasks PROVE TaskTrue(tasks[s])'
  <2>1. PICK q \in Task : q = tasks[s]
    BY <1>1
  <2>2. TaskTrue(q)
    BY <1>1, <2>1 DEF TaskTrue
  <2>3. q.pc = "bill" => PaymentKept(q.order)
    BY <2>2 DEF TaskTrue, OrdersOn
  <2>4. \A o \in Orders : Onward(o)
    BY DEF OrdersOn
  <2>5. TaskTrue(q)'
    BY <2>2, <2>3, <2>4, TaskStays
  <2> QED BY <2>1, <2>5 DEF TaskTrue
<1>3. Alone'
  BY DEF IInv, Alone, Holds
<1> QED BY <1>1, <1>2, <1>3

\* The handler goes on with the order it had to itself, or with none of its own.
LEMMA AloneMoves ==
    ASSUME IInv, NEW t \in Tasks, NEW r \in Task, Become(t, r),
           \/ r.pc \notin Owing \cup {"bill"}
           \/ r.pc \in Owing /\ tasks[t].pc \in Owing /\ r.order = tasks[t].order
           \/ r.pc \in Owing /\ \A s \in Tasks : tasks[s].order = r.order => ~Holds(s, Owing)
           \/ r.pc = "bill" /\ \A s \in Tasks : tasks[s].order = r.order => ~Holds(s, {"bill"})
    PROVE  Alone'
<1>1. \A s \in Tasks : tasks'[s] = IF s = t THEN r ELSE tasks[s]
  BY Moved DEF IInv
<1>2. "bill" \notin Owing
  BY DEF Owing
<1>3. Alone
  BY DEF IInv
<1> SUFFICES ASSUME NEW s \in Tasks, NEW q \in Tasks,
                    tasks'[s].order = tasks'[q].order,
                    \/ tasks'[s].pc \in Owing /\ tasks'[q].pc \in Owing
                    \/ tasks'[s].pc = "bill" /\ tasks'[q].pc = "bill"
             PROVE  s = q
  BY DEF Alone, Holds
<1>4. CASE s = t /\ q # t
  BY <1>1, <1>2, <1>3, <1>4 DEF Alone, Holds
<1>5. CASE s # t /\ q = t
  BY <1>1, <1>2, <1>3, <1>5 DEF Alone, Holds
<1>6. CASE s # t /\ q # t
  BY <1>1, <1>2, <1>3, <1>6 DEF Alone, Holds
<1> QED BY <1>4, <1>5, <1>6

\* The bills stay justified while no handler leaves an order's lock empty-handed.
LEMMA BillStays ==
    ASSUME IInv, NEW b \in Bills, bills'[b] = bills[b], OrdersOn,
           b \in updates => b \in updates', lost \subseteq lost',
           \A o \in Orders : delivered[o] > 0 => delivered'[o] > 0,
           \A s \in Tasks :
               Holds(s, {"order"}) /\ tasks[s].order = bills[b].order /\ bills[b].via = "telegram" =>
                   \/ tasks'[s] = tasks[s]
                   \/ delivered'[tasks[s].order] > 0 \/ tasks[s].order \in lost'
    PROVE  BillTrue(b)'
<1> SUFFICES ASSUME bills[b].status # "none" PROVE BillTrue(b)'
  BY DEF BillTrue
<1>1. PICK o \in Orders : o = bills[b].order
  BY DEF IInv, BillTrue, Billed
<1>2. /\ orders[o].status # "none" /\ orders[o].kind # "balance"
      /\ bills[b].via # "qr" => orders[o].kind # "recurring"
      /\ bills[b].via = "qr" => orders[o].payment = b
  BY <1>1 DEF IInv, BillTrue, Billed
<1>3. /\ orders'[o].status # "none" /\ orders'[o].kind # "balance"
      /\ bills[b].via # "qr" => orders'[o].kind # "recurring"
      /\ bills[b].via = "qr" => orders'[o].payment = b
  BY <1>2 DEF OrdersOn, Onward, PaymentKept
<1>4. ASSUME bills[b].status = "paid", bills[b].via = "telegram"
      PROVE  \/ b \in updates'
             \/ \E t \in Tasks : tasks'[t].pc = "order" /\ tasks'[t].order = o
             \/ delivered'[o] > 0
             \/ o \in lost'
  <2>1. \/ b \in updates
        \/ \E t \in Tasks : Holds(t, {"order"}) /\ tasks[t].order = o
        \/ delivered[o] > 0
        \/ o \in lost
    BY <1>1, <1>4 DEF IInv, BillTrue
  <2>2. CASE \E t \in Tasks : Holds(t, {"order"}) /\ tasks[t].order = o
    BY <1>1, <1>4, <2>2 DEF Holds
  <2> QED BY <2>1, <2>2
<1> QED BY <1>1, <1>3, <1>4 DEF BillTrue, Billed, Holds

LEMMA BillsStay ==
    ASSUME IInv, UNCHANGED bills, OrdersOn, updates \subseteq updates', lost \subseteq lost',
           \A o \in Orders : delivered[o] > 0 => delivered'[o] > 0,
           \A s \in Tasks : Holds(s, {"order"}) =>
               \/ tasks'[s] = tasks[s]
               \/ delivered'[tasks[s].order] > 0 \/ tasks[s].order \in lost'
    PROVE  (\A b \in Bills : BillTrue(b))'
BY BillStays

LEMMA OrdersStay ==
    ASSUME IInv, UNCHANGED orders, UNCHANGED delivered, UNCHANGED rewarded, lost \subseteq lost'
    PROVE  orders' \in [Orders -> Order] /\ (\A o \in Orders : OrderTrue(o))'
BY DEF IInv, TypeOK, BookTypeOK, OrderTrue

\* The screens stay justified.
LEMMA ScreensStay ==
    ASSUME IInv, UNCHANGED <<fsm, quotes, charged>>, OrdersOn
    PROVE  /\ (\A u \in Users : ScreenTrue(u))'
           /\ (\A q \in Quotes : QuoteTrue(q))'
           /\ ChargedAsShown'
<1>1. \A u \in Users : fsm[u].setup \in Orders \cup {None}
  BY DEF IInv, TypeOK, Data
<1> QED BY <1>1 DEF IInv, ScreenTrue, QuoteTrue, ChargedAsShown, OrdersOn, Onward

-----------------------------------------------------------------------------
(* New and changed orders                                                  *)

\* An order is made on a free row.
LEMMA Made ==
    ASSUME IInv, NEW o \in Orders, orders[o].status = "none", NEW r \in Order,
           r.status \in {"pending", "paid"}, r.owner \in Users,
           r.page => r.kind \in {"none", "telegram", "crypto"},
           r.status = "paid" => r.kind = "balance",
           orders' = [orders EXCEPT ![o] = r], UNCHANGED <<delivered, rewarded, lost>>
    PROVE  OrdersWell /\ orders'[o] = r
<1>1. orders \in [Orders -> Order] /\ \A p \in Orders : OrderTrue(p)
  BY DEF IInv, TypeOK, BookTypeOK
<1>2. orders' \in [Orders -> Order] /\ orders'[o] = r
      /\ \A p \in Orders : p # o => orders'[p] = orders[p]
  BY <1>1
<1>3. OrdersOn
  BY <1>2 DEF OrdersOn, Onward, PaymentKept
<1>4. ASSUME NEW p \in Orders PROVE OrderTrue(p)'
  <2>1. CASE p = o
    BY <1>1, <1>2, <2>1 DEF OrderTrue
  <2>2. CASE p # o
    BY <1>1, <1>2, <2>2 DEF OrderTrue
  <2> QED BY <2>1, <2>2
<1> QED BY <1>2, <1>3, <1>4 DEF OrdersWell

\* An order of a page or of a crypto invoice changes its tariff and its means.
LEMMA Retariffed ==
    ASSUME IInv, NEW o \in Orders, orders[o].page \/ orders[o].kind = "crypto",
           NEW t \in Tariffs, NEW kind \in {"telegram", "crypto"},
           orders' = [orders EXCEPT ![o] = update_order_tariff(o, t, kind)],
           UNCHANGED <<delivered, rewarded, lost>>
    PROVE  OrdersWell /\ orders'[o].status # "none" /\ orders'[o].kind = kind
<1>1. orders \in [Orders -> Order] /\ \A p \in Orders : OrderTrue(p)
  BY DEF IInv, TypeOK, BookTypeOK
<1>2. PICK r \in Order : r = update_order_tariff(o, t, kind)
  BY <1>1 DEF update_order_tariff, Order
<1>3. /\ r.status = orders[o].status /\ r.owner = orders[o].owner /\ r.kind = kind
      /\ r.page = orders[o].page /\ r.payment = orders[o].payment
  BY <1>1, <1>2 DEF update_order_tariff, Order
<1>4. orders' \in [Orders -> Order] /\ orders'[o] = r
      /\ \A p \in Orders : p # o => orders'[p] = orders[p]
  BY <1>1, <1>2
<1>5. orders[o].status # "none" /\ orders[o].kind \in {"none", "telegram", "crypto"}
  BY <1>1 DEF OrderTrue
<1>6. OrdersOn
  BY <1>3, <1>4, <1>5 DEF OrdersOn, Onward, PaymentKept
<1>7. ASSUME NEW p \in Orders PROVE OrderTrue(p)'
  <2>1. CASE p = o
    BY <1>1, <1>3, <1>4, <1>5, <2>1 DEF OrderTrue
  <2>2. CASE p # o
    BY <1>1, <1>4, <2>2 DEF OrderTrue
  <2> QED BY <2>1, <2>2
<1> QED BY <1>3, <1>4, <1>5, <1>6, <1>7 DEF OrdersWell

\* A new order pends.
LEMMA Pends ==
    ASSUME IInv, NEW o \in Orders, orders[o].status = "none", NEW u \in Users,
           NEW t \in Tariffs \cup {None}, NEW k \in Keys \cup {None}, NEW kind \in OrderKinds,
           NEW c, c = create_pending_order(u, t, kind, k), orders' = [orders EXCEPT ![o] = c],
           UNCHANGED <<delivered, rewarded, lost>>
    PROVE  NewOrder(o, kind)
<1>1. PICK r \in Order : /\ r = create_pending_order(u, t, kind, k)
                        /\ r.status = "pending" /\ r.owner = u /\ r.kind = kind
                        /\ ~r.page /\ r.payment = None
  BY OrderMade
<1>2. orders' = [orders EXCEPT ![o] = r]
  BY <1>1
<1>3. /\ r.status \in {"pending", "paid"} /\ r.status # "paid" /\ r.owner \in Users /\ ~r.page
  BY <1>1
<1>4. OrdersWell /\ orders'[o] = r
  BY <1>2, <1>3, Made
<1> QED BY <1>1, <1>4 DEF NewOrder

-----------------------------------------------------------------------------
(* Pages and invoices                                                      *)

LEMMA RenderKeeps ==
    ASSUME IInv, NEW u \in Customers, NEW o \in Orders, _render_buy_page(u, o)
    PROVE  IInv'
<1>1. u \in Users
  BY CustomerIsUser
<1>2. PICK c \in Order : /\ c = create_pending_order(u, None, "none", None)
                        /\ c.status = "pending" /\ c.owner = u /\ c.kind = "none"
                        /\ ~c.page /\ c.payment = None
  <2>1. "none" \in OrderKinds /\ None \in Tariffs \cup {None} /\ None \in Keys \cup {None}
    BY DEF OrderKinds
  <2> QED BY <1>1, <2>1, OrderMade
<1>3. PICK r : r = [c EXCEPT !.page = TRUE]
  OBVIOUS
<1>4. r \in Order /\ r.status = "pending" /\ r.owner = u /\ r.kind = "none"
  BY <1>2, <1>3 DEF Order
<1>5. orders[o].status = "none" /\ orders' = [orders EXCEPT ![o] = r]
      /\ UNCHANGED <<keys, balance, shop, bills, volatile, updates, quotes, subs, crashes, taps,
                     history>>
  BY <1>2, <1>3 DEF _render_buy_page
<1>6. UNCHANGED <<delivered, rewarded, lost>> /\ UNCHANGED tasks
      /\ UNCHANGED <<fsm, quotes, charged>>
  BY <1>5 DEF volatile, history
<1>7. /\ orders' \in [Orders -> Order] /\ (\A p \in Orders : OrderTrue(p))' /\ OrdersOn
  BY <1>1, <1>4, <1>5, <1>6, Made DEF OrdersWell
<1>8. TypeOK'
  BY <1>5, <1>7 DEF IInv, TypeOK, BookTypeOK, shop, volatile, history
<1>9. (\A b \in Bills : BillTrue(b))'
  BY <1>5, <1>6, <1>7, BillsStay
<1>10. (\A s \in Tasks : TaskTrue(tasks[s]))' /\ Alone'
  BY <1>6, <1>7, TasksStay
<1>11. (\A v \in Users : ScreenTrue(v))' /\ (\A q \in Quotes : QuoteTrue(q))' /\ ChargedAsShown'
  BY <1>6, <1>7, ScreensStay
<1>12. UpdatesTrue' /\ DeliveredOnce'
  BY <1>5, <1>6 DEF IInv, UpdatesTrue, DeliveredOnce
<1> QED BY <1>7, <1>8, <1>9, <1>10, <1>11, <1>12 DEF IInv

\* A bill over an order that may have one is shown to its owner.
LEMMA BillOpens ==
    ASSUME IInv, NEW o \in Orders, NEW b \in Bills, NEW c \in Bill,
           bills[b].status = "none", bills' = [bills EXCEPT ![b] = c],
           c.status = "open", c.order = o,
           orders'[o].status # "none", orders'[o].kind # "balance",
           c.via # "qr" => orders'[o].kind # "recurring",
           c.via = "qr" => orders'[o].payment = b,
           \A p \in Orders : Onward(p),
           \A p \in Orders : PaymentKept(p) \/ (p = o /\ orders[o].payment = None),
           UNCHANGED <<updates, lost, delivered>>,
           \A s \in Tasks : Holds(s, {"order"}) => tasks'[s] = tasks[s]
    PROVE  /\ bills' \in [Bills -> Bill] /\ (\A d \in Bills : BillTrue(d))' /\ UpdatesTrue'
<1>1. bills \in [Bills -> Bill] /\ updates \subseteq Bills
  BY DEF IInv, TypeOK, BookTypeOK
<1>2. bills' \in [Bills -> Bill] /\ bills'[b] = c
      /\ \A d \in Bills : d # b => bills'[d] = bills[d]
  BY <1>1
<1>3. ASSUME NEW d \in Bills, bills'[d].status # "none" PROVE BillTrue(d)'
  <2>1. CASE d = b
    BY <1>2, <2>1 DEF BillTrue, Billed
  <2>2. CASE d # b
    <3>1. bills'[d] = bills[d] /\ bills[d].status # "none"
      BY <1>2, <1>3, <2>2
    <3>2. PICK p \in Orders : p = bills[d].order
      BY <3>1 DEF IInv, BillTrue, Billed
    <3>3. /\ orders[p].status # "none" /\ orders[p].kind # "balance"
          /\ bills[d].via # "qr" => orders[p].kind # "recurring"
          /\ bills[d].via = "qr" => orders[p].payment = d
      BY <3>1, <3>2 DEF IInv, BillTrue, Billed
    <3>4. bills[d].via = "qr" => orders'[p].payment = d
      <4>1. d # None
        BY BookAssumption
      <4> QED BY <3>3, <4>1 DEF PaymentKept
    <3>5. /\ orders'[p].status # "none" /\ orders'[p].kind # "balance"
          /\ bills[d].via # "qr" => orders'[p].kind # "recurring"
      BY <3>3 DEF Onward
    <3>6. ASSUME bills[d].status = "paid", bills[d].via = "telegram"
          PROVE  \/ d \in updates'
                 \/ \E t \in Tasks : tasks'[t].pc = "order" /\ tasks'[t].order = p
                 \/ delivered'[p] > 0
                 \/ p \in lost'
      <4>1. \/ d \in updates
            \/ \E t \in Tasks : Holds(t, {"order"}) /\ tasks[t].order = p
            \/ delivered[p] > 0
            \/ p \in lost
        BY <3>1, <3>2, <3>6 DEF IInv, BillTrue
      <4>2. CASE \E t \in Tasks : Holds(t, {"order"}) /\ tasks[t].order = p
        BY <4>2 DEF Holds
      <4> QED BY <4>1, <4>2
    <3> QED BY <3>1, <3>2, <3>4, <3>5, <3>6 DEF BillTrue, Billed, Holds
  <2> QED BY <2>1, <2>2
<1>4. (\A d \in Bills : BillTrue(d))'
  BY <1>3 DEF BillTrue
<1>5. \A d \in updates' : d # b
  BY DEF IInv, UpdatesTrue
<1>6. UpdatesTrue'
  BY <1>1, <1>2, <1>5 DEF IInv, UpdatesTrue
<1> QED BY <1>2, <1>4, <1>6

LEMMA PriceNat == ASSUME IInv, NEW t \in Tariffs PROVE price[t] \in Nat
BY DEF IInv, TypeOK, BookTypeOK

LEMMA InvoiceKeeps ==
    ASSUME IInv, NEW o \in Orders, NEW b \in Bills, NEW t \in Tariffs,
           NEW kind \in {"telegram", "crypto"}, Invoice(o, b, t, kind),
           OrdersWell, orders'[o].status # "none", orders'[o].kind = kind
    PROVE  IInv'
<1>1. bills[b].status = "none"
      /\ UNCHANGED <<keys, balance, price, recurring, fsm, tasks, orderLock, userLock, updates,
                     quotes, subs, crashes, taps, charged, delivered, taken, rewarded, lost>>
  BY DEF Invoice, shop, volatile, history
<1>11. orders' \in [Orders -> Order] /\ (\A p \in Orders : OrderTrue(p))' /\ OrdersOn
  BY DEF OrdersWell
<1>2. PICK c : c = [NoBill EXCEPT !.status = "open", !.order = o, !.via = kind, !.amount = price[t]]
  OBVIOUS
<1>3. NoBill \in Bill /\ price[t] \in Nat
  BY PriceNat DEF NoBill, Bill
<1>4. c \in Bill /\ c.status = "open" /\ c.order = o /\ c.via = kind
  BY <1>2, <1>3 DEF Bill
<1>5. bills' = [bills EXCEPT ![b] = c]
  BY <1>2 DEF Invoice
<1>6. /\ bills' \in [Bills -> Bill] /\ (\A d \in Bills : BillTrue(d))' /\ UpdatesTrue'
  <2>1. c.via # "qr" /\ orders'[o].kind # "balance" /\ orders'[o].kind # "recurring"
    BY <1>4
  <2>2. (\A p \in Orders : Onward(p)) /\ (\A p \in Orders : PaymentKept(p))
    BY <1>11 DEF OrdersOn
  <2> QED BY <1>1, <1>4, <1>5, <2>1, <2>2, BillOpens
<1>7. TypeOK'
  BY <1>1, <1>11, <1>6 DEF IInv, TypeOK, BookTypeOK
<1>8. (\A s \in Tasks : TaskTrue(tasks[s]))' /\ Alone'
  BY <1>1, <1>11, TasksStay
<1>9. (\A v \in Users : ScreenTrue(v))' /\ (\A q \in Quotes : QuoteTrue(q))' /\ ChargedAsShown'
  BY <1>1, <1>11, ScreensStay
<1>10. DeliveredOnce'
  BY <1>1 DEF IInv, DeliveredOnce
<1> QED BY <1>11, <1>6, <1>7, <1>8, <1>9, <1>10 DEF IInv

LEMMA PageOrNewMakes ==
    ASSUME IInv, NEW u \in Customers, NEW o \in Orders, NEW t \in Tariffs,
           NEW kind \in {"telegram", "crypto"}, PageOrNew(u, o, t, kind),
           UNCHANGED <<delivered, rewarded, lost>>
    PROVE  OrdersWell /\ orders'[o].status # "none" /\ orders'[o].kind = kind
<1>1. u \in Users /\ kind \in OrderKinds /\ None \in Keys \cup {None} /\ t \in Tariffs \cup {None}
  BY CustomerIsUser DEF OrderKinds
<1>2. CASE orders[o].page /\ orders' = [orders EXCEPT ![o] = update_order_tariff(o, t, kind)]
  BY <1>2, Retariffed
<1>3. CASE /\ orders[o].status = "none"
           /\ orders' = [orders EXCEPT ![o] = create_pending_order(u, t, kind, None)]
  <2> PICK k \in Keys \cup {None} : k = None
    OBVIOUS
  <2>1. PICK c : c = create_pending_order(u, t, kind, k)
    OBVIOUS
  <2>2. orders[o].status = "none" /\ orders' = [orders EXCEPT ![o] = c]
    BY <1>3, <2>1
  <2>3. NewOrder(o, kind)
    BY <1>1, <2>1, <2>2, Pends
  <2> QED BY <2>3 DEF NewOrder
<1> QED BY <1>2, <1>3 DEF PageOrNew

LEMMA RenewalMakes ==
    ASSUME IInv, NEW u \in Customers, NEW o \in Orders, NEW t \in Tariffs, NEW k \in Keys,
           NEW kind \in {"telegram", "crypto"}, Renewal(u, o, t, k, kind),
           UNCHANGED <<delivered, rewarded, lost>>
    PROVE  OrdersWell /\ orders'[o].status # "none" /\ orders'[o].kind = kind
<1>1. u \in Users /\ kind \in OrderKinds /\ k \in Keys \cup {None} /\ t \in Tariffs \cup {None}
  BY CustomerIsUser DEF OrderKinds
<1>2. PICK c : c = create_pending_order(u, t, kind, k)
  OBVIOUS
<1>3. orders[o].status = "none" /\ orders' = [orders EXCEPT ![o] = c]
  BY <1>2 DEF Renewal
<1>4. NewOrder(o, kind)
  BY <1>1, <1>2, <1>3, Pends
<1> QED BY <1>4 DEF NewOrder

LEMMA InvoiceFrame ==
    ASSUME NEW o, NEW b, NEW t, NEW kind, Invoice(o, b, t, kind)
    PROVE  UNCHANGED <<delivered, rewarded, lost>>
BY DEF Invoice, history

LEMMA PayInvoiceKeeps ==
    ASSUME IInv, NEW u \in Customers, NEW o \in Orders, NEW b \in Bills, NEW t \in Tariffs,
           \/ pay_stars_invoice(u, o, b, t) \/ pay_cards_invoice(u, o, b, t)
           \/ pay_crypto_invoice(u, o, b, t)
    PROVE  IInv'
<1>1. PICK kind \in {"telegram", "crypto"} : PageOrNew(u, o, t, kind) /\ Invoice(o, b, t, kind)
  BY DEF pay_stars_invoice, pay_cards_invoice, pay_crypto_invoice
<1>2. UNCHANGED <<delivered, rewarded, lost>>
  BY <1>1, InvoiceFrame
<1>3. /\ OrdersWell /\ orders'[o].status # "none" /\ orders'[o].kind = kind
  BY <1>1, <1>2, PageOrNewMakes
<1> QED BY <1>1, <1>3, InvoiceKeeps

LEMMA RenewInvoiceKeeps ==
    ASSUME IInv, NEW u \in Customers, NEW o \in Orders, NEW b \in Bills, NEW t \in Tariffs,
           NEW k \in Keys,
           \/ renew_stars_invoice(u, o, b, t, k) \/ renew_cards_invoice(u, o, b, t, k)
           \/ renew_crypto_invoice(u, o, b, t, k)
    PROVE  IInv'
<1>1. CASE renew_crypto_invoice(u, o, b, t, k) /\ ~Renewal(u, o, t, k, "crypto")
  <2>1. /\ orders[o].kind = "crypto" /\ Invoice(o, b, t, "crypto")
        /\ orders' = [orders EXCEPT ![o] = update_order_tariff(o, t, "crypto")]
    BY <1>1 DEF renew_crypto_invoice
  <2>2. UNCHANGED <<delivered, rewarded, lost>>
    BY <2>1, InvoiceFrame
  <2>3. /\ OrdersWell /\ orders'[o].status # "none" /\ orders'[o].kind = "crypto"
    BY <2>1, <2>2, Retariffed
  <2> QED BY <2>1, <2>3, InvoiceKeeps
<1>2. CASE ~(renew_crypto_invoice(u, o, b, t, k) /\ ~Renewal(u, o, t, k, "crypto"))
  <2>1. PICK kind \in {"telegram", "crypto"} : Renewal(u, o, t, k, kind) /\ Invoice(o, b, t, kind)
    BY <1>2 DEF renew_stars_invoice, renew_cards_invoice, renew_crypto_invoice
  <2>2. UNCHANGED <<delivered, rewarded, lost>>
    BY <2>1, InvoiceFrame
  <2>3. /\ OrdersWell /\ orders'[o].status # "none" /\ orders'[o].kind = kind
    BY <2>1, <2>2, RenewalMakes
  <2> QED BY <2>1, <2>3, InvoiceKeeps
<1> QED BY <1>1, <1>2

-----------------------------------------------------------------------------
(* Bills at a provider                                                     *)

\* An order that the handlers have at the bill, alone, is made on a free row.
BillAsked(t, u, o, tariff, k, kind) ==
    /\ orders[o].status = "none"
    /\ orders' = [orders EXCEPT ![o] = create_pending_order(u, tariff, kind, k)]
    /\ Start(t, [Idle EXCEPT !.pc = "bill", !.user = u, !.order = o, !.amount = price[tariff]])
    /\ UNCHANGED <<keys, balance, shop, bills, fsm, orderLock, userLock, updates, quotes, subs,
                   crashes, taps, history>>

LEMMA BillAskedKeeps ==
    ASSUME IInv, NEW t \in Tasks, NEW u \in Customers, NEW o \in Orders, NEW tariff \in Tariffs,
           NEW k \in Keys \cup {None}, NEW kind \in {"qr", "recurring"},
           BillAsked(t, u, o, tariff, k, kind)
    PROVE  IInv'
<1>1. u \in Users /\ kind \in OrderKinds /\ tariff \in Tariffs \cup {None} /\ kind # "balance"
  BY CustomerIsUser DEF OrderKinds
<1>2. UNCHANGED <<keys, balance, price, recurring, bills, fsm, orderLock, userLock, updates,
                  quotes, subs, crashes, taps, charged, delivered, taken, rewarded, lost>>
  BY DEF BillAsked, shop, history
<1>3. PICK c : c = create_pending_order(u, tariff, kind, k)
  OBVIOUS
<1>4. orders[o].status = "none" /\ orders' = [orders EXCEPT ![o] = c]
  BY <1>3 DEF BillAsked
<1>5. NewOrder(o, kind)
  <2>1. UNCHANGED <<delivered, rewarded, lost>>
    BY <1>2
  <2> QED BY <1>1, <1>3, <1>4, <2>1, Pends
<1>6. /\ orders' \in [Orders -> Order] /\ (\A p \in Orders : OrderTrue(p))' /\ OrdersOn
      /\ orders'[o].status # "none" /\ orders'[o].kind # "balance" /\ orders'[o].payment = None
  BY <1>1, <1>5 DEF NewOrder, OrdersWell
<1>7. PICK r : r = AtBill(u, o, price[tariff])
  OBVIOUS
<1>8. r \in Task /\ r.pc = "bill" /\ r.user = u /\ r.order = o
  <2>1. price[tariff] \in Nat /\ u \in Users
    BY <1>1, PriceNat
  <2> QED BY <1>7, <2>1, BillForm
<1>9. tasks[t].pc = "idle" /\ Become(t, r)
  BY <1>7 DEF BillAsked, Start, At, Become, AtBill
<1>10. TaskTrue(r)'
  BY <1>1, <1>6, <1>8 DEF TaskTrue, Owing
<1>11. /\ tasks' \in [Tasks -> Task] /\ (\A s \in Tasks : TaskTrue(tasks[s]))'
  BY <1>2, <1>6, <1>8, <1>9, <1>10, TasksMoveOn
<1>12. Alone'
  <2>1. \A s \in Tasks : tasks[s].order = o => ~Holds(s, {"bill"})
    BY <1>4 DEF IInv, TaskTrue, Holds
  <2> QED BY <1>8, <1>9, <2>1, AloneMoves
<1>13. (\A b \in Bills : BillTrue(b))'
  <2>1. \A s \in Tasks : Holds(s, {"order"}) => tasks'[s] = tasks[s]
    BY <1>9, Moved DEF IInv, Holds
  <2> QED BY <1>2, <1>6, <2>1, BillsStay
<1>14. TypeOK'
  BY <1>2, <1>6, <1>11 DEF IInv, TypeOK, BookTypeOK
<1>15. (\A v \in Users : ScreenTrue(v))' /\ (\A q \in Quotes : QuoteTrue(q))' /\ ChargedAsShown'
  BY <1>2, <1>6, ScreensStay
<1>16. UpdatesTrue' /\ DeliveredOnce'
  BY <1>2 DEF IInv, UpdatesTrue, DeliveredOnce
<1> QED BY <1>6, <1>11, <1>12, <1>13, <1>14, <1>15, <1>16 DEF IInv

LEMMA BuyKeeps ==
    ASSUME IInv, NEW t \in Tasks, NEW u \in Customers, NEW o \in Orders, Buy(t, u, o)
    PROVE  IInv'
<1>1. \E tariff \in Tariffs, k \in Keys \cup {None}, kind \in {"qr", "recurring"} :
        BillAsked(t, u, o, tariff, k, kind)
  BY DEF Buy, qr_pay_create, wata_pay_create, platega_pay_create, cardlink_pay_create,
         renew_qr_create, renew_wata_create, renew_platega_create, renew_cardlink_create,
         create_qr_payment_flow, _create_yookassa_subscription_initial_flow, BillAsked
<1>2. PICK tariff \in Tariffs, k \in Keys \cup {None}, kind \in {"qr", "recurring"} :
        BillAsked(t, u, o, tariff, k, kind)
  BY <1>1
<1> QED BY <1>2, BillAskedKeeps

\* A handler leaves without having held the lock of an order.
LEMMA LeaveMoves ==
    ASSUME IInv, NEW t \in Tasks, Leave(t), tasks[t].pc # "order"
    PROVE  /\ Become(t, Idle) /\ Idle \in Task /\ TaskTrue(Idle)'
           /\ \A s \in Tasks : Holds(s, {"order"}) => tasks'[s] = tasks[s]
           /\ Alone'
<1>1. Become(t, Idle)
  BY DEF Leave, Become
<1>2. Idle \in Task /\ Idle.pc = "idle"
  BY IdleForm
<1>3. TaskTrue(Idle)'
  BY <1>2 DEF TaskTrue, Owing, Idle
<1>4. \A s \in Tasks : Holds(s, {"order"}) => tasks'[s] = tasks[s]
  BY <1>1, Moved DEF IInv, Holds
<1>5. Idle.pc \notin Owing \cup {"bill"}
  BY <1>2 DEF Owing
<1>6. Alone'
  BY <1>1, <1>2, <1>5, AloneMoves
<1> QED BY <1>1, <1>2, <1>3, <1>4, <1>6

LEMMA BillMadeKeeps == ASSUME IInv, NEW t \in Tasks, BillMade(t) PROVE IInv'
<1>1. /\ tasks[t].pc = "bill" /\ Leave(t)
      /\ UNCHANGED <<keys, balance, price, recurring, fsm, orderLock, userLock, updates, quotes,
                     subs, crashes, taps, charged, delivered, taken, rewarded, lost>>
  BY DEF BillMade, At, shop, history
<1>2. /\ Become(t, Idle) /\ Idle \in Task /\ TaskTrue(Idle)' /\ Alone'
      /\ \A s \in Tasks : Holds(s, {"order"}) => tasks'[s] = tasks[s]
  BY <1>1, LeaveMoves
<1>3. UpdatesTrue /\ DeliveredOnce' /\ tasks[t] \in Task
  BY <1>1 DEF IInv, DeliveredOnce, TypeOK
<1>4. CASE UNCHANGED <<bills, orders>>
  <2>1. /\ orders' \in [Orders -> Order] /\ (\A o \in Orders : OrderTrue(o))' /\ OrdersOn
    BY <1>1, <1>4, OrdersStay, OrdersSame
  <2>2. (\A b \in Bills : BillTrue(b))'
    BY <1>1, <1>2, <1>4, <2>1, BillsStay
  <2>3. /\ tasks' \in [Tasks -> Task] /\ (\A s \in Tasks : TaskTrue(tasks[s]))'
    BY <1>1, <1>2, <2>1, TasksMoveOn
  <2>4. TypeOK'
    BY <1>1, <1>4, <2>1, <2>3 DEF IInv, TypeOK, BookTypeOK
  <2>5. (\A v \in Users : ScreenTrue(v))' /\ (\A q \in Quotes : QuoteTrue(q))' /\ ChargedAsShown'
    BY <1>1, <2>1, ScreensStay
  <2>6. UpdatesTrue'
    BY <1>1, <1>3, <1>4 DEF UpdatesTrue
  <2> QED BY <1>2, <1>3, <2>1, <2>2, <2>3, <2>4, <2>5, <2>6 DEF IInv
<1>5. ASSUME NEW b \in Bills, bills[b].status = "none",
             bills' = [bills EXCEPT ![b] = [NoBill EXCEPT !.status = "open",
                          !.order = tasks[t].order, !.amount = tasks[t].amount,
                          !.share = tasks[t].deduct]],
             orders' = save_payment_id(tasks[t].order, b)
      PROVE  IInv'
  <2>1. PICK o \in Orders : o = tasks[t].order
    BY <1>1 DEF IInv, TaskTrue
  <2>2. orders[o].status # "none" /\ orders[o].kind # "balance" /\ orders[o].payment = None
    BY <1>1, <2>1 DEF IInv, TaskTrue
  <2>3. PICK c : c = [NoBill EXCEPT !.status = "open", !.order = o, !.amount = tasks[t].amount,
                                    !.share = tasks[t].deduct]
    OBVIOUS
  <2>4. c \in Bill /\ c.status = "open" /\ c.order = o /\ c.via = "qr"
    <3>1. tasks[t].amount \in Nat /\ tasks[t].deduct \in Nat
      BY <1>3 DEF Task
    <3>2. NoBill \in Bill /\ NoBill.via = "qr"
      BY DEF NoBill, Bill
    <3> QED BY <2>3, <3>1, <3>2 DEF Bill
  <2>5. bills' = [bills EXCEPT ![b] = c]
    BY <1>5, <2>1, <2>3
  <2>6. orders \in [Orders -> Order] /\ \A p \in Orders : OrderTrue(p)
    BY DEF IInv, TypeOK, BookTypeOK
  <2>7. /\ orders' \in [Orders -> Order]
        /\ orders'[o] = [orders[o] EXCEPT !.payment = b]
        /\ \A p \in Orders : p # o => orders'[p] = orders[p]
    <3>1. orders' = [orders EXCEPT ![o] = [orders[o] EXCEPT !.payment = b]]
      BY <1>5, <2>1 DEF save_payment_id
    <3>2. [orders[o] EXCEPT !.payment = b] \in Order
      BY <2>6 DEF Order
    <3> QED BY <2>6, <3>1, <3>2
  <2>8. /\ orders'[o].status = orders[o].status /\ orders'[o].kind = orders[o].kind
        /\ orders'[o].owner = orders[o].owner /\ orders'[o].page = orders[o].page
        /\ orders'[o].payment = b
    BY <2>6, <2>7 DEF Order
  <2>9. \A p \in Orders : Onward(p) /\ (p # o => PaymentKept(p))
    BY <2>7, <2>8 DEF Onward, PaymentKept
  <2>10. (\A p \in Orders : OrderTrue(p))'
    <3>1. OrderTrue(o)'
      BY <1>1, <2>6, <2>8 DEF OrderTrue
    <3>2. \A p \in Orders : p # o => OrderTrue(p)'
      BY <1>1, <2>6, <2>7 DEF OrderTrue
    <3> QED BY <3>1, <3>2 DEF OrderTrue
  <2>11. /\ bills' \in [Bills -> Bill] /\ (\A d \in Bills : BillTrue(d))' /\ UpdatesTrue'
    <3>1. \A p \in Orders : PaymentKept(p) \/ (p = o /\ orders[o].payment = None)
      BY <2>2, <2>9
    <3>2. orders'[o].status # "none" /\ orders'[o].kind # "balance"
      BY <2>2, <2>8
    <3>3. UNCHANGED <<updates, lost, delivered>>
      BY <1>1
    <3> QED BY <1>2, <1>5, <2>4, <2>5, <2>8, <2>9, <3>1, <3>2, <3>3, BillOpens
  <2>12. /\ tasks' \in [Tasks -> Task] /\ (\A s \in Tasks : TaskTrue(tasks[s]))'
    <3>1. \A s \in Tasks \ {t} : tasks[s].pc = "bill" => PaymentKept(tasks[s].order)
      <4>1. \A s \in Tasks \ {t} : tasks[s].pc = "bill" => tasks[s].order # o
        BY <1>1, <2>1 DEF IInv, Alone, Holds
      <4>2. \A s \in Tasks : tasks[s].pc = "bill" => tasks[s].order \in Orders
        BY DEF IInv, TaskTrue
      <4> QED BY <2>9, <4>1, <4>2
    <3> QED BY <1>1, <1>2, <2>9, <3>1, TasksMove
  <2>13. TypeOK'
    BY <1>1, <2>7, <2>11, <2>12 DEF IInv, TypeOK, BookTypeOK
  <2>14. (\A v \in Users : ScreenTrue(v))' /\ (\A q \in Quotes : QuoteTrue(q))' /\ ChargedAsShown'
    <3>1. \A u \in Users : fsm[u].setup \in Orders \cup {None}
      BY DEF IInv, TypeOK, Data
    <3>2. \A u \in Users : fsm[u].setup # None => orders'[fsm[u].setup].status # "none"
      BY <2>9, <3>1 DEF IInv, ScreenTrue, Onward
    <3> QED BY <1>1, <3>2 DEF IInv, ScreenTrue, QuoteTrue, ChargedAsShown
  <2> QED BY <1>2, <1>3, <2>10, <2>11, <2>12, <2>13, <2>14 DEF IInv
<1> QED BY <1>4, <1>5 DEF BillMade

-----------------------------------------------------------------------------
(* Paying from the balance                                                 *)

\* The FSM data of one user changes.
LEMMA ScreensMove ==
    ASSUME IInv, NEW u \in Users, NEW d \in Data, fsm' = [fsm EXCEPT ![u] = d],
           UNCHANGED <<quotes, charged>>, OrdersOn,
           d.deduct <= d.price,
           d.setup # None => orders'[d.setup].status # "none",
           d.quote # None => quotes[d.quote].owner = u /\ charged[d.quote] = 0
    PROVE  /\ fsm' \in [Users -> Data]
           /\ (\A v \in Users : ScreenTrue(v))'
           /\ (\A q \in Quotes : QuoteTrue(q))'
           /\ ChargedAsShown'
<1>1. fsm \in [Users -> Data] /\ \A v \in Users : fsm[v].setup \in Orders \cup {None}
  BY DEF IInv, TypeOK, Data
<1>2. fsm' \in [Users -> Data] /\ \A v \in Users : fsm'[v] = IF v = u THEN d ELSE fsm[v]
  BY <1>1
<1>3. ASSUME NEW v \in Users PROVE ScreenTrue(v)'
  <2>1. CASE v = u
    BY <1>2, <2>1 DEF ScreenTrue
  <2>2. CASE v # u
    BY <1>1, <1>2, <2>2 DEF IInv, ScreenTrue, OrdersOn, Onward
  <2> QED BY <2>1, <2>2
<1>4. (\A q \in Quotes : QuoteTrue(q))' /\ ChargedAsShown'
  BY DEF IInv, QuoteTrue, ChargedAsShown
<1> QED BY <1>2, <1>3, <1>4

\* A quote of the user at the screen is charged and taken out of the FSM data.
LEMMA Charges ==
    ASSUME IInv, NEW u \in Users, NEW q \in Quotes, NEW cents \in Nat,
           fsm[u].quote = q, quotes[q].owner = u, cents = quotes[q].price,
           UNCHANGED quotes, charged' = [charged EXCEPT ![q] = @ + cents]
    PROVE  /\ charged' \in [Quotes -> Nat]
           /\ (\A p \in Quotes : QuoteTrue(p))' /\ ChargedAsShown'
           /\ \A v \in Users : v # u /\ fsm[v].quote # None => charged'[fsm[v].quote] = 0
<1>1. q # None /\ u # None
  BY BookAssumption, OrdersAssumption
<1>2. charged \in [Quotes -> Nat] /\ charged[q] = 0
  BY <1>1 DEF IInv, TypeOK, ScreenTrue
<1>3. charged' \in [Quotes -> Nat] /\ charged'[q] = cents
      /\ \A p \in Quotes : p # q => charged'[p] = charged[p]
  BY <1>2
<1>4. \A v \in Users : v # u => fsm[v].quote # q
  BY <1>1 DEF IInv, ScreenTrue
<1>5. \A v \in Users : fsm[v].quote \in Quotes \cup {None}
  BY DEF IInv, TypeOK, Data
<1>6. \A v \in Users : v # u /\ fsm[v].quote # None => charged'[fsm[v].quote] = 0
  BY <1>3, <1>4, <1>5 DEF IInv, ScreenTrue
<1>7. (\A p \in Quotes : QuoteTrue(p))'
  BY <1>1, <1>3 DEF IInv, QuoteTrue
<1>8. ChargedAsShown'
  BY <1>3 DEF IInv, ChargedAsShown
<1> QED BY <1>3, <1>6, <1>7, <1>8

LEMMA ShowBalanceKeeps ==
    ASSUME IInv, NEW u \in Customers, NEW q \in Quotes, NEW t \in Tariffs,
           NEW k \in Keys \cup {None}, ShowBalance(u, q, t, k)
    PROVE  IInv'
<1>1. u \in Users /\ u # None /\ q # None
  BY CustomerIsUser, OrdersAssumption
<1>2. quotes[q] = NoQuote
      /\ UNCHANGED <<orders, keys, balance, price, recurring, bills, tasks, orderLock, userLock,
                     updates, subs, crashes, taps, charged, delivered, taken, rewarded, lost>>
  BY DEF ShowBalance, book, shop, history
<1>3. price[t] \in Nat /\ balance[u] \in Nat /\ fsm \in [Users -> Data] /\ quotes \in [Quotes -> Quote]
  BY <1>1, PriceNat DEF IInv, TypeOK, BookTypeOK
<1>4. PICK share \in Nat : share = Least(balance[u], price[t]) /\ share <= price[t]
  BY <1>3, LeastNat
<1>5. PICK d : d = [fsm[u] EXCEPT !.quote = q, !.deduct = share, !.price = price[t], !.tariff = t,
                                  !.key = k]
  OBVIOUS
<1>6. /\ d \in Data /\ d.deduct = share /\ d.price = price[t] /\ d.quote = q
      /\ d.setup = fsm[u].setup
  BY <1>1, <1>3, <1>5 DEF Data
<1>7. fsm' = [fsm EXCEPT ![u] = d]
  BY <1>4, <1>5 DEF ShowBalance
<1>8. PICK r : r = [owner |-> u, tariff |-> t, key |-> k, price |-> price[t]]
  OBVIOUS
<1>9. r \in Quote /\ r.owner = u /\ r.tariff = t
  BY <1>1, <1>3, <1>8 DEF Quote
<1>10. quotes' = [quotes EXCEPT ![q] = r]
  BY <1>8 DEF ShowBalance
<1>11. /\ fsm' \in [Users -> Data] /\ \A v \in Users : fsm'[v] = IF v = u THEN d ELSE fsm[v]
       /\ quotes' \in [Quotes -> Quote] /\ \A p \in Quotes : quotes'[p] = IF p = q THEN r ELSE quotes[p]
  BY <1>3, <1>6, <1>7, <1>9, <1>10
<1>12. charged[q] = 0 /\ quotes[q].owner = None
  BY <1>2 DEF IInv, QuoteTrue, NoQuote
<1>13. ASSUME NEW v \in Users PROVE ScreenTrue(v)'
  <2>1. ScreenTrue(v) /\ v # None /\ fsm[v].quote \in Quotes \cup {None}
    BY BookAssumption DEF IInv, TypeOK, Data
  <2>2. CASE v = u
    BY <1>1, <1>2, <1>4, <1>6, <1>9, <1>11, <1>12, <2>1, <2>2 DEF ScreenTrue
  <2>3. CASE v # u
    BY <1>2, <1>11, <1>12, <2>1, <2>3 DEF ScreenTrue
  <2> QED BY <2>2, <2>3
<1>14. (\A p \in Quotes : QuoteTrue(p))' /\ ChargedAsShown'
  <2>1. \A p \in Quotes : QuoteTrue(p)'
    BY <1>1, <1>2, <1>9, <1>11 DEF IInv, QuoteTrue
  <2>2. \A p \in Quotes : charged'[p] \in {0, quotes'[p].price}
    BY <1>2, <1>11, <1>12 DEF IInv, ChargedAsShown
  <2> QED BY <2>1, <2>2 DEF ChargedAsShown
<1>15. orders' \in [Orders -> Order] /\ (\A o \in Orders : OrderTrue(o))' /\ OrdersOn
  BY <1>2, OrdersStay, OrdersSame
<1>16. (\A b \in Bills : BillTrue(b))'
  BY <1>2, <1>15, BillsStay
<1>17. /\ tasks' \in [Tasks -> Task] /\ (\A s \in Tasks : TaskTrue(tasks[s]))' /\ Alone'
  BY <1>2, <1>15, TasksStay
<1>18. TypeOK'
  BY <1>2, <1>11 DEF IInv, TypeOK, BookTypeOK
<1>19. UpdatesTrue' /\ DeliveredOnce'
  BY <1>2 DEF IInv, UpdatesTrue, DeliveredOnce
<1> QED BY <1>13, <1>14, <1>15, <1>16, <1>17, <1>18, <1>19 DEF IInv

\* What a screen that is left keeps of the FSM data.
Consumed(d) == [d EXCEPT !.quote = None, !.deduct = 0]

Setup(d, o) == [d EXCEPT !.quote = None, !.deduct = 0, !.setup = o]

LEMMA ConsumeForm ==
    ASSUME NEW d \in Data
    PROVE  /\ Consumed(d) \in Data /\ Consumed(d).quote = None /\ Consumed(d).deduct = 0
           /\ Consumed(d).price = d.price /\ Consumed(d).setup = d.setup
BY DEF Data, Consumed

LEMMA SetupForm ==
    ASSUME NEW d \in Data, NEW o \in Orders
    PROVE  /\ Setup(d, o) \in Data /\ Setup(d, o).quote = None /\ Setup(d, o).deduct = 0
           /\ Setup(d, o).price = d.price /\ Setup(d, o).setup = o
BY DEF Data, Setup

LEMMA ConsumeMoves ==
    ASSUME IInv, NEW u \in Users, Consume(u)
    PROVE  \E d \in Data : /\ fsm' = [fsm EXCEPT ![u] = d] /\ d.quote = None
                           /\ d.deduct = 0 /\ d.price \in Nat /\ d.setup = fsm[u].setup
<1>1. fsm \in [Users -> Data] /\ fsm[u] \in Data
  BY DEF IInv, TypeOK
<1>2. PICK d : d = Consumed(fsm[u])
  OBVIOUS
<1>3. /\ d \in Data /\ d.quote = None /\ d.deduct = 0 /\ d.setup = fsm[u].setup
      /\ d.price \in Nat
  BY <1>1, <1>2, ConsumeForm DEF Data
<1>4. fsm' = [fsm EXCEPT ![u] = d]
  BY <1>1, <1>2 DEF Consume, Consumed
<1> QED BY <1>3, <1>4

LEMMA PayRefused ==
    ASSUME IInv, NEW u \in Users, Consume(u),
           UNCHANGED <<orders, keys, balance, price, recurring, bills, tasks, orderLock, userLock,
                       updates, quotes, subs, crashes, taps, charged, delivered, taken, rewarded,
                       lost>>
    PROVE  IInv'
<1>1. PICK d \in Data : /\ fsm' = [fsm EXCEPT ![u] = d] /\ d.quote = None
                        /\ d.deduct = 0 /\ d.price \in Nat /\ d.setup = fsm[u].setup
  BY ConsumeMoves
<1>2. orders' \in [Orders -> Order] /\ (\A o \in Orders : OrderTrue(o))' /\ OrdersOn
  BY OrdersStay, OrdersSame
<1>3. /\ fsm' \in [Users -> Data] /\ (\A v \in Users : ScreenTrue(v))'
      /\ (\A q \in Quotes : QuoteTrue(q))' /\ ChargedAsShown'
  <2>1. d.deduct <= d.price /\ d.quote = None
    BY <1>1
  <2>2. d.setup # None => orders'[d.setup].status # "none"
    BY <1>1 DEF IInv, ScreenTrue
  <2> QED BY <1>1, <1>2, <2>1, <2>2, ScreensMove
<1>4. (\A b \in Bills : BillTrue(b))'
  BY <1>2, BillsStay
<1>5. /\ tasks' \in [Tasks -> Task] /\ (\A s \in Tasks : TaskTrue(tasks[s]))' /\ Alone'
  BY <1>2, TasksStay
<1>6. TypeOK'
  BY <1>3 DEF IInv, TypeOK, BookTypeOK
<1>7. UpdatesTrue' /\ DeliveredOnce'
  BY DEF IInv, UpdatesTrue, DeliveredOnce
<1> QED BY <1>2, <1>3, <1>4, <1>5, <1>6, <1>7 DEF IInv

\* The price of a confirmed balance screen is taken for its quote.
Taken(u, q) ==
    /\ fsm[u].quote = q /\ quotes[q].owner = u /\ SameTerms(u, q) /\ UNCHANGED quotes
    /\ deduct_from_balance(u, price[quotes[q].tariff])
    /\ charged' = [charged EXCEPT ![q] = @ + price[quotes[q].tariff]]

\* Balances and charges stay right, and a quote on another screen was not charged.
Charged(u) ==
    /\ balance' \in [Users -> Nat] /\ charged' \in [Quotes -> Nat]
    /\ (\A p \in Quotes : QuoteTrue(p))' /\ ChargedAsShown'
    /\ \A v \in Users : v # u /\ fsm[v].quote # None => charged'[fsm[v].quote] = 0

\* The price of the screen is taken from the balance.
LEMMA Paid ==
    ASSUME IInv, NEW u \in Users, NEW q \in Quotes, Taken(u, q)
    PROVE  Charged(u)
<1>1. PICK cents : cents = price[quotes[q].tariff]
  OBVIOUS
<1>2. /\ fsm[u].quote = q /\ quotes[q].owner = u /\ SameTerms(u, q) /\ UNCHANGED quotes
      /\ deduct_from_balance(u, cents) /\ charged' = [charged EXCEPT ![q] = @ + cents]
  <2>1. fsm[u].quote = q /\ quotes[q].owner = u /\ SameTerms(u, q) /\ UNCHANGED quotes
    BY DEF Taken
  <2>2. deduct_from_balance(u, price[quotes[q].tariff])
    BY DEF Taken
  <2>3. charged' = [charged EXCEPT ![q] = @ + price[quotes[q].tariff]]
    BY DEF Taken
  <2>4. deduct_from_balance(u, cents)
    BY <1>1, <2>2
  <2>5. charged' = [charged EXCEPT ![q] = @ + cents]
    BY <1>1, <2>3
  <2> QED BY <2>1, <2>4, <2>5
<1>3. quotes[q].tariff \in Tariffs
  BY <1>2, BookAssumption DEF IInv, QuoteTrue
<1>4. cents \in Nat /\ cents = quotes[q].price
  BY <1>1, <1>2, <1>3, PriceNat DEF SameTerms
<1>5. balance' \in [Users -> Nat]
  <2>1. balance \in [Users -> Nat]
    BY DEF IInv, TypeOK, BookTypeOK
  <2>2. balance[u] >= cents /\ balance' = [balance EXCEPT ![u] = balance[u] - cents]
    BY <1>2 DEF deduct_from_balance
  <2>3. balance[u] - cents \in Nat
    BY <1>4, <2>1, <2>2
  <2> QED BY <2>1, <2>2, <2>3
<1>6. /\ charged' \in [Quotes -> Nat]
      /\ (\A p \in Quotes : QuoteTrue(p))' /\ ChargedAsShown'
      /\ \A v \in Users : v # u /\ fsm[v].quote # None => charged'[fsm[v].quote] = 0
  BY <1>2, <1>4, Charges
<1> QED BY <1>5, <1>6 DEF Charged

\* With the quote gone from the screen of its owner, the screens stay justified.
LEMMA ScreensCharged ==
    ASSUME IInv, NEW u \in Users, NEW d \in Data, fsm' = [fsm EXCEPT ![u] = d],
           UNCHANGED quotes, OrdersOn,
           d.quote = None, d.deduct <= d.price, d.setup # None => orders'[d.setup].status # "none",
           \A v \in Users : v # u /\ fsm[v].quote # None => charged'[fsm[v].quote] = 0
    PROVE  fsm' \in [Users -> Data] /\ (\A v \in Users : ScreenTrue(v))'
<1>1. fsm \in [Users -> Data] /\ \A v \in Users : fsm[v].setup \in Orders \cup {None}
  BY DEF IInv, TypeOK, Data
<1>2. fsm' \in [Users -> Data] /\ \A v \in Users : fsm'[v] = IF v = u THEN d ELSE fsm[v]
  BY <1>1
<1>3. ASSUME NEW v \in Users PROVE ScreenTrue(v)'
  <2>1. CASE v = u
    BY <1>2, <2>1 DEF ScreenTrue
  <2>2. CASE v # u
    BY <1>1, <1>2, <2>2 DEF IInv, ScreenTrue, OrdersOn, Onward
  <2> QED BY <2>1, <2>2
<1> QED BY <1>2, <1>3

LEMMA PayRenewal ==
    ASSUME IInv, NEW t \in Tasks, NEW u \in Users, NEW q \in Quotes, NEW k \in Keys,
           fsm[u].quote = q, quotes[q].owner = u, SameTerms(u, q), Consume(u),
           deduct_from_balance(u, price[quotes[q].tariff]),
           charged' = [charged EXCEPT ![q] = @ + price[quotes[q].tariff]],
           Start(t, [Idle EXCEPT !.pc = "keypanel", !.user = u, !.key = k, !.via = "balance"]),
           userLock' = [userLock EXCEPT ![u] = t],
           UNCHANGED <<orders, keys, price, recurring, bills, orderLock, updates, quotes, subs,
                       crashes, taps, delivered, taken, rewarded, lost>>
    PROVE  IInv'
<1>1. PICK d \in Data : /\ fsm' = [fsm EXCEPT ![u] = d] /\ d.quote = None
                        /\ d.deduct = 0 /\ d.price \in Nat /\ d.setup = fsm[u].setup
  BY ConsumeMoves
<1>2. orders' \in [Orders -> Order] /\ (\A o \in Orders : OrderTrue(o))' /\ OrdersOn
  BY OrdersStay, OrdersSame
<1>3. /\ balance' \in [Users -> Nat] /\ charged' \in [Quotes -> Nat]
      /\ (\A p \in Quotes : QuoteTrue(p))' /\ ChargedAsShown'
      /\ \A v \in Users : v # u /\ fsm[v].quote # None => charged'[fsm[v].quote] = 0
  <2>1. Taken(u, q)
    BY DEF Taken
  <2>2. Charged(u)
    BY <2>1, Paid
  <2> QED BY <2>2 DEF Charged
<1>4. fsm' \in [Users -> Data] /\ (\A v \in Users : ScreenTrue(v))'
  <2>1. d.deduct <= d.price /\ d.quote = None
    BY <1>1
  <2>2. d.setup # None => orders'[d.setup].status # "none"
    BY <1>1 DEF IInv, ScreenTrue
  <2> QED BY <1>1, <1>2, <1>3, <2>1, <2>2, ScreensCharged
<1>5. PICK r : r = Renewing(u, k)
  OBVIOUS
<1>6. r \in Task /\ r.pc = "keypanel" /\ r.user = u
  BY <1>5, PanelForm
<1>7. tasks[t].pc = "idle" /\ Become(t, r)
  BY <1>5 DEF Start, At, Become, Renewing
<1>8. TaskTrue(r)'
  BY <1>6 DEF TaskTrue, Owing
<1>9. tasks' \in [Tasks -> Task] /\ (\A s \in Tasks : TaskTrue(tasks[s]))'
  BY <1>2, <1>6, <1>7, <1>8, TasksMoveOn
<1>10. Alone'
  <2>1. r.pc \notin Owing \cup {"bill"}
    BY <1>6 DEF Owing
  <2> QED BY <1>6, <1>7, <2>1, AloneMoves
<1>11. (\A b \in Bills : BillTrue(b))'
  <2>1. \A s \in Tasks : Holds(s, {"order"}) => tasks'[s] = tasks[s]
    BY <1>7, Moved DEF IInv, Holds
  <2> QED BY <1>2, <2>1, BillsStay
<1>12. userLock' \in [Users -> Tasks \cup {None}]
  BY DEF IInv, TypeOK
<1>13. TypeOK'
  BY <1>3, <1>4, <1>9, <1>12 DEF IInv, TypeOK, BookTypeOK
<1>14. UpdatesTrue' /\ DeliveredOnce'
  BY DEF IInv, UpdatesTrue, DeliveredOnce
<1> QED BY <1>2, <1>3, <1>4, <1>9, <1>10, <1>11, <1>13, <1>14 DEF IInv

LEMMA PendsPaid ==
    ASSUME IInv, NEW o \in Orders, orders[o].status = "none", NEW u \in Users, NEW new \in Keys,
           NEW t, t \in Tariffs,
           orders' = [orders EXCEPT ![o] = create_pending_order(u, t, "balance", new)],
           UNCHANGED <<delivered, rewarded, lost>>
    PROVE  NewOrder(o, "balance")
<1>1. PICK kind \in OrderKinds : kind = "balance"
  BY DEF OrderKinds
<1>2. PICK c : c = create_pending_order(u, t, kind, new)
  OBVIOUS
<1>3. orders' = [orders EXCEPT ![o] = c]
  BY <1>1, <1>2
<1>4. t \in Tariffs \cup {None} /\ new \in Keys \cup {None} /\ kind \in OrderKinds
  BY <1>1
<1>5. NewOrder(o, kind)
  BY <1>2, <1>3, <1>4, Pends
<1> QED BY <1>1, <1>5

LEMMA PayNewKey ==
    ASSUME IInv, NEW u \in Users, NEW q \in Quotes, NEW new \in Keys, NEW o \in Orders,
           fsm[u].quote = q, quotes[q].owner = u, SameTerms(u, q),
           fsm' = [fsm EXCEPT ![u].quote = None, ![u].deduct = 0, ![u].setup = o],
           deduct_from_balance(u, price[quotes[q].tariff]),
           charged' = [charged EXCEPT ![q] = @ + price[quotes[q].tariff]],
           orders[o].status = "none", create_initial_vpn_key(new, u),
           orders' = [orders EXCEPT ![o] =
                        create_pending_order(u, quotes[q].tariff, "balance", new)],
           UNCHANGED <<price, recurring, bills, tasks, orderLock, userLock, updates, quotes, subs,
                       crashes, taps, delivered, taken, rewarded, lost>>
    PROVE  IInv'
<1>1. fsm \in [Users -> Data] /\ fsm[u] \in Data
  BY DEF IInv, TypeOK
<1>2. PICK d : d = Setup(fsm[u], o)
  OBVIOUS
<1>3. d \in Data /\ d.quote = None /\ d.deduct = 0 /\ d.price \in Nat /\ d.setup = o
  BY <1>1, <1>2, SetupForm DEF Data
<1>4. fsm' = [fsm EXCEPT ![u] = d]
  BY <1>1, <1>2 DEF Setup
<1>5. NewOrder(o, "balance")
  <2>1. quotes[q].tariff \in Tariffs
    BY BookAssumption DEF IInv, QuoteTrue
  <2>2. orders[o].status = "none" /\ UNCHANGED <<delivered, rewarded, lost>>
    OBVIOUS
  <2> QED BY <2>1, <2>2, PendsPaid
<1>6. /\ orders' \in [Orders -> Order] /\ (\A p \in Orders : OrderTrue(p))' /\ OrdersOn
      /\ orders'[o].status # "none"
  BY <1>5 DEF NewOrder, OrdersWell
<1>7. /\ balance' \in [Users -> Nat] /\ charged' \in [Quotes -> Nat]
      /\ (\A p \in Quotes : QuoteTrue(p))' /\ ChargedAsShown'
      /\ \A v \in Users : v # u /\ fsm[v].quote # None => charged'[fsm[v].quote] = 0
  <2>1. Taken(u, q)
    BY DEF Taken
  <2>2. Charged(u)
    BY <2>1, Paid
  <2> QED BY <2>2 DEF Charged
<1>8. fsm' \in [Users -> Data] /\ (\A v \in Users : ScreenTrue(v))'
  <2>1. d.deduct <= d.price
    BY <1>3
  <2> QED BY <1>3, <1>4, <1>6, <1>7, <2>1, ScreensCharged
<1>9. keys' \in [Keys -> Key]
  <2>1. keys' = [keys EXCEPT ![new] = [status |-> "draft", owner |-> u]]
    BY DEF create_initial_vpn_key
  <2> QED BY <2>1 DEF IInv, TypeOK, BookTypeOK, Key
<1>10. (\A b \in Bills : BillTrue(b))'
  BY <1>6, BillsStay
<1>11. /\ tasks' \in [Tasks -> Task] /\ (\A s \in Tasks : TaskTrue(tasks[s]))' /\ Alone'
  BY <1>6, TasksStay
<1>12. TypeOK'
  BY <1>6, <1>7, <1>8, <1>9 DEF IInv, TypeOK, BookTypeOK
<1>13. UpdatesTrue' /\ DeliveredOnce'
  BY DEF IInv, UpdatesTrue, DeliveredOnce
<1> QED BY <1>6, <1>7, <1>8, <1>10, <1>11, <1>12, <1>13 DEF IInv

LEMMA PayWithBalanceKeeps ==
    ASSUME IInv, NEW t \in Tasks, NEW u \in Customers, NEW q \in Quotes, PayWithBalance(t, u, q)
    PROVE  IInv'
<1>1. u \in Users
  BY CustomerIsUser
<1>2. /\ fsm[u].quote = q /\ quotes[q].owner = u
      /\ UNCHANGED <<price, recurring, bills, orderLock, updates, quotes, subs, crashes, taps,
                     delivered, taken, rewarded, lost>>
  BY DEF PayWithBalance, shop
<1>3. CASE Consume(u) /\ UNCHANGED <<orders, keys, balance, tasks, userLock, charged>>
  BY <1>1, <1>2, <1>3, PayRefused
<1>4. CASE /\ SameTerms(u, q) /\ quotes[q].key # None /\ Consume(u)
           /\ deduct_from_balance(u, price[quotes[q].tariff])
           /\ charged' = [charged EXCEPT ![q] = @ + price[quotes[q].tariff]]
           /\ Start(t, [Idle EXCEPT !.pc = "keypanel", !.user = u, !.key = quotes[q].key,
                                    !.via = "balance"])
           /\ userLock' = [userLock EXCEPT ![u] = t]
           /\ UNCHANGED <<orders, keys>>
  <2>1. PICK k \in Keys : k = quotes[q].key
    BY <1>4 DEF IInv, TypeOK, Quote
  <2>2. Start(t, [Idle EXCEPT !.pc = "keypanel", !.user = u, !.key = k, !.via = "balance"])
    BY <1>4, <2>1
  <2> QED BY <1>1, <1>2, <1>4, <2>2, PayRenewal
<1>5. ASSUME NEW new \in Keys, NEW o \in Orders,
             SameTerms(u, q), deduct_from_balance(u, price[quotes[q].tariff]),
             charged' = [charged EXCEPT ![q] = @ + price[quotes[q].tariff]],
             UNCHANGED <<tasks, userLock>>,
             orders[o].status = "none", create_initial_vpn_key(new, u),
             orders' = [orders EXCEPT ![o] =
                          create_pending_order(u, quotes[q].tariff, "balance", new)],
             fsm' = [fsm EXCEPT ![u].quote = None, ![u].deduct = 0, ![u].setup = o]
      PROVE  IInv'
  BY <1>1, <1>2, <1>5, PayNewKey
<1> QED BY <1>3, <1>4, <1>5 DEF PayWithBalance

-----------------------------------------------------------------------------
(* The handlers that only their own order concerns                         *)

\* A handler ends, and nothing but the book and the locks have changed.
LEMMA BalanceRenewedKeeps == ASSUME IInv, NEW t \in Tasks, BalanceRenewed(t) PROVE IInv'
<1>1. PICK u : u = tasks[t].user
  OBVIOUS
<1>2. /\ tasks[t].pc = "keypanel" /\ Leave(t) /\ userLock' = [userLock EXCEPT ![u] = None]
      /\ UNCHANGED <<keys, balance, price, recurring, bills, fsm, orderLock, updates, quotes, subs,
                     crashes, taps, charged, delivered, taken, rewarded, lost>>
  BY <1>1 DEF BalanceRenewed, At, shop, history
<1>3. u \in Users /\ tasks[t] \in Task
  BY <1>1, <1>2 DEF IInv, TypeOK, TaskTrue
<1>4. /\ Become(t, Idle) /\ Idle \in Task /\ TaskTrue(Idle)' /\ Alone'
      /\ \A s \in Tasks : Holds(s, {"order"}) => tasks'[s] = tasks[s]
  BY <1>2, LeaveMoves
<1>5. OrdersWell
  <2>1. CASE UNCHANGED orders
    BY <1>2, <2>1, OrdersStay, OrdersSame DEF OrdersWell
  <2>2. ASSUME NEW o \in Orders, orders[o].status = "none",
               orders' = [orders EXCEPT ![o] = [create_pending_order(u, None, "balance",
                                                    tasks[t].key) EXCEPT !.status = "paid"]]
        PROVE  OrdersWell
    <3>1. PICK kind \in OrderKinds : kind = "balance"
      BY DEF OrderKinds
    <3>2. PICK k \in Keys \cup {None} : k = tasks[t].key
      BY <1>3 DEF Task
    <3>3. PICK none \in Tariffs \cup {None} : none = None
      OBVIOUS
    <3>4. PICK c \in Order : /\ c = create_pending_order(u, none, kind, k)
                            /\ c.status = "pending" /\ c.owner = u /\ c.kind = kind
                            /\ ~c.page /\ c.payment = None
      BY <1>3, <3>1, <3>2, <3>3, OrderMade
    <3>5. PICK r : r = [c EXCEPT !.status = "paid"]
      OBVIOUS
    <3>6. r \in Order /\ r.status = "paid" /\ r.owner = u /\ r.kind = "balance" /\ ~r.page
      BY <3>1, <3>4, <3>5 DEF Order
    <3>7. orders' = [orders EXCEPT ![o] = r]
      BY <2>2, <3>1, <3>2, <3>3, <3>4, <3>5
    <3>8. /\ r.status \in {"pending", "paid"} /\ r.owner \in Users
          /\ UNCHANGED <<delivered, rewarded, lost>>
      BY <1>2, <1>3, <3>6
    <3> QED BY <2>2, <3>6, <3>7, <3>8, Made
  <2> QED BY <1>1, <2>1, <2>2 DEF BalanceRenewed
<1>6. orders' \in [Orders -> Order] /\ (\A p \in Orders : OrderTrue(p))' /\ OrdersOn
  BY <1>5 DEF OrdersWell
<1>7. /\ tasks' \in [Tasks -> Task] /\ (\A s \in Tasks : TaskTrue(tasks[s]))'
  BY <1>2, <1>4, <1>6, TasksMoveOn
<1>8. (\A b \in Bills : BillTrue(b))'
  BY <1>2, <1>4, <1>6, BillsStay
<1>9. (\A v \in Users : ScreenTrue(v))' /\ (\A q \in Quotes : QuoteTrue(q))' /\ ChargedAsShown'
  BY <1>2, <1>6, ScreensStay
<1>10. userLock' \in [Users -> Tasks \cup {None}]
  BY <1>2 DEF IInv, TypeOK
<1>11. TypeOK'
  BY <1>2, <1>6, <1>7, <1>10 DEF IInv, TypeOK, BookTypeOK
<1>12. UpdatesTrue' /\ DeliveredOnce'
  BY <1>2 DEF IInv, UpdatesTrue, DeliveredOnce
<1> QED BY <1>4, <1>6, <1>7, <1>8, <1>9, <1>11, <1>12 DEF IInv

-----------------------------------------------------------------------------
(* A bill over what the balance leaves to be paid                          *)

Part == [tariff : Tariffs, price : Nat, deduct : Nat]

LEMMA ShareTrue ==
    ASSUME IInv, NEW u \in Users, NEW t, t \in Tariffs
    PROVE  \E s \in Part : s = Share(u, t) /\ s.deduct <= s.price
<1>1. /\ fsm[u].deduct \in Nat /\ fsm[u].price \in Nat /\ fsm[u].tariff \in Tariffs \cup {None}
      /\ balance[u] \in Nat /\ fsm[u].deduct <= fsm[u].price
  BY DEF IInv, TypeOK, BookTypeOK, Data, ScreenTrue
<1>2. price[t] \in Nat
  BY PriceNat
<1>3. PICK full \in Nat : full = IF fsm[u].price > 0 THEN fsm[u].price ELSE price[t]
  BY <1>1, <1>2
<1>4. PICK known \in Tariffs : known = IF fsm[u].tariff # None THEN fsm[u].tariff ELSE t
  BY <1>1
<1>5. PICK part \in Nat : /\ part = IF fsm[u].deduct > 0 THEN fsm[u].deduct ELSE Least(balance[u], full)
                         /\ part <= full
  <2>1. Least(balance[u], full) \in Nat /\ Least(balance[u], full) <= full
    BY <1>1, <1>3, LeastNat
  <2>2. CASE fsm[u].deduct > 0
    BY <1>1, <1>3, <2>2
  <2>3. CASE ~(fsm[u].deduct > 0)
    BY <2>1, <2>3
  <2> QED BY <2>2, <2>3
<1>6. Share(u, t) = [tariff |-> known, price |-> full, deduct |-> part]
  BY <1>3, <1>4, <1>5 DEF Share
<1>7. PICK s : s = Share(u, t)
  OBVIOUS
<1>8. s \in Part /\ s.deduct <= s.price
  BY <1>3, <1>4, <1>5, <1>6, <1>7 DEF Part
<1> QED BY <1>7, <1>8

LEMMA PayShareMakes ==
    ASSUME IInv, NEW u \in Users, NEW o \in Orders, NEW q \in Quotes,
           NEW kind \in {"telegram", "qr"}, PayShare(u, o, q, kind)
    PROVE  /\ NewOrder(o, kind) /\ orders[o].status = "none"
           /\ fsm' \in [Users -> Data] /\ (\A v \in Users : ScreenTrue(v))'
           /\ (\A p \in Quotes : QuoteTrue(p))' /\ ChargedAsShown'
           /\ \E s \in Part : s = Share(u, quotes[q].tariff) /\ s.deduct <= s.price
<1>1. quotes[q].tariff \in Tariffs
  BY BookAssumption DEF PayShare, IInv, QuoteTrue
<1>2. PICK s \in Part : s = Share(u, quotes[q].tariff) /\ s.deduct <= s.price
  BY <1>1, ShareTrue
<1>3. s.tariff \in Tariffs /\ s.price \in Nat /\ s.deduct \in Nat
  BY DEF Part
<1>4. fsm \in [Users -> Data] /\ quotes[q] \in Quote
  BY DEF IInv, TypeOK
<1>5. PICK k \in Keys \cup {None} : k = IF fsm[u].key # None THEN fsm[u].key ELSE quotes[q].key
  BY <1>4 DEF Data, Quote
<1>6. /\ orders[o].status = "none"
      /\ fsm' = [fsm EXCEPT ![u] = [fsm[u] EXCEPT !.deduct = s.deduct, !.price = s.price,
                                                  !.tariff = s.tariff, !.key = k]]
      /\ orders' = [orders EXCEPT ![o] = create_pending_order(u, s.tariff, kind, k)]
      /\ UNCHANGED <<quotes, charged>> /\ UNCHANGED <<delivered, rewarded, lost>>
  BY <1>2, <1>5 DEF PayShare, history
<1>7. PICK d : d = [fsm[u] EXCEPT !.deduct = s.deduct, !.price = s.price, !.tariff = s.tariff,
                                  !.key = k]
  OBVIOUS
<1>8. /\ d \in Data /\ d.deduct = s.deduct /\ d.price = s.price
      /\ d.setup = fsm[u].setup /\ d.quote = fsm[u].quote
  BY <1>3, <1>4, <1>7 DEF Data
<1>9. NewOrder(o, kind)
  <2>1. PICK tariff \in Tariffs : tariff = s.tariff
    BY <1>3
  <2>2. PICK c : c = create_pending_order(u, tariff, kind, k)
    OBVIOUS
  <2>3. orders' = [orders EXCEPT ![o] = c]
    BY <1>6, <2>1, <2>2
  <2>4. kind \in OrderKinds /\ tariff \in Tariffs \cup {None}
    BY DEF OrderKinds
  <2>5. orders[o].status = "none" /\ UNCHANGED <<delivered, rewarded, lost>>
    BY <1>6
  <2> QED BY <2>2, <2>3, <2>4, <2>5, Pends
<1>10. OrdersOn
  BY <1>9 DEF NewOrder, OrdersWell
<1>11. /\ fsm' \in [Users -> Data] /\ (\A v \in Users : ScreenTrue(v))'
       /\ (\A p \in Quotes : QuoteTrue(p))' /\ ChargedAsShown'
  <2>1. fsm' = [fsm EXCEPT ![u] = d] /\ UNCHANGED <<quotes, charged>>
    BY <1>6, <1>7
  <2>2. d.deduct <= d.price
    BY <1>2, <1>8
  <2>3. ScreenTrue(u) /\ fsm[u].setup \in Orders \cup {None}
    BY <1>4 DEF IInv, Data
  <2>4. d.setup # None => orders'[d.setup].status # "none"
    BY <1>8, <1>10, <2>3 DEF ScreenTrue, OrdersOn, Onward
  <2>5. d.quote # None => quotes[d.quote].owner = u /\ charged[d.quote] = 0
    BY <1>8, <2>3 DEF ScreenTrue
  <2> QED BY <1>8, <1>10, <2>1, <2>2, <2>4, <2>5, ScreensMove
<1> QED BY <1>2, <1>6, <1>9, <1>11

LEMMA PayCardBalanceKeeps ==
    ASSUME IInv, NEW u \in Customers, NEW o \in Orders, NEW q \in Quotes,
           pay_card_balance_handler(u, o, q)
    PROVE  IInv'
<1>1. u \in Users
  BY CustomerIsUser
<1>2. /\ PayShare(u, o, q, "telegram")
      /\ UNCHANGED <<keys, balance, price, recurring, tasks, orderLock, userLock, updates, quotes,
                     subs, crashes, taps, charged, delivered, taken, rewarded, lost>>
  BY DEF pay_card_balance_handler, PayShare, shop, history
<1>3. /\ NewOrder(o, "telegram")
      /\ fsm' \in [Users -> Data] /\ (\A v \in Users : ScreenTrue(v))'
      /\ (\A p \in Quotes : QuoteTrue(p))' /\ ChargedAsShown'
  BY <1>1, <1>2, PayShareMakes
<1>4. PICK s \in Part : s = Share(u, quotes[q].tariff) /\ s.deduct <= s.price
  BY <1>1, <1>2, PayShareMakes
<1>5. /\ orders' \in [Orders -> Order] /\ (\A p \in Orders : OrderTrue(p))' /\ OrdersOn
      /\ orders'[o].status # "none" /\ orders'[o].kind = "telegram"
  BY <1>3 DEF NewOrder, OrdersWell
<1>6. /\ tasks' \in [Tasks -> Task] /\ (\A t \in Tasks : TaskTrue(tasks[t]))' /\ Alone'
  BY <1>2, <1>5, TasksStay
<1>7. /\ bills' \in [Bills -> Bill] /\ (\A b \in Bills : BillTrue(b))' /\ UpdatesTrue'
  <2>1. CASE UNCHANGED bills
    <3>1. (\A b \in Bills : BillTrue(b))'
      BY <1>2, <1>5, <2>1, BillsStay
    <3> QED BY <1>2, <2>1, <3>1 DEF IInv, UpdatesTrue, TypeOK, BookTypeOK
  <2>2. ASSUME NEW b \in Bills, bills[b].status = "none", s.price > s.deduct,
               bills' = [bills EXCEPT ![b] =
                           [NoBill EXCEPT !.status = "open", !.order = o, !.via = "telegram",
                                          !.amount = s.price - s.deduct, !.share = s.deduct]]
        PROVE  bills' \in [Bills -> Bill] /\ (\A d \in Bills : BillTrue(d))' /\ UpdatesTrue'
    <3>1. s.price \in Nat /\ s.deduct \in Nat
      BY DEF Part
    <3>2. s.price - s.deduct \in Nat
      BY <1>4, <3>1
    <3>3. PICK c : c = [NoBill EXCEPT !.status = "open", !.order = o, !.via = "telegram",
                                      !.amount = s.price - s.deduct, !.share = s.deduct]
      OBVIOUS
    <3>4. c \in Bill /\ c.status = "open" /\ c.order = o /\ c.via = "telegram"
      BY <3>1, <3>2, <3>3 DEF NoBill, Bill
    <3>5. bills' = [bills EXCEPT ![b] = c]
      BY <2>2, <3>3
    <3>6. /\ c.via # "qr" /\ orders'[o].kind # "balance" /\ orders'[o].kind # "recurring"
          /\ orders'[o].status # "none"
      BY <1>5, <3>4
    <3>7. (\A p \in Orders : Onward(p)) /\ (\A p \in Orders : PaymentKept(p))
      BY <1>5 DEF OrdersOn
    <3>8. UNCHANGED <<updates, lost, delivered>> /\ UNCHANGED tasks
      BY <1>2
    <3> QED BY <2>2, <3>4, <3>5, <3>6, <3>7, <3>8, BillOpens
  <2> QED BY <1>4, <2>1, <2>2 DEF pay_card_balance_handler
<1>8. TypeOK'
  BY <1>2, <1>3, <1>5, <1>6, <1>7 DEF IInv, TypeOK, BookTypeOK
<1>9. DeliveredOnce'
  BY <1>2 DEF IInv, DeliveredOnce
<1> QED BY <1>3, <1>5, <1>6, <1>7, <1>8, <1>9 DEF IInv

LEMMA PayQrBalanceKeeps ==
    ASSUME IInv, NEW t \in Tasks, NEW u \in Customers, NEW o \in Orders, NEW q \in Quotes,
           pay_qr_balance_handler(t, u, o, q)
    PROVE  IInv'
<1>1. u \in Users
  BY CustomerIsUser
<1>2. /\ PayShare(u, o, q, "qr")
      /\ UNCHANGED <<keys, balance, price, recurring, bills, orderLock, userLock, updates, quotes,
                     subs, crashes, taps, charged, delivered, taken, rewarded, lost>>
  BY DEF pay_qr_balance_handler, PayShare, shop, history
<1>3. /\ NewOrder(o, "qr") /\ orders[o].status = "none"
      /\ fsm' \in [Users -> Data] /\ (\A v \in Users : ScreenTrue(v))'
      /\ (\A p \in Quotes : QuoteTrue(p))' /\ ChargedAsShown'
  BY <1>1, <1>2, PayShareMakes
<1>4. PICK s \in Part : s = Share(u, quotes[q].tariff) /\ s.deduct <= s.price
  BY <1>1, <1>2, PayShareMakes
<1>5. /\ orders' \in [Orders -> Order] /\ (\A p \in Orders : OrderTrue(p))' /\ OrdersOn
      /\ orders'[o].status # "none" /\ orders'[o].kind = "qr" /\ orders'[o].payment = None
  BY <1>3 DEF NewOrder, OrdersWell
<1>6. s.price - s.deduct \in Nat /\ s.deduct \in Nat
  <2>1. s.price \in Nat /\ s.deduct \in Nat
    BY DEF Part
  <2> QED BY <1>4, <2>1
<1>7. PICK r : r = AtShare(u, o, s.price - s.deduct, s.deduct)
  OBVIOUS
<1>8. r \in Task /\ r.pc = "bill" /\ r.user = u /\ r.order = o
  <2>1. PICK a \in Nat : a = s.price - s.deduct
    BY <1>6
  <2>2. PICK d \in Nat : d = s.deduct
    BY <1>6
  <2>3. r = AtShare(u, o, a, d)
    BY <1>7, <2>1, <2>2
  <2> QED BY <1>1, <2>3, ShareForm
<1>9. tasks[t].pc = "idle" /\ Become(t, r)
  BY <1>4, <1>7 DEF pay_qr_balance_handler, Start, At, Become, AtShare
<1>10. TaskTrue(r)'
  BY <1>1, <1>5, <1>8 DEF TaskTrue, Owing
<1>11. /\ tasks' \in [Tasks -> Task] /\ (\A p \in Tasks : TaskTrue(tasks[p]))'
  BY <1>2, <1>5, <1>8, <1>9, <1>10, TasksMoveOn
<1>12. Alone'
  <2>1. \A p \in Tasks : tasks[p].order = o => ~Holds(p, {"bill"})
    BY <1>3 DEF IInv, TaskTrue, Holds
  <2> QED BY <1>8, <1>9, <2>1, AloneMoves
<1>13. (\A b \in Bills : BillTrue(b))'
  <2>1. \A p \in Tasks : Holds(p, {"order"}) => tasks'[p] = tasks[p]
    BY <1>9, Moved DEF IInv, Holds
  <2> QED BY <1>2, <1>5, <2>1, BillsStay
<1>14. TypeOK'
  BY <1>2, <1>3, <1>5, <1>11 DEF IInv, TypeOK, BookTypeOK
<1>15. UpdatesTrue' /\ DeliveredOnce'
  BY <1>2 DEF IInv, UpdatesTrue, DeliveredOnce
<1> QED BY <1>3, <1>5, <1>11, <1>12, <1>13, <1>14, <1>15 DEF IInv

-----------------------------------------------------------------------------
(* The providers, the administrator and the start screen                   *)

\* A bill changes its state.
Stated(c, status, saved) == [c EXCEPT !.status = status, !.saved = saved]

LEMMA StatedForm ==
    ASSUME NEW c \in Bill, NEW status \in {"paid", "void"}, NEW saved \in BOOLEAN
    PROVE  /\ Stated(c, status, saved) \in Bill /\ Stated(c, status, saved).status = status
           /\ Stated(c, status, saved).order = c.order /\ Stated(c, status, saved).via = c.via
BY DEF Stated, Bill

LEMMA BillMoves ==
    ASSUME IInv, NEW b \in Bills, bills[b].status = "open", NEW status \in {"paid", "void"},
           NEW c \in Bill, c.status = status, c.order = bills[b].order, c.via = bills[b].via,
           bills' = [bills EXCEPT ![b] = c],
           updates' = IF status = "paid" /\ bills[b].via = "telegram" THEN updates \cup {b}
                      ELSE updates,
           UNCHANGED <<orders, keys, balance, price, recurring, fsm, tasks, orderLock, userLock,
                       quotes, subs, crashes, taps, charged, delivered, taken, rewarded, lost>>
    PROVE  IInv'
<1>1. bills \in [Bills -> Bill] /\ updates \subseteq Bills
  BY DEF IInv, TypeOK, BookTypeOK
<1>2. bills' \in [Bills -> Bill] /\ bills'[b] = c
      /\ \A d \in Bills : d # b => bills'[d] = bills[d]
  BY <1>1
<1>3. orders' \in [Orders -> Order] /\ (\A o \in Orders : OrderTrue(o))' /\ OrdersOn
  BY OrdersStay, OrdersSame
<1>4. updates \subseteq updates' /\ updates' \subseteq Bills
  BY <1>1
<1>5. ASSUME NEW d \in Bills PROVE BillTrue(d)'
  <2>1. CASE d = b
    <3>1. BillTrue(b)
      BY DEF IInv
    <3>2. c.status = "paid" /\ c.via = "telegram" => b \in updates'
      OBVIOUS
    <3> QED BY <1>2, <2>1, <3>1, <3>2 DEF BillTrue, Billed
  <2>2. CASE d # b
    <3>1. \A s \in Tasks : Holds(s, {"order"}) => tasks'[s] = tasks[s]
      OBVIOUS
    <3> QED BY <1>2, <1>3, <1>4, <2>2, <3>1, BillStays
  <2> QED BY <2>1, <2>2
<1>6. UpdatesTrue'
  <2>1. ASSUME NEW d \in updates' PROVE bills'[d].status = "paid"
    <3>1. CASE d = b
      <4>1. b \notin updates
        BY DEF IInv, UpdatesTrue
      <4> QED BY <1>2, <2>1, <3>1, <4>1
    <3>2. CASE d # b
      BY <1>1, <1>2, <2>1, <3>2 DEF IInv, UpdatesTrue
    <3> QED BY <3>1, <3>2
  <2> QED BY <2>1 DEF UpdatesTrue
<1>7. /\ tasks' \in [Tasks -> Task] /\ (\A s \in Tasks : TaskTrue(tasks[s]))' /\ Alone'
  BY <1>3, TasksStay
<1>8. (\A v \in Users : ScreenTrue(v))' /\ (\A q \in Quotes : QuoteTrue(q))' /\ ChargedAsShown'
  BY <1>3, ScreensStay
<1>9. TypeOK'
  BY <1>2, <1>4 DEF IInv, TypeOK, BookTypeOK
<1>10. DeliveredOnce'
  BY DEF IInv, DeliveredOnce
<1> QED BY <1>3, <1>5, <1>6, <1>7, <1>8, <1>9, <1>10 DEF IInv

LEMMA PayBillKeeps == ASSUME IInv, NEW b \in Bills, PayBill(b) PROVE IInv'
<1>1. /\ bills[b].status = "open"
      /\ UNCHANGED <<orders, keys, balance, price, recurring, fsm, tasks, orderLock, userLock,
                     quotes, subs, crashes, taps, charged, delivered, taken, rewarded, lost>>
  BY DEF PayBill, shop, volatile, history
<1>2. PICK saved \in BOOLEAN : bills' = [bills EXCEPT ![b].status = "paid", ![b].saved = saved]
  BY DEF PayBill
<1>3. bills \in [Bills -> Bill]
  BY DEF IInv, TypeOK, BookTypeOK
<1>4. PICK c : c = Stated(bills[b], "paid", saved)
  OBVIOUS
<1>5. PICK status \in {"paid", "void"} : status = "paid"
  OBVIOUS
<1>6. c \in Bill /\ c.status = status /\ c.order = bills[b].order /\ c.via = bills[b].via
  BY <1>3, <1>4, <1>5, StatedForm
<1>7. bills' = [bills EXCEPT ![b] = c]
  BY <1>2, <1>3, <1>4 DEF Stated
<1>8. updates' = IF status = "paid" /\ bills[b].via = "telegram" THEN updates \cup {b} ELSE updates
  BY <1>5 DEF PayBill
<1> QED BY <1>1, <1>6, <1>7, <1>8, BillMoves

LEMMA VoidBillKeeps == ASSUME IInv, NEW b \in Bills, VoidBill(b) PROVE IInv'
<1>1. /\ bills[b].status = "open" /\ updates' = updates
      /\ UNCHANGED <<orders, keys, balance, price, recurring, fsm, tasks, orderLock, userLock,
                     quotes, subs, crashes, taps, charged, delivered, taken, rewarded, lost>>
  BY DEF VoidBill, shop, volatile, history
<1>2. bills \in [Bills -> Bill] /\ bills[b].saved \in BOOLEAN
  BY DEF IInv, TypeOK, BookTypeOK, Bill
<1>3. PICK saved \in BOOLEAN : saved = bills[b].saved
  BY <1>2
<1>4. PICK c : c = Stated(bills[b], "void", saved)
  OBVIOUS
<1>5. PICK status \in {"paid", "void"} : status = "void"
  OBVIOUS
<1>6. c \in Bill /\ c.status = status /\ c.order = bills[b].order /\ c.via = bills[b].via
  BY <1>2, <1>4, <1>5, StatedForm
<1>7. bills' = [bills EXCEPT ![b] = c]
  <2>1. [bills[b] EXCEPT !.status = "void"] = [bills[b] EXCEPT !.status = "void", !.saved = saved]
    BY <1>2, <1>3 DEF Bill
  <2> QED BY <1>2, <1>4, <2>1 DEF VoidBill, Stated
<1>8. updates' = IF status = "paid" /\ bills[b].via = "telegram" THEN updates \cup {b} ELSE updates
  BY <1>1, <1>5
<1> QED BY <1>1, <1>6, <1>7, <1>8, BillMoves

LEMMA RepriceKeeps == ASSUME IInv, NEW t \in Tariffs, Reprice(t) PROVE IInv'
<1>1. UNCHANGED <<orders, keys, balance, recurring, bills, fsm, tasks, orderLock, userLock, updates,
                  quotes, subs, crashes, taps, charged, delivered, taken, rewarded, lost>>
  BY DEF Reprice, volatile, history
<1>2. price' \in [Tariffs -> Nat]
  <2>1. PICK p \in Prices : price' = [price EXCEPT ![t] = p]
    BY DEF Reprice
  <2>2. p \in Nat
    BY BookAssumption
  <2> QED BY <2>1, <2>2 DEF IInv, TypeOK, BookTypeOK
<1>3. orders' \in [Orders -> Order] /\ (\A o \in Orders : OrderTrue(o))' /\ OrdersOn
  BY <1>1, OrdersStay, OrdersSame
<1>4. (\A b \in Bills : BillTrue(b))'
  BY <1>1, <1>3, BillsStay
<1>5. /\ tasks' \in [Tasks -> Task] /\ (\A s \in Tasks : TaskTrue(tasks[s]))' /\ Alone'
  BY <1>1, <1>3, TasksStay
<1>6. (\A v \in Users : ScreenTrue(v))' /\ (\A q \in Quotes : QuoteTrue(q))' /\ ChargedAsShown'
  BY <1>1, <1>3, ScreensStay
<1>7. TypeOK'
  BY <1>1, <1>2 DEF IInv, TypeOK, BookTypeOK
<1>8. UpdatesTrue' /\ DeliveredOnce'
  BY <1>1 DEF IInv, UpdatesTrue, DeliveredOnce
<1> QED BY <1>3, <1>4, <1>5, <1>6, <1>7, <1>8 DEF IInv

LEMMA NoDataForm == NoData \in Data /\ NoData.deduct <= NoData.price
                    /\ NoData.quote = None /\ NoData.setup = None
BY DEF NoData, Data

\* The FSM data of a user is cleared.
LEMMA Cleared ==
    ASSUME IInv, NEW u \in Users, fsm' = [fsm EXCEPT ![u] = NoData], UNCHANGED <<quotes, charged>>,
           OrdersOn
    PROVE  /\ fsm' \in [Users -> Data] /\ (\A v \in Users : ScreenTrue(v))'
           /\ (\A q \in Quotes : QuoteTrue(q))' /\ ChargedAsShown'
<1>1. PICK d : d = NoData
  OBVIOUS
<1>2. /\ d \in Data /\ d.deduct <= d.price /\ d.quote = None /\ d.setup = None
      /\ fsm' = [fsm EXCEPT ![u] = d]
  BY <1>1, NoDataForm
<1> QED BY <1>2, ScreensMove

LEMMA HomeKeeps == ASSUME IInv, NEW u \in Customers, Home(u) PROVE IInv'
<1>1. u \in Users
  BY CustomerIsUser
<1>2. /\ fsm' = [fsm EXCEPT ![u] = NoData]
      /\ UNCHANGED <<orders, keys, balance, price, recurring, bills, tasks, orderLock, userLock,
                     updates, quotes, subs, crashes, taps, charged, delivered, taken, rewarded,
                     lost>>
  BY DEF Home, book, shop, history
<1>3. orders' \in [Orders -> Order] /\ (\A o \in Orders : OrderTrue(o))' /\ OrdersOn
  BY <1>2, OrdersStay, OrdersSame
<1>4. (\A b \in Bills : BillTrue(b))'
  BY <1>2, <1>3, BillsStay
<1>5. /\ tasks' \in [Tasks -> Task] /\ (\A s \in Tasks : TaskTrue(tasks[s]))' /\ Alone'
  BY <1>2, <1>3, TasksStay
<1>6. /\ fsm' \in [Users -> Data] /\ (\A v \in Users : ScreenTrue(v))'
      /\ (\A q \in Quotes : QuoteTrue(q))' /\ ChargedAsShown'
  <2>1. UNCHANGED <<quotes, charged>>
    BY <1>2
  <2> QED BY <1>1, <1>2, <1>3, <2>1, Cleared
<1>7. TypeOK'
  BY <1>2, <1>6 DEF IInv, TypeOK, BookTypeOK
<1>8. UpdatesTrue' /\ DeliveredOnce'
  BY <1>2 DEF IInv, UpdatesTrue, DeliveredOnce
<1> QED BY <1>3, <1>4, <1>5, <1>6, <1>7, <1>8 DEF IInv

-----------------------------------------------------------------------------
(* Payments come in                                                        *)

\* A handler that has nothing of its own moves; the orders and the bills stay.
LEMMA BookMoves ==
    ASSUME IInv, NEW t \in Tasks, NEW r \in Task, Become(t, r), TaskTrue(r)',
           tasks[t].pc \notin {"order"}, r.pc \notin Owing \cup {"bill"},
           keys' \in [Keys -> Key], subs' \subseteq Keys,
           UNCHANGED <<orders, balance, price, recurring, bills, orderLock, userLock, updates,
                       quotes, crashes, taps, charged, delivered, taken, rewarded, lost>>,
           fsm' \in [Users -> Data], (\A u \in Users : ScreenTrue(u))',
           (\A q \in Quotes : QuoteTrue(q))', ChargedAsShown'
    PROVE  IInv'
<1>1. orders' \in [Orders -> Order] /\ (\A o \in Orders : OrderTrue(o))' /\ OrdersOn
  BY OrdersStay, OrdersSame
<1>2. tasks' \in [Tasks -> Task] /\ (\A s \in Tasks : TaskTrue(tasks[s]))'
  BY <1>1, TasksMoveOn
<1>3. Alone'
  BY AloneMoves
<1>4. (\A b \in Bills : BillTrue(b))'
  <2>1. \A s \in Tasks : Holds(s, {"order"}) => tasks'[s] = tasks[s]
    BY Moved DEF IInv, Holds
  <2> QED BY <1>1, <2>1, BillsStay
<1>5. TypeOK'
  BY <1>2 DEF IInv, TypeOK, BookTypeOK
<1>6. UpdatesTrue' /\ DeliveredOnce'
  BY DEF IInv, UpdatesTrue, DeliveredOnce
<1> QED BY <1>1, <1>2, <1>3, <1>4, <1>5, <1>6 DEF IInv

LEMMA BookStays ==
    ASSUME IInv, NEW t \in Tasks, NEW r \in Task, Become(t, r), TaskTrue(r)',
           tasks[t].pc \notin {"order"}, r.pc \notin Owing \cup {"bill"},
           UNCHANGED <<orders, keys, balance, price, recurring, bills, orderLock, userLock, updates,
                       quotes, subs, crashes, taps, charged, delivered, taken, rewarded, lost>>,
           fsm' \in [Users -> Data], (\A u \in Users : ScreenTrue(u))',
           (\A q \in Quotes : QuoteTrue(q))', ChargedAsShown'
    PROVE  IInv'
<1>1. keys' \in [Keys -> Key] /\ subs' \subseteq Keys
  BY DEF IInv, TypeOK, BookTypeOK
<1> QED BY <1>1, BookMoves

\* An order that was ever made has its owner.
LEMMA Owned ==
    ASSUME IInv, NEW o \in Orders, orders[o].status # "none"
    PROVE  orders[o].owner \in Users
BY DEF IInv, OrderTrue

\* A handler that brings a payment owes nothing to its order yet.
LEMMA FlowTrue ==
    ASSUME IInv, OrdersOn, NEW u \in Users, NEW o \in Orders, orders[o].status # "none",
           orders[o].kind # "balance", NEW via \in {"telegram", "qr", "crypto"},
           NEW r, r = Flow(u, o, via)
    PROVE  /\ r \in Task /\ r.pc = "order" /\ r.user = u /\ r.order = o /\ r.level = 1
           /\ TaskTrue(r)' /\ r.pc \notin Owing \cup {"bill"}
<1>1. r \in Task /\ r.pc = "order" /\ r.user = u /\ r.order = o /\ r.level = 1
  BY FlowForm DEF IInv
<1>2. orders'[o].status # "none" /\ orders'[o].kind # "balance"
  BY DEF OrdersOn, Onward
<1>3. TaskTrue(r)'
  BY <1>1, <1>2 DEF TaskTrue, Owing
<1> QED BY <1>1, <1>3 DEF Owing

LEMMA TelegramPaidKeeps ==
    ASSUME IInv, NEW t \in Tasks, NEW b \in Bills, TelegramPaid(t, b)
    PROVE  IInv'
<1>1. /\ b \in updates /\ updates' = updates \ {b}
      /\ UNCHANGED <<orders, keys, balance, price, recurring, bills, fsm, orderLock, userLock,
                     quotes, subs, crashes, taps, charged, delivered, taken, rewarded, lost>>
  BY DEF TelegramPaid, book, shop, history
<1>2. bills[b].status = "paid" /\ BillTrue(b)
  BY <1>1 DEF IInv, UpdatesTrue
<1>3. PICK o \in Orders : o = bills[b].order
  BY <1>2 DEF BillTrue, Billed
<1>4. orders[o].status # "none" /\ orders[o].kind # "balance"
  BY <1>2, <1>3 DEF BillTrue, Billed
<1>5. PICK u \in Users : u = orders[o].owner
  BY <1>4, Owned
<1>6. /\ orders' \in [Orders -> Order] /\ (\A p \in Orders : OrderTrue(p))' /\ OrdersOn
  BY <1>1, OrdersStay, OrdersSame
<1>7. PICK r : r = Flow(u, o, "telegram")
  OBVIOUS
<1>8. /\ r \in Task /\ r.pc = "order" /\ r.order = o
      /\ TaskTrue(r)' /\ r.pc \notin Owing \cup {"bill"}
  BY <1>4, <1>6, <1>7, FlowTrue
<1>9. tasks[t].pc = "idle" /\ Become(t, r)
  BY <1>3, <1>5, <1>7 DEF TelegramPaid, Start, At, Become
<1>10. tasks' \in [Tasks -> Task] /\ (\A s \in Tasks : TaskTrue(tasks[s]))'
  BY <1>1, <1>6, <1>8, <1>9, TasksMoveOn
<1>11. Alone'
  BY <1>8, <1>9, AloneMoves
<1>12. ASSUME NEW d \in Bills PROVE BillTrue(d)'
  <2>1. \A s \in Tasks : Holds(s, {"order"}) => tasks'[s] = tasks[s]
    BY <1>9, Moved DEF IInv, Holds
  <2>2. CASE d # b
    <3>1. bills'[d] = bills[d] /\ (d \in updates => d \in updates') /\ lost \subseteq lost'
      BY <1>1, <2>2
    <3>2. \A p \in Orders : delivered[p] > 0 => delivered'[p] > 0
      BY <1>1
    <3> QED BY <1>6, <2>1, <3>1, <3>2, BillStays
  <2>3. CASE d = b
    <3>1. tasks'[t] = r
      BY <1>9, Moved DEF IInv
    <3>2. Holds(t, {"order"})' /\ tasks'[t].order = bills'[b].order
      BY <1>1, <1>3, <1>8, <3>1 DEF Holds
    <3> QED BY <1>1, <1>2, <2>3, <3>2 DEF BillTrue, Billed
  <2> QED BY <2>2, <2>3
<1>13. (\A v \in Users : ScreenTrue(v))' /\ (\A q \in Quotes : QuoteTrue(q))' /\ ChargedAsShown'
  BY <1>1, <1>6, ScreensStay
<1>14. TypeOK'
  BY <1>1, <1>10 DEF IInv, TypeOK, BookTypeOK
<1>15. UpdatesTrue' /\ DeliveredOnce'
  BY <1>1 DEF IInv, UpdatesTrue, DeliveredOnce
<1> QED BY <1>6, <1>10, <1>11, <1>12, <1>13, <1>14, <1>15 DEF IInv

LEMMA CryptoReturnKeeps ==
    ASSUME IInv, NEW t \in Tasks, NEW b \in Bills, CryptoReturn(t, b)
    PROVE  IInv'
<1>1. /\ bills[b].status = "paid"
      /\ UNCHANGED <<orders, keys, balance, price, recurring, bills, orderLock, userLock, updates,
                     quotes, subs, crashes, taps, charged, delivered, taken, rewarded, lost>>
  BY DEF CryptoReturn, book, shop, history
<1>2. PICK o \in Orders : o = bills[b].order
  BY <1>1 DEF IInv, BillTrue, Billed
<1>3. orders[o].status # "none" /\ orders[o].kind # "balance"
  BY <1>1, <1>2 DEF IInv, BillTrue, Billed
<1>4. PICK u \in Users : u = orders[o].owner
  BY <1>3, Owned
<1>5. orders' \in [Orders -> Order] /\ (\A p \in Orders : OrderTrue(p))' /\ OrdersOn
  BY <1>1, OrdersStay, OrdersSame
<1>6. /\ fsm' \in [Users -> Data] /\ (\A v \in Users : ScreenTrue(v))'
      /\ (\A q \in Quotes : QuoteTrue(q))' /\ ChargedAsShown'
  <2>1. fsm' = [fsm EXCEPT ![u] = NoData]
    BY <1>2, <1>4 DEF CryptoReturn
  <2>2. UNCHANGED <<quotes, charged>>
    BY <1>1
  <2> QED BY <1>5, <2>1, <2>2, Cleared
<1>7. CASE UNCHANGED tasks
  <2>1. tasks' \in [Tasks -> Task] /\ (\A s \in Tasks : TaskTrue(tasks[s]))' /\ Alone'
    BY <1>1, <1>5, <1>7, TasksStay
  <2>2. (\A d \in Bills : BillTrue(d))'
    BY <1>1, <1>5, <1>7, BillsStay
  <2>3. TypeOK'
    BY <1>1, <1>6, <2>1 DEF IInv, TypeOK, BookTypeOK
  <2>4. UpdatesTrue' /\ DeliveredOnce'
    BY <1>1 DEF IInv, UpdatesTrue, DeliveredOnce
  <2> QED BY <1>5, <1>6, <2>1, <2>2, <2>3, <2>4 DEF IInv
<1>8. CASE Start(t, Flow(u, o, "crypto"))
  <2>1. PICK r : r = Flow(u, o, "crypto")
    OBVIOUS
  <2>2. r \in Task /\ TaskTrue(r)' /\ r.pc \notin Owing \cup {"bill"}
    BY <1>3, <1>5, <2>1, FlowTrue
  <2>3. tasks[t].pc = "idle" /\ Become(t, r)
    BY <1>8, <2>1 DEF Start, At, Become
  <2>4. tasks[t].pc \notin {"order"}
    BY <2>3
  <2> QED BY <1>1, <1>6, <2>2, <2>3, <2>4, BookStays
<1> QED BY <1>2, <1>4, <1>7, <1>8 DEF CryptoReturn

\* An order with a draft key leads its owner to the choice of a server.
LEMMA Finalized ==
    ASSUME IInv, NEW u \in Users, NEW o \in Orders, orders[o].status # "none", NEW data \in Data,
           data.deduct <= data.price, data.quote = fsm[u].quote, data.setup = fsm[u].setup,
           UNCHANGED <<quotes, charged>>, OrdersOn, Finalize(u, o, data)
    PROVE  /\ fsm' \in [Users -> Data] /\ (\A v \in Users : ScreenTrue(v))'
           /\ (\A q \in Quotes : QuoteTrue(q))' /\ ChargedAsShown'
<1>1. PICK d : d = IF orders[o].key # None /\ keys[orders[o].key].status = "draft"
                   THEN [data EXCEPT !.setup = o] ELSE data
  OBVIOUS
<1>2. fsm' = [fsm EXCEPT ![u] = d]
  BY <1>1 DEF Finalize
<1>3. /\ d \in Data /\ d.deduct = data.deduct /\ d.price = data.price /\ d.quote = data.quote
      /\ d.setup \in {o, data.setup}
  BY <1>1 DEF Data
<1>4. ScreenTrue(u) /\ fsm[u].setup \in Orders \cup {None}
  BY DEF IInv, TypeOK, Data
<1>5. d.deduct <= d.price
  BY <1>3
<1>6. d.setup # None => orders'[d.setup].status # "none"
  BY <1>3, <1>4 DEF ScreenTrue, OrdersOn, Onward
<1>7. d.quote # None => quotes[d.quote].owner = u /\ charged[d.quote] = 0
  BY <1>3, <1>4 DEF ScreenTrue
<1> QED BY <1>2, <1>3, <1>5, <1>6, <1>7, ScreensMove

LEMMA CheckKeeps ==
    ASSUME IInv, NEW t \in Tasks, NEW u \in Customers, NEW o \in Orders, Check(t, u, o)
    PROVE  IInv'
<1>1. u \in Users
  BY CustomerIsUser
<1>2. /\ orders[o].kind \in {"qr", "recurring"}
      /\ UNCHANGED <<orders, keys, balance, price, recurring, bills, orderLock, userLock, updates,
                     quotes, subs, crashes, taps, charged, delivered, taken, rewarded, lost>>
  BY DEF Check, check_qr_payment_flow, _run_yookassa_recurring_check, book, shop, history
<1>3. orders[o].status # "none" /\ orders[o].kind # "balance"
  BY <1>2 DEF IInv, OrderTrue
<1>4. orders' \in [Orders -> Order] /\ (\A p \in Orders : OrderTrue(p))' /\ OrdersOn
  BY <1>2, OrdersStay, OrdersSame
<1>5. CASE Ask(t, u, o)
  <2>1. PICK r : r = Asking(u, o)
    OBVIOUS
  <2>2. r \in Task /\ r.pc = "ask" /\ r.user = u /\ r.order = o
    BY <1>1, <2>1, AskForm
  <2>3. tasks[t].pc = "idle" /\ Become(t, r) /\ UNCHANGED fsm
    BY <1>5, <2>1 DEF Ask, Start, At, Become, Asking
  <2>4. TaskTrue(r)'
    BY <1>1, <1>2, <1>3, <2>2 DEF TaskTrue, Owing
  <2>5. r.pc \notin Owing \cup {"bill"} /\ tasks[t].pc \notin {"order"}
    BY <2>2, <2>3 DEF Owing
  <2>6. (\A v \in Users : ScreenTrue(v))' /\ (\A q \in Quotes : QuoteTrue(q))' /\ ChargedAsShown'
    BY <1>2, <1>4, <2>3, ScreensStay
  <2>7. fsm' \in [Users -> Data]
    BY <2>3 DEF IInv, TypeOK
  <2> QED BY <1>2, <2>2, <2>3, <2>4, <2>5, <2>6, <2>7, BookStays
<1>6. CASE Finalize(u, o, fsm[u]) /\ UNCHANGED tasks
  <2>1. /\ fsm' \in [Users -> Data] /\ (\A v \in Users : ScreenTrue(v))'
        /\ (\A q \in Quotes : QuoteTrue(q))' /\ ChargedAsShown'
    <3>1. PICK data \in Data : data = fsm[u]
      BY <1>1 DEF IInv, TypeOK
    <3>2. data.deduct <= data.price
      BY <1>1, <3>1 DEF IInv, ScreenTrue
    <3>3. Finalize(u, o, data)
      BY <1>6, <3>1
    <3>4. UNCHANGED <<quotes, charged>>
      BY <1>2
    <3> QED BY <1>1, <1>3, <1>4, <3>1, <3>2, <3>3, <3>4, Finalized
  <2>2. tasks' \in [Tasks -> Task] /\ (\A s \in Tasks : TaskTrue(tasks[s]))' /\ Alone'
    BY <1>2, <1>4, <1>6, TasksStay
  <2>3. (\A d \in Bills : BillTrue(d))'
    BY <1>2, <1>4, <1>6, BillsStay
  <2>4. TypeOK'
    BY <1>2, <2>1, <2>2 DEF IInv, TypeOK, BookTypeOK
  <2>5. UpdatesTrue' /\ DeliveredOnce'
    BY <1>2 DEF IInv, UpdatesTrue, DeliveredOnce
  <2> QED BY <1>4, <2>1, <2>2, <2>3, <2>4, <2>5 DEF IInv
<1> QED BY <1>5, <1>6 DEF Check, check_qr_payment_flow, _run_yookassa_recurring_check

\* Only an order that pends fails.
LEMMA Fails ==
    ASSUME IInv, NEW o \in Orders, orders[o].status # "none", orders[o].kind = "recurring",
           fail_order(o), UNCHANGED <<delivered, rewarded, lost>>
    PROVE  OrdersWell
<1>1. orders \in [Orders -> Order] /\ \A p \in Orders : OrderTrue(p)
  BY DEF IInv, TypeOK, BookTypeOK
<1>2. PICK status \in OrderStatuses :
          /\ status = IF orders[o].status = "pending" THEN "failed" ELSE orders[o].status
          /\ status # "none" /\ (status = "paid" <=> orders[o].status = "paid")
  BY <1>1 DEF Order, OrderStatuses
<1>3. PICK r : r = [orders[o] EXCEPT !.status = status]
  OBVIOUS
<1>4. /\ r \in Order /\ r.status = status /\ r.owner = orders[o].owner /\ r.kind = orders[o].kind
      /\ r.page = orders[o].page /\ r.payment = orders[o].payment
  BY <1>1, <1>3 DEF Order, OrderStatuses
<1>5. orders' = [orders EXCEPT ![o] = r]
  BY <1>2, <1>3 DEF fail_order
<1>6. orders' \in [Orders -> Order] /\ orders'[o] = r
      /\ \A p \in Orders : p # o => orders'[p] = orders[p]
  BY <1>1, <1>4, <1>5
<1>7. OrdersOn
  BY <1>2, <1>4, <1>6 DEF OrdersOn, Onward, PaymentKept
<1>8. ASSUME NEW p \in Orders PROVE OrderTrue(p)'
  <2>1. CASE p = o
    BY <1>1, <1>2, <1>4, <1>6, <2>1 DEF OrderTrue
  <2>2. CASE p # o
    BY <1>1, <1>6, <2>2 DEF OrderTrue
  <2> QED BY <2>1, <2>2
<1> QED BY <1>6, <1>7, <1>8 DEF OrdersWell

LEMMA AnswerKeeps == ASSUME IInv, NEW t \in Tasks, Answer(t) PROVE IInv'
<1>1. /\ tasks[t].pc = "ask"
      /\ UNCHANGED <<keys, balance, price, recurring, bills, fsm, orderLock, userLock, updates,
                     quotes, subs, crashes, taps, charged, delivered, taken, rewarded, lost>>
  BY DEF Answer, At, shop, history
<1>2. TaskTrue(tasks[t])
  BY DEF IInv
<1>3. PICK o \in Orders : o = tasks[t].order
  BY <1>1, <1>2 DEF TaskTrue
<1>4. PICK u \in Users : u = tasks[t].user
  BY <1>1, <1>2 DEF TaskTrue
<1>5. orders[o].status # "none" /\ orders[o].kind # "balance"
  BY <1>1, <1>2, <1>3 DEF TaskTrue
<1>6. tasks[t].pc # "order" /\ tasks[t].pc \notin {"order"}
  BY <1>1
<1>7. fsm' \in [Users -> Data]
  BY <1>1 DEF IInv, TypeOK
<1>8. CASE Leave(t) /\ (UNCHANGED orders \/ (orders[o].kind = "recurring" /\ fail_order(o)))
  <2>1. OrdersWell
    <3>1. CASE UNCHANGED orders
      BY <1>1, <3>1, OrdersStay, OrdersSame DEF OrdersWell
    <3>2. CASE orders[o].kind = "recurring" /\ fail_order(o)
      BY <1>1, <1>5, <3>2, Fails
    <3> QED BY <1>8, <3>1, <3>2
  <2>2. orders' \in [Orders -> Order] /\ (\A p \in Orders : OrderTrue(p))' /\ OrdersOn
    BY <2>1 DEF OrdersWell
  <2>3. /\ Become(t, Idle) /\ Idle \in Task /\ TaskTrue(Idle)' /\ Alone'
        /\ \A s \in Tasks : Holds(s, {"order"}) => tasks'[s] = tasks[s]
    BY <1>6, <1>8, LeaveMoves
  <2>4. /\ tasks' \in [Tasks -> Task] /\ (\A s \in Tasks : TaskTrue(tasks[s]))'
    BY <1>1, <2>2, <2>3, TasksMoveOn
  <2>5. (\A b \in Bills : BillTrue(b))'
    BY <1>1, <2>2, <2>3, BillsStay
  <2>6. (\A v \in Users : ScreenTrue(v))' /\ (\A q \in Quotes : QuoteTrue(q))' /\ ChargedAsShown'
    BY <1>1, <2>2, ScreensStay
  <2>7. TypeOK'
    BY <1>1, <2>2, <2>4 DEF IInv, TypeOK, BookTypeOK
  <2>8. UpdatesTrue' /\ DeliveredOnce'
    BY <1>1 DEF IInv, UpdatesTrue, DeliveredOnce
  <2> QED BY <2>2, <2>3, <2>4, <2>5, <2>6, <2>7, <2>8 DEF IInv
<1>9. CASE tasks' = [tasks EXCEPT ![t] = Flow(u, o, "qr")] /\ UNCHANGED orders
  <2>1. PICK r : r = Flow(u, o, "qr")
    OBVIOUS
  <2>2. OrdersOn
    BY <1>9, OrdersSame
  <2>3. r \in Task /\ TaskTrue(r)' /\ r.pc \notin Owing \cup {"bill"}
    BY <1>5, <2>1, <2>2, FlowTrue
  <2>4. Become(t, r)
    BY <1>9, <2>1 DEF Become
  <2>5. (\A v \in Users : ScreenTrue(v))' /\ (\A q \in Quotes : QuoteTrue(q))' /\ ChargedAsShown'
    BY <1>1, <2>2, ScreensStay
  <2> QED BY <1>1, <1>6, <1>7, <1>9, <2>3, <2>4, <2>5, BookStays
<1>10. \/ Leave(t) /\ (UNCHANGED orders \/ (orders[o].kind = "recurring" /\ fail_order(o)))
       \/ tasks' = [tasks EXCEPT ![t] = Flow(u, o, "qr")] /\ UNCHANGED orders
  BY <1>3, <1>4 DEF Answer, _finalize_recurring_yookassa_payment
<1> QED BY <1>8, <1>9, <1>10

LEMMA NoAnswerKeeps == ASSUME IInv, NEW t \in Tasks, NoAnswer(t) PROVE IInv'
<1>1. /\ tasks[t].pc = "ask" /\ Leave(t)
      /\ UNCHANGED <<orders, keys, balance, price, recurring, bills, fsm, orderLock, userLock,
                     updates, quotes, subs, crashes, taps, charged, delivered, taken, rewarded,
                     lost>>
  BY DEF NoAnswer, At, book, shop, history
<1>2. tasks[t].pc # "order" /\ tasks[t].pc \notin {"order"}
  BY <1>1
<1>3. Become(t, Idle) /\ Idle \in Task /\ TaskTrue(Idle)'
  BY <1>1, <1>2, LeaveMoves
<1>4. Idle.pc \notin Owing \cup {"bill"}
  BY IdleForm DEF Owing
<1>5. OrdersOn
  BY <1>1, OrdersSame
<1>6. (\A v \in Users : ScreenTrue(v))' /\ (\A q \in Quotes : QuoteTrue(q))' /\ ChargedAsShown'
  BY <1>1, <1>5, ScreensStay
<1>7. fsm' \in [Users -> Data]
  BY <1>1 DEF IInv, TypeOK
<1> QED BY <1>1, <1>2, <1>3, <1>4, <1>6, <1>7, BookStays

-----------------------------------------------------------------------------
(* An order is closed and delivered                                        *)

Freed == {"deduct", "reward", "end"}

LEMMA AfterForm ==
    ASSUME NEW t, tasks[t] \in Task, tasks[t].user \in Users
    PROVE  /\ After(t) \in Task /\ After(t).pc \in Freed /\ After(t).user = tasks[t].user
           /\ After(t).order = tasks[t].order /\ After(t).level = tasks[t].level
           /\ After(t).referrer \in Users
<1>1. PICK task \in Task : task = tasks[t]
  OBVIOUS
<1>2. PICK pc \in Freed :
         pc = IF task.via = "crypto" /\ orders[task.order].kind # "crypto" THEN "end"
              ELSE IF task.deduct > 0 THEN "deduct" ELSE "reward"
  BY DEF Freed
<1>3. After(t) = [task EXCEPT !.now = TRUE, !.referrer = task.user, !.pc = pc]
  BY <1>1, <1>2 DEF After
<1>4. task.user \in Users
  BY <1>1
<1> QED BY <1>1, <1>2, <1>3, <1>4 DEF Task, Freed

\* The order gave nothing and rewarded nobody before it was closed, so the handler
\* that closes it is the first and the only one to owe it anything.
LEMMA Delivers ==
    ASSUME IInv, NEW t \in Tasks, tasks[t].pc = "order", NEW o \in Orders, o = tasks[t].order,
           Payable(o), NEW c \in Order, orders' = [orders EXCEPT ![o] = c],
           c.status = "paid", c.owner = orders[o].owner, c.kind = orders[o].kind,
           c.page = orders[o].page, c.payment = orders[o].payment,
           NEW r \in Task, Become(t, r), r.pc \in Freed \cup {"panel"}, r.user \in Users,
           r.order = o, r.level = 1, r.pc \in {"deduct", "reward"} => r.referrer \in Users,
           delivered' = [delivered EXCEPT ![o] = @ + 1],
           keys' \in [Keys -> Key], orderLock' \in [Orders -> Tasks \cup {None}],
           UNCHANGED <<balance, price, recurring, bills, fsm, userLock, updates, quotes, subs,
                       crashes, taps, charged, taken, rewarded, lost>>
    PROVE  IInv'
<1>1. orders \in [Orders -> Order] /\ (\A p \in Orders : OrderTrue(p))
      /\ delivered \in [Orders -> Nat] /\ TaskTrue(tasks[t])
  BY DEF IInv, TypeOK, BookTypeOK
<1>2. orders[o].status = "pending" /\ orders[o].kind # "balance"
  BY <1>1 DEF Payable, TaskTrue
<1>3. delivered[o] = 0 /\ \A l \in Levels : rewarded[<<o, l>>] = 0
  BY <1>1, <1>2 DEF OrderTrue
<1>4. /\ orders' \in [Orders -> Order] /\ orders'[o] = c
      /\ \A p \in Orders : p # o => orders'[p] = orders[p]
  BY <1>1
<1>5. /\ delivered' \in [Orders -> Nat] /\ delivered'[o] = 1
      /\ \A p \in Orders : p # o => delivered'[p] = delivered[p]
  BY <1>1, <1>3
<1>6. OrdersOn
  BY <1>2, <1>4 DEF OrdersOn, Onward, PaymentKept
<1>7. ASSUME NEW p \in Orders PROVE OrderTrue(p)'
  <2>1. CASE p = o
    <3>1. orders'[o].status = "paid" /\ delivered'[o] > 0
      BY <1>4, <1>5
    <3>2. orders'[o].owner \in Users
      BY <1>1, <1>2, <1>4 DEF OrderTrue
    <3>3. orders'[o].page => orders'[o].kind \in {"none", "telegram", "crypto"}
      BY <1>1, <1>4 DEF OrderTrue
    <3> QED BY <2>1, <3>1, <3>2, <3>3 DEF OrderTrue
  <2>2. CASE p # o
    BY <1>1, <1>4, <1>5, <2>2 DEF OrderTrue
  <2> QED BY <2>1, <2>2
<1>8. TaskTrue(r)'
  <2>1. orders'[r.order].status = "paid" /\ orders'[r.order].kind # "balance"
    BY <1>2, <1>4
  <2>2. \A l \in Levels : rewarded'[<<r.order, l>>] = 0
    BY <1>3
  <2> QED BY <2>1, <2>2 DEF TaskTrue, Owing, Freed
<1>9. tasks' \in [Tasks -> Task] /\ (\A s \in Tasks : TaskTrue(tasks[s]))'
  BY <1>6, <1>8, TasksMoveOn
<1>10. Alone'
  <2>1. CASE r.pc = "end"
    <3>1. r.pc \notin Owing \cup {"bill"}
      BY <2>1 DEF Owing
    <3> QED BY <3>1, AloneMoves
  <2>2. CASE r.pc # "end"
    <3>1. r.pc \in Owing
      BY <2>2 DEF Owing, Freed
    <3>2. \A s \in Tasks : tasks[s].order = r.order => ~Holds(s, Owing)
      <4>1. ASSUME NEW s \in Tasks, tasks[s].order = o, tasks[s].pc \in Owing PROVE FALSE
        <5>1. orders[o].status = "paid"
          BY <4>1 DEF IInv, TaskTrue
        <5> QED BY <1>2, <5>1
      <4> QED BY <4>1 DEF Holds
    <3> QED BY <3>1, <3>2, AloneMoves
  <2> QED BY <2>1, <2>2
<1>11. (\A b \in Bills : BillTrue(b))'
  <2>1. \A s \in Tasks : s # t => tasks'[s] = tasks[s]
    BY Moved DEF IInv
  <2>2. \A s \in Tasks : Holds(s, {"order"}) =>
           \/ tasks'[s] = tasks[s]
           \/ delivered'[tasks[s].order] > 0 \/ tasks[s].order \in lost'
    BY <1>5, <2>1
  <2>3. \A p \in Orders : delivered[p] > 0 => delivered'[p] > 0
    BY <1>5
  <2> QED BY <1>6, <2>2, <2>3, BillsStay
<1>12. (\A v \in Users : ScreenTrue(v))' /\ (\A q \in Quotes : QuoteTrue(q))' /\ ChargedAsShown'
  BY <1>6, ScreensStay
<1>13. TypeOK'
  BY <1>4, <1>5, <1>9 DEF IInv, TypeOK, BookTypeOK
<1>14. DeliveredOnce'
  <2>1. \A p \in Orders : delivered'[p] <= 1
    BY <1>5 DEF IInv, DeliveredOnce
  <2> QED BY <2>1 DEF IInv, DeliveredOnce
<1>15. UpdatesTrue'
  BY DEF IInv, UpdatesTrue
<1> QED BY <1>4, <1>7, <1>9, <1>10, <1>11, <1>12, <1>13, <1>14, <1>15 DEF IInv

AtPanel(r) == [r EXCEPT !.pc = "panel"]

AtEnd(r) == [r EXCEPT !.pc = "end"]

LEMMA PanelAndEndForm ==
    ASSUME NEW r \in Task
    PROVE  /\ AtPanel(r) \in Task /\ AtPanel(r).pc = "panel" /\ AtPanel(r).user = r.user
           /\ AtPanel(r).order = r.order /\ AtPanel(r).level = r.level
           /\ AtEnd(r) \in Task /\ AtEnd(r).pc = "end" /\ AtEnd(r).user = r.user
           /\ AtEnd(r).order = r.order /\ AtEnd(r).level = r.level
BY DEF AtPanel, AtEnd, Task

Closed(r, k) == [r EXCEPT !.status = "paid", !.key = k]

LEMMA ClosedForm ==
    ASSUME NEW r \in Order, NEW k \in Keys \cup {None}
    PROVE  /\ Closed(r, k) \in Order /\ Closed(r, k).status = "paid" /\ Closed(r, k).owner = r.owner
           /\ Closed(r, k).kind = r.kind /\ Closed(r, k).page = r.page
           /\ Closed(r, k).payment = r.payment
BY DEF Closed, Order

LEMMA PaidForm ==
    ASSUME NEW o \in Orders, orders[o] \in Order
    PROVE  /\ complete_order(o) \in Order /\ complete_order(o).status = "paid"
           /\ complete_order(o).owner = orders[o].owner /\ complete_order(o).kind = orders[o].kind
           /\ complete_order(o).page = orders[o].page
           /\ complete_order(o).payment = orders[o].payment
BY DEF complete_order, Order

LEMMA ProcessOrderKeeps == ASSUME IInv, NEW t \in Tasks, ProcessOrder(t) PROVE IInv'
<1>1. /\ tasks[t].pc = "order"
      /\ UNCHANGED <<balance, price, recurring, bills, fsm, userLock, updates, quotes, subs, crashes,
                     taps, charged, taken, rewarded, lost>>
  BY DEF ProcessOrder, At, shop
<1>2. TaskTrue(tasks[t]) /\ tasks[t] \in Task /\ orders \in [Orders -> Order] /\ keys \in [Keys -> Key]
      /\ orderLock \in [Orders -> Tasks \cup {None}]
  BY DEF IInv, TypeOK, BookTypeOK
<1>3. PICK o \in Orders : o = tasks[t].order
  BY <1>1, <1>2 DEF TaskTrue
<1>4. /\ tasks[t].user \in Users /\ tasks[t].level = 1
      /\ orders[o].status # "none" /\ orders[o].kind # "balance"
  BY <1>1, <1>2, <1>3 DEF TaskTrue
\* The order was paid already: nothing but the screen.
<1>5. CASE /\ is_order_already_paid(o)
           /\ tasks' = [tasks EXCEPT ![t] = AlreadyProcessed(t)]
           /\ UNCHANGED <<orders, keys, orderLock, delivered>>
  <2>1. PICK r : r = AtEnd(tasks[t])
    OBVIOUS
  <2>2. r \in Task /\ r.pc = "end" /\ r.user \in Users /\ r.order = o
    BY <1>2, <1>3, <1>4, <2>1, PanelAndEndForm
  <2>3. Become(t, r)
    BY <1>5, <2>1 DEF AlreadyProcessed, Become, AtEnd
  <2>4. orders' \in [Orders -> Order] /\ (\A p \in Orders : OrderTrue(p))' /\ OrdersOn
    BY <1>1, <1>5, OrdersStay, OrdersSame
  <2>5. TaskTrue(r)'
    BY <1>4, <1>5, <2>2 DEF TaskTrue, Owing, is_order_already_paid
  <2>6. tasks' \in [Tasks -> Task] /\ (\A s \in Tasks : TaskTrue(tasks[s]))'
    BY <1>1, <2>2, <2>3, <2>4, <2>5, TasksMoveOn
  <2>7. Alone'
    <3>1. r.pc \notin Owing \cup {"bill"}
      BY <2>2 DEF Owing
    <3> QED BY <2>2, <2>3, <3>1, AloneMoves
  <2>8. (\A b \in Bills : BillTrue(b))'
    <3>1. delivered[o] > 0 \/ o \in lost
      BY <1>4, <1>5 DEF IInv, OrderTrue, is_order_already_paid
    <3>2. \A s \in Tasks : s # t => tasks'[s] = tasks[s]
      BY <2>3, Moved DEF IInv
    <3>3. \A s \in Tasks : Holds(s, {"order"}) =>
             \/ tasks'[s] = tasks[s]
             \/ delivered'[tasks[s].order] > 0 \/ tasks[s].order \in lost'
      BY <1>1, <1>3, <1>5, <3>1, <3>2
    <3> QED BY <1>1, <1>5, <2>4, <3>3, BillsStay
  <2>9. (\A v \in Users : ScreenTrue(v))' /\ (\A q \in Quotes : QuoteTrue(q))' /\ ChargedAsShown'
    BY <1>1, <2>4, ScreensStay
  <2>10. TypeOK'
    BY <1>1, <1>5, <2>6 DEF IInv, TypeOK, BookTypeOK
  <2>11. UpdatesTrue' /\ DeliveredOnce'
    BY <1>1, <1>5 DEF IInv, UpdatesTrue, DeliveredOnce
  <2> QED BY <2>4, <2>6, <2>7, <2>8, <2>9, <2>10, <2>11 DEF IInv
\* The order failed, so it is none of Telegram's.
<1>6. CASE /\ ~is_order_already_paid(o) /\ ~Payable(o) /\ Leave(t)
           /\ UNCHANGED <<orders, keys, orderLock, delivered>>
  <2>1. Become(t, Idle) /\ Idle \in Task /\ Idle.pc \notin Owing \cup {"bill"}
    BY <1>6, IdleForm DEF Leave, Become, Owing
  <2>2. orders' \in [Orders -> Order] /\ (\A p \in Orders : OrderTrue(p))' /\ OrdersOn
    BY <1>1, <1>6, OrdersStay, OrdersSame
  <2>3. TaskTrue(Idle)'
    BY IdleForm DEF TaskTrue, Owing, Idle
  <2>4. tasks' \in [Tasks -> Task] /\ (\A s \in Tasks : TaskTrue(tasks[s]))'
    BY <1>1, <2>1, <2>2, <2>3, TasksMoveOn
  <2>5. Alone'
    BY <2>1, AloneMoves
  <2>6. orders[o].kind = "recurring"
    BY <1>2, <1>4, <1>6 DEF IInv, OrderTrue, is_order_already_paid, Payable, Order
  <2>7. ASSUME NEW b \in Bills PROVE BillTrue(b)'
    <3>1. CASE bills[b].status = "none"
      BY <1>1, <3>1 DEF BillTrue
    <3>2. CASE bills[b].status # "none"
      <4>1. bills[b].via = "telegram" => bills[b].order # o
        BY <2>6, <3>2 DEF IInv, BillTrue, Billed
      <4>2. \A s \in Tasks : s # t => tasks'[s] = tasks[s]
        BY <2>1, Moved DEF IInv
      <4>3. \A s \in Tasks :
               Holds(s, {"order"}) /\ tasks[s].order = bills[b].order /\ bills[b].via = "telegram" =>
                  tasks'[s] = tasks[s]
        BY <1>3, <4>1, <4>2
      <4>4. /\ bills'[b] = bills[b] /\ (b \in updates => b \in updates') /\ lost \subseteq lost'
            /\ \A p \in Orders : delivered[p] > 0 => delivered'[p] > 0
        BY <1>1, <1>6
      <4> QED BY <2>2, <4>3, <4>4, BillStays
    <3> QED BY <3>1, <3>2
  <2>8. (\A v \in Users : ScreenTrue(v))' /\ (\A q \in Quotes : QuoteTrue(q))' /\ ChargedAsShown'
    BY <1>1, <2>2, ScreensStay
  <2>9. TypeOK'
    BY <1>1, <1>6, <2>4 DEF IInv, TypeOK, BookTypeOK
  <2>10. UpdatesTrue' /\ DeliveredOnce'
    BY <1>1, <1>6 DEF IInv, UpdatesTrue, DeliveredOnce
  <2> QED BY <2>2, <2>4, <2>5, <2>7, <2>8, <2>9, <2>10 DEF IInv
\* The order is closed, then its key is renewed on the panel.
<1>7. CASE /\ Payable(o) /\ CloseForRenewal(t) /\ Goto(t, "panel")
           /\ orderLock' = [orderLock EXCEPT ![o] = t]
           /\ delivered' = [delivered EXCEPT ![o] = @ + 1]
           /\ UNCHANGED keys
  <2>1. PICK r : r = AtPanel(tasks[t])
    OBVIOUS
  <2>2. r \in Task /\ r.pc = "panel" /\ r.user \in Users /\ r.order = o /\ r.level = 1
    BY <1>2, <1>3, <1>4, <2>1, PanelAndEndForm
  <2>3. Become(t, r)
    BY <1>2, <1>7, <2>1 DEF Goto, Become, AtPanel
  <2>4. PICK c : c = complete_order(o)
    OBVIOUS
  <2>5. /\ c \in Order /\ c.status = "paid" /\ c.owner = orders[o].owner /\ c.kind = orders[o].kind
        /\ c.page = orders[o].page /\ c.payment = orders[o].payment
    BY <1>2, <2>4, PaidForm
  <2>6. orders' = [orders EXCEPT ![o] = c]
    BY <1>3, <1>7, <2>4 DEF CloseForRenewal
  <2>7. keys' \in [Keys -> Key] /\ orderLock' \in [Orders -> Tasks \cup {None}]
    BY <1>2, <1>7
  <2>8. r.pc \in Freed \cup {"panel"} /\ (r.pc \in {"deduct", "reward"} => r.referrer \in Users)
    BY <2>2
  <2> QED BY <1>1, <1>3, <1>7, <2>2, <2>3, <2>5, <2>6, <2>7, <2>8, Delivers
\* The order is closed with a new draft key.
<1>8. ASSUME NEW k \in Keys, Payable(o), create_initial_vpn_key(k, orders[o].owner),
             orders' = [orders EXCEPT ![o] = [complete_order(o) EXCEPT !.key = k]],
             tasks' = [tasks EXCEPT ![t] = After(t)],
             orderLock' = IF o \in Holding(After(t)) THEN [orderLock EXCEPT ![o] = t] ELSE orderLock,
             delivered' = [delivered EXCEPT ![o] = @ + 1]
      PROVE  IInv'
  <2>1. PICK r : r = After(t)
    OBVIOUS
  <2>2. /\ r \in Task /\ r.pc \in Freed /\ r.user \in Users /\ r.order = o /\ r.level = 1
        /\ r.referrer \in Users
    BY <1>2, <1>3, <1>4, <2>1, AfterForm
  <2>3. Become(t, r)
    BY <1>8, <2>1 DEF Become
  <2>4. PICK c : c = Closed(orders[o], k)
    OBVIOUS
  <2>5. /\ c \in Order /\ c.status = "paid" /\ c.owner = orders[o].owner /\ c.kind = orders[o].kind
        /\ c.page = orders[o].page /\ c.payment = orders[o].payment
    BY <1>2, <2>4, ClosedForm
  <2>6. orders' = [orders EXCEPT ![o] = c]
    BY <1>8, <2>4 DEF complete_order, Closed
  <2>7. keys' \in [Keys -> Key] /\ orderLock' \in [Orders -> Tasks \cup {None}]
    <3>1. orders[o].owner \in Users
      BY <1>4, Owned
    <3>2. keys' = [keys EXCEPT ![k] = [status |-> "draft", owner |-> orders[o].owner]]
      BY <1>8 DEF create_initial_vpn_key
    <3>3. [status |-> "draft", owner |-> orders[o].owner] \in Key
      BY <3>1 DEF Key
    <3> QED BY <1>2, <1>8, <3>2, <3>3
  <2>8. r.pc \in Freed \cup {"panel"} /\ (r.pc \in {"deduct", "reward"} => r.referrer \in Users)
    BY <2>2
  <2> QED BY <1>1, <1>3, <1>8, <2>2, <2>3, <2>5, <2>6, <2>7, <2>8, Delivers
<1> QED BY <1>3, <1>5, <1>6, <1>7, <1>8 DEF ProcessOrder

-----------------------------------------------------------------------------
(* What follows an order that was closed                                   *)

\* The handler goes on with its order; nothing is rewarded.
LEMMA OnItsWay ==
    ASSUME IInv, NEW t \in Tasks, tasks[t].pc \in Owing, NEW r \in Task, Become(t, r),
           r.pc \in {"deduct", "reward", "end"}, r.order = tasks[t].order, r.user \in Users,
           r.level = tasks[t].level, r.pc = "deduct" => r.level = 1,
           r.pc \in {"deduct", "reward"} => r.referrer \in Users,
           balance' \in [Users -> Nat], orderLock' \in [Orders -> Tasks \cup {None}],
           taken' \in [Orders -> Nat],
           UNCHANGED <<orders, keys, price, recurring, bills, fsm, userLock, updates, quotes, subs,
                       crashes, taps, charged, delivered, rewarded, lost>>
    PROVE  IInv'
<1>1. TaskTrue(tasks[t])
  BY DEF IInv
<1>2. PICK task \in Task : task = tasks[t]
  BY DEF IInv, TypeOK
<1>3. /\ task.order \in Orders /\ orders[task.order].status = "paid"
      /\ orders[task.order].kind # "balance"
      /\ \A l \in Levels : l >= task.level => rewarded[<<task.order, l>>] = 0
  BY <1>1, <1>2 DEF TaskTrue, Owing
<1>4. orders' \in [Orders -> Order] /\ (\A p \in Orders : OrderTrue(p))' /\ OrdersOn
  BY OrdersStay, OrdersSame
<1>5. TaskTrue(r)'
  BY <1>2, <1>3 DEF TaskTrue, Owing
<1>6. tasks' \in [Tasks -> Task] /\ (\A s \in Tasks : TaskTrue(tasks[s]))'
  BY <1>4, <1>5, TasksMoveOn
<1>7. Alone'
  <2>1. r.pc \notin Owing \cup {"bill"} \/ (r.pc \in Owing /\ tasks[t].pc \in Owing
                                              /\ r.order = tasks[t].order)
    BY DEF Owing
  <2> QED BY <2>1, AloneMoves
<1>8. (\A b \in Bills : BillTrue(b))'
  <2>1. \A s \in Tasks : Holds(s, {"order"}) => tasks'[s] = tasks[s]
    BY Moved DEF IInv, Holds, Owing
  <2> QED BY <1>4, <2>1, BillsStay
<1>9. (\A v \in Users : ScreenTrue(v))' /\ (\A q \in Quotes : QuoteTrue(q))' /\ ChargedAsShown'
  BY <1>4, ScreensStay
<1>10. TypeOK'
  BY <1>6 DEF IInv, TypeOK, BookTypeOK
<1>11. UpdatesTrue' /\ DeliveredOnce'
  BY DEF IInv, UpdatesTrue, DeliveredOnce
<1> QED BY <1>4, <1>6, <1>7, <1>8, <1>9, <1>10, <1>11 DEF IInv

LEMMA PanelDoneKeeps == ASSUME IInv, NEW t \in Tasks, PanelDone(t) PROVE IInv'
<1>1. /\ tasks[t].pc = "panel" /\ tasks' = [tasks EXCEPT ![t] = After(t)]
      /\ UNCHANGED <<orders, keys, balance, price, recurring, bills, fsm, userLock, updates, quotes,
                     subs, crashes, taps, charged, delivered, taken, rewarded, lost>>
  BY DEF PanelDone, At, book, shop, history
<1>2. TaskTrue(tasks[t]) /\ tasks[t] \in Task
  BY DEF IInv, TypeOK
<1>3. tasks[t].user \in Users /\ tasks[t].level = 1 /\ tasks[t].pc \in Owing
  BY <1>1, <1>2 DEF TaskTrue, Owing
<1>4. PICK r : r = After(t)
  OBVIOUS
<1>5. /\ r \in Task /\ r.pc \in {"deduct", "reward", "end"} /\ r.user \in Users
      /\ r.order = tasks[t].order /\ r.level = tasks[t].level /\ r.referrer \in Users
  BY <1>2, <1>3, <1>4, AfterForm DEF Freed
<1>6. Become(t, r)
  BY <1>1, <1>4 DEF Become
<1>7. /\ balance' \in [Users -> Nat] /\ taken' \in [Orders -> Nat]
      /\ orderLock' \in [Orders -> Tasks \cup {None}]
  BY <1>1 DEF PanelDone, IInv, TypeOK, BookTypeOK
<1>8. (r.pc = "deduct" => r.level = 1) /\ (r.pc \in {"deduct", "reward"} => r.referrer \in Users)
  BY <1>3, <1>5
<1> QED BY <1>1, <1>3, <1>5, <1>6, <1>7, <1>8, OnItsWay

AtReward(r) == [r EXCEPT !.pc = "reward"]

LEMMA RewardForm ==
    ASSUME NEW r \in Task
    PROVE  /\ AtReward(r) \in Task /\ AtReward(r).pc = "reward" /\ AtReward(r).user = r.user
           /\ AtReward(r).order = r.order /\ AtReward(r).level = r.level
           /\ AtReward(r).referrer = r.referrer
BY DEF AtReward, Task

LEMMA TakeShareKeeps == ASSUME IInv, NEW t \in Tasks, TakeShare(t) PROVE IInv'
<1>1. PICK o : o = tasks[t].order
  OBVIOUS
<1>2. PICK u : u = orders[o].owner
  OBVIOUS
<1>3. PICK cents : cents = Least(tasks[t].deduct, balance[u])
  OBVIOUS
<1>4. /\ tasks[t].pc = "deduct" /\ Goto(t, "reward") /\ deduct_from_balance(u, cents)
      /\ taken' = [taken EXCEPT ![o] = @ + cents]
      /\ UNCHANGED <<orders, keys, price, recurring, bills, fsm, orderLock, userLock, updates, quotes,
                     subs, crashes, taps, charged, delivered, rewarded, lost>>
  BY <1>1, <1>2, <1>3 DEF TakeShare, At, shop
<1>5. TaskTrue(tasks[t]) /\ tasks[t] \in Task /\ balance \in [Users -> Nat]
      /\ taken \in [Orders -> Nat] /\ orderLock \in [Orders -> Tasks \cup {None}]
  BY DEF IInv, TypeOK, BookTypeOK
<1>6. /\ tasks[t].user \in Users /\ tasks[t].pc \in Owing /\ tasks[t].referrer \in Users
      /\ o \in Orders /\ orders[o].status # "none"
  BY <1>1, <1>4, <1>5 DEF TaskTrue, Owing
<1>7. u \in Users
  BY <1>2, <1>6, Owned
<1>8. cents \in Nat /\ cents <= balance[u]
  <2>1. tasks[t].deduct \in Nat /\ balance[u] \in Nat
    BY <1>5, <1>7 DEF Task
  <2> QED BY <1>3, <2>1, LeastNat
<1>9. balance' \in [Users -> Nat]
  <2>1. balance' = [balance EXCEPT ![u] = balance[u] - cents]
    BY <1>4 DEF deduct_from_balance
  <2>2. balance[u] - cents \in Nat
    BY <1>5, <1>7, <1>8
  <2> QED BY <1>5, <2>1, <2>2
<1>10. taken' \in [Orders -> Nat] /\ orderLock' \in [Orders -> Tasks \cup {None}]
  BY <1>4, <1>5, <1>6, <1>8
<1>11. PICK r : r = AtReward(tasks[t])
  OBVIOUS
<1>12. /\ r \in Task /\ r.pc = "reward" /\ r.user \in Users /\ r.order = tasks[t].order
       /\ r.level = tasks[t].level /\ r.referrer \in Users
  BY <1>5, <1>6, <1>11, RewardForm
<1>13. Become(t, r)
  BY <1>4, <1>5, <1>11 DEF Goto, Become, AtReward
<1>14. /\ r.pc \in {"deduct", "reward", "end"} /\ (r.pc = "deduct" => r.level = 1)
       /\ (r.pc \in {"deduct", "reward"} => r.referrer \in Users)
  BY <1>12
<1> QED BY <1>4, <1>6, <1>9, <1>10, <1>12, <1>13, <1>14, OnItsWay

\* One level further up the chain of referrers.
Upward(r, l, u) == [r EXCEPT !.level = l, !.referrer = u]

LEMMA UpwardForm ==
    ASSUME NEW r \in Task, NEW l \in 1..4, NEW u \in Users
    PROVE  /\ Upward(r, l, u) \in Task /\ Upward(r, l, u).pc = r.pc
           /\ Upward(r, l, u).user = r.user /\ Upward(r, l, u).order = r.order
           /\ Upward(r, l, u).level = l /\ Upward(r, l, u).referrer = u
BY DEF Upward, Task

\* A level is rewarded once: the handler that rewards it has the order alone, and
\* has rewarded no level from this one on.
LEMMA Rewards ==
    ASSUME IInv, NEW t \in Tasks, tasks[t].pc = "reward", NEW u \in Users,
           NEW l \in Levels, l = tasks[t].level, NEW o \in Orders, o = tasks[t].order,
           NEW r \in Task, r = Upward(tasks[t], l + 1, u), Become(t, r),
           balance' \in [Users -> Nat],
           rewarded' = [rewarded EXCEPT ![<<o, l>>] = @ + 1],
           UNCHANGED <<orders, keys, price, recurring, bills, fsm, orderLock, userLock, updates,
                       quotes, subs, crashes, taps, charged, delivered, taken, lost>>
    PROVE  IInv'
<1>1. TaskTrue(tasks[t]) /\ tasks \in [Tasks -> Task] /\ rewarded \in [Orders \X Levels -> Nat]
      /\ \A p \in Orders : OrderTrue(p)
  BY DEF IInv, TypeOK
<1>2. /\ orders[o].status = "paid" /\ orders[o].kind # "balance" /\ tasks[t].user \in Users
      /\ \A m \in Levels : m >= l => rewarded[<<o, m>>] = 0
  BY <1>1 DEF TaskTrue, Owing
<1>3. l + 1 \in 1..4 /\ l >= l
  BY DEF Levels
<1>4. /\ r.pc = "reward" /\ r.user = tasks[t].user /\ r.order = o /\ r.level = l + 1
      /\ r.referrer = u
  <2>1. PICK m \in 1..4 : m = l + 1
    BY <1>3
  <2>2. PICK task \in Task : task = tasks[t]
    BY <1>1
  <2>3. r = Upward(task, m, u)
    BY <2>1, <2>2
  <2>4. /\ r.pc = task.pc /\ r.user = task.user /\ r.order = task.order /\ r.level = m
        /\ r.referrer = u
    BY <2>1, <2>2, <2>3 DEF Upward, Task
  <2> QED BY <2>1, <2>2, <2>4
<1>5. /\ rewarded' \in [Orders \X Levels -> Nat] /\ rewarded'[<<o, l>>] = 1
      /\ \A p \in Orders, m \in Levels : <<p, m>> # <<o, l>> => rewarded'[<<p, m>>] = rewarded[<<p, m>>]
  <2>1. <<o, l>> \in Orders \X Levels
    OBVIOUS
  <2>2. rewarded[<<o, l>>] = 0
    BY <1>2, <1>3
  <2> QED BY <1>1, <2>1, <2>2
<1>6. orders' \in [Orders -> Order] /\ OrdersOn
  BY OrdersSame DEF IInv, TypeOK, BookTypeOK
<1>7. ASSUME NEW p \in Orders PROVE OrderTrue(p)'
  <2>1. CASE p = o
    BY <1>1, <1>2, <2>1 DEF OrderTrue
  <2>2. CASE p # o
    <3>1. \A m \in Levels : rewarded'[<<p, m>>] = rewarded[<<p, m>>]
      BY <1>5, <2>2
    <3> QED BY <1>1, <3>1 DEF OrderTrue
  <2> QED BY <2>1, <2>2
<1>8. TaskTrue(r)'
  <2>1. \A m \in Levels : m >= l + 1 => rewarded'[<<o, m>>] = 0
    <3>1. ASSUME NEW m \in Levels, m >= l + 1 PROVE rewarded'[<<o, m>>] = 0
      <4>1. m # l /\ m >= l
        BY <3>1 DEF Levels
      <4> QED BY <1>2, <1>5, <4>1
    <3> QED BY <3>1
  <2> QED BY <1>2, <1>4, <2>1 DEF TaskTrue, Owing
<1>9. \A s \in Tasks : tasks'[s] = IF s = t THEN r ELSE tasks[s]
  BY Moved DEF IInv
<1>10. tasks' \in [Tasks -> Task]
  BY <1>1 DEF Become
<1>11. ASSUME NEW s \in Tasks PROVE TaskTrue(tasks[s])'
  <2>1. PICK q \in Task : q = tasks'[s]
    BY <1>10
  <2>2. TaskTrue(q)'
    <3>1. CASE s = t
      BY <1>8, <1>9, <2>1, <3>1
    <3>2. CASE s # t
      <4>1. q = tasks[s] /\ TaskTrue(tasks[s])
        BY <1>9, <2>1, <3>2 DEF IInv
      <4>2. TaskTrue(q)
        BY <4>1
      <4>3. q.pc \in Owing => q.order # o
        <5>1. Alone
          BY DEF IInv
        <5>2. tasks[t].pc \in Owing
          BY DEF Owing
        <5> QED BY <3>2, <4>1, <5>1, <5>2 DEF Alone, Holds
      <4>4. q.pc \in Owing => q.order \in Orders
        BY <4>2 DEF TaskTrue, Owing
      <4>5. q.pc \in Owing => \A m \in Levels : rewarded'[<<q.order, m>>] = rewarded[<<q.order, m>>]
        BY <1>5, <4>3, <4>4
      <4> QED BY <4>2, <4>5 DEF TaskTrue
    <3> QED BY <3>1, <3>2
  <2> QED BY <2>1, <2>2 DEF TaskTrue
<1>12. Alone'
  <2>1. r.pc \in Owing /\ tasks[t].pc \in Owing /\ r.order = tasks[t].order
    BY <1>4 DEF Owing
  <2> QED BY <2>1, AloneMoves
<1>13. (\A b \in Bills : BillTrue(b))'
  <2>1. \A s \in Tasks : Holds(s, {"order"}) => tasks'[s] = tasks[s]
    BY <1>9 DEF Holds
  <2> QED BY <1>6, <2>1, BillsStay
<1>14. (\A v \in Users : ScreenTrue(v))' /\ (\A q \in Quotes : QuoteTrue(q))' /\ ChargedAsShown'
  BY <1>6, ScreensStay
<1>15. TypeOK'
  BY <1>5, <1>10 DEF IInv, TypeOK, BookTypeOK
<1>16. DeliveredOnce'
  <2>1. ASSUME NEW p \in Orders, NEW m \in Levels PROVE rewarded'[<<p, m>>] <= 1
    <3>1. CASE <<p, m>> = <<o, l>>
      BY <1>5, <3>1
    <3>2. CASE <<p, m>> # <<o, l>>
      <4>1. rewarded[<<p, m>>] <= 1
        BY DEF IInv, DeliveredOnce
      <4> QED BY <1>5, <3>2, <4>1
    <3> QED BY <3>1, <3>2
  <2> QED BY <2>1 DEF IInv, DeliveredOnce
<1>17. UpdatesTrue'
  BY DEF IInv, UpdatesTrue
<1> QED BY <1>6, <1>7, <1>10, <1>11, <1>12, <1>13, <1>14, <1>15, <1>16, <1>17 DEF IInv

LEMMA RewardLevelKeeps == ASSUME IInv, NEW t \in Tasks, RewardLevel(t) PROVE IInv'
<1>1. /\ tasks[t].pc = "reward"
      /\ UNCHANGED <<orders, keys, price, recurring, bills, fsm, userLock, updates, quotes, subs,
                     crashes, taps, charged, delivered, taken, lost>>
  BY DEF RewardLevel, At, shop
<1>2. TaskTrue(tasks[t]) /\ tasks[t] \in Task /\ balance \in [Users -> Nat]
      /\ taken \in [Orders -> Nat] /\ orderLock \in [Orders -> Tasks \cup {None}]
  BY DEF IInv, TypeOK, BookTypeOK
<1>3. /\ tasks[t].user \in Users /\ tasks[t].pc \in Owing /\ tasks[t].referrer \in Users
      /\ tasks[t].order \in Orders
  BY <1>1, <1>2 DEF TaskTrue, Owing
<1>4. PICK o \in Orders : o = tasks[t].order
  BY <1>3
<1>5. PICK u : u = Referrer[tasks[t].referrer]
  OBVIOUS
<1>6. u \in Users \cup {None}
  BY <1>3, <1>5, BookAssumption
<1>7. PICK l : l = tasks[t].level
  OBVIOUS
\* A level is rewarded.
<1>8. CASE /\ u # None /\ l \in Levels
           /\ add_to_balance(u, Reward[l])
           /\ rewarded' = [rewarded EXCEPT ![<<o, l>>] = @ + 1]
           /\ tasks' = [tasks EXCEPT ![t].level = l + 1, ![t].referrer = u]
           /\ UNCHANGED orderLock
  <2>1. PICK m \in 1..4 : m = l + 1
    BY <1>8 DEF Levels
  <2>2. PICK r : r = Upward(tasks[t], m, u)
    OBVIOUS
  <2>3. u \in Users
    BY <1>6, <1>8
  <2>4. r \in Task
    BY <1>2, <2>2, <2>3, UpwardForm
  <2>5. Become(t, r) /\ r = Upward(tasks[t], l + 1, u)
    <3>1. tasks \in [Tasks -> Task]
      BY DEF IInv, TypeOK
    <3> QED BY <1>8, <2>1, <2>2, <3>1 DEF Become, Upward
  <2>6. balance' \in [Users -> Nat]
    <3>1. Reward[l] \in Nat
      BY <1>8, OrdersAssumption
    <3> QED BY <1>2, <1>8, <2>3, <3>1 DEF add_to_balance
  <2>7. UNCHANGED <<orders, keys, price, recurring, bills, fsm, orderLock, userLock, updates,
                    quotes, subs, crashes, taps, charged, delivered, taken, lost>>
    BY <1>1, <1>8
  <2>8. rewarded' = [rewarded EXCEPT ![<<o, l>>] = @ + 1] /\ l \in Levels
    BY <1>8
  <2> QED BY <1>1, <1>4, <1>7, <2>3, <2>4, <2>5, <2>6, <2>7, <2>8, Rewards
\* The chain has ended.
<1>9. CASE /\ Goto(t, "end") /\ UNCHANGED <<balance, rewarded>>
           /\ orderLock' = IF o \in Holding(tasks[t]) THEN [orderLock EXCEPT ![o] = None] ELSE orderLock
  <2>1. PICK r : r = AtEnd(tasks[t])
    OBVIOUS
  <2>2. /\ r \in Task /\ r.pc = "end" /\ r.user \in Users /\ r.order = tasks[t].order
        /\ r.level = tasks[t].level
    BY <1>2, <1>3, <2>1, PanelAndEndForm
  <2>3. Become(t, r)
    BY <1>2, <1>9, <2>1 DEF Goto, Become, AtEnd
  <2>4. /\ balance' \in [Users -> Nat] /\ taken' \in [Orders -> Nat]
        /\ orderLock' \in [Orders -> Tasks \cup {None}]
    BY <1>1, <1>2, <1>9
  <2>5. /\ r.pc \in {"deduct", "reward", "end"} /\ (r.pc = "deduct" => r.level = 1)
        /\ (r.pc \in {"deduct", "reward"} => r.referrer \in Users)
    BY <2>2
  <2>6. UNCHANGED <<orders, keys, price, recurring, bills, fsm, userLock, updates, quotes, subs,
                    crashes, taps, charged, delivered, rewarded, lost>>
    BY <1>1, <1>9
  <2> QED BY <1>3, <2>2, <2>3, <2>4, <2>5, <2>6, OnItsWay
<1> QED BY <1>4, <1>5, <1>7, <1>8, <1>9 DEF RewardLevel

NoShare(d) == [d EXCEPT !.deduct = 0]

LEMMA NoShareForm ==
    ASSUME NEW d \in Data
    PROVE  /\ NoShare(d) \in Data /\ NoShare(d).deduct = 0 /\ NoShare(d).price = d.price
           /\ NoShare(d).price \in Nat /\ NoShare(d).quote = d.quote /\ NoShare(d).setup = d.setup
BY DEF NoShare, Data

LEMMA FinishKeeps == ASSUME IInv, NEW t \in Tasks, Finish(t) PROVE IInv'
<1>1. /\ tasks[t].pc = "end" /\ Leave(t)
      /\ UNCHANGED <<orders, keys, balance, price, recurring, bills, orderLock, userLock, updates,
                     quotes, crashes, taps, charged, delivered, taken, rewarded, lost>>
  BY DEF Finish, At, book, shop, history
<1>2. TaskTrue(tasks[t]) /\ fsm \in [Users -> Data] /\ orders \in [Orders -> Order]
      /\ keys \in [Keys -> Key] /\ subs \subseteq Keys
  BY DEF IInv, TypeOK, BookTypeOK
<1>3. PICK o \in Orders : o = tasks[t].order
  BY <1>1, <1>2 DEF TaskTrue
<1>4. PICK u \in Users : u = tasks[t].user
  BY <1>1, <1>2 DEF TaskTrue
<1>5. orders[o].status # "none"
  BY <1>1, <1>2, <1>3 DEF TaskTrue
<1>6. PICK data : data = NoShare(fsm[u])
  OBVIOUS
<1>7. /\ data \in Data /\ data.deduct <= data.price /\ data.quote = fsm[u].quote
      /\ data.setup = fsm[u].setup
  <2>1. data.deduct = 0 /\ data.price \in Nat
    BY <1>2, <1>6, NoShareForm
  <2> QED BY <1>2, <1>6, <2>1, NoShareForm
<1>8. Finalize(u, o, data)
  BY <1>3, <1>4, <1>6 DEF Finish, NoShare
<1>9. OrdersOn
  BY <1>1, OrdersSame
<1>10. /\ fsm' \in [Users -> Data] /\ (\A v \in Users : ScreenTrue(v))'
       /\ (\A q \in Quotes : QuoteTrue(q))' /\ ChargedAsShown'
  <2>1. UNCHANGED <<quotes, charged>>
    BY <1>1
  <2> QED BY <1>5, <1>7, <1>8, <1>9, <2>1, Finalized
<1>11. keys' \in [Keys -> Key] /\ subs' \subseteq Keys
  <2>1. orders[o].key \in Keys \cup {None}
    BY <1>2 DEF Order
  <2> QED BY <1>1, <1>2, <1>3, <2>1 DEF Finish
<1>12. tasks[t].pc # "order" /\ tasks[t].pc \notin {"order"}
  BY <1>1
<1>13. Become(t, Idle) /\ Idle \in Task /\ TaskTrue(Idle)' /\ Idle.pc \notin Owing \cup {"bill"}
  BY <1>1, <1>12, LeaveMoves, IdleForm DEF Owing
<1> QED BY <1>1, <1>10, <1>11, <1>12, <1>13, BookMoves

-----------------------------------------------------------------------------
(* The server of a new key                                                 *)

LEMMA ChooseServerKeeps ==
    ASSUME IInv, NEW t \in Tasks, NEW u \in Customers, ChooseServer(t, u)
    PROVE  IInv'
<1>1. u \in Users
  BY CustomerIsUser
<1>2. UNCHANGED <<orders, keys, balance, price, recurring, bills, fsm, orderLock, userLock, updates,
                  quotes, subs, crashes, taps, charged, delivered, taken, rewarded, lost>>
  BY DEF ChooseServer, book, shop, history
<1>3. PICK o \in Orders : o = fsm[u].setup
  BY <1>1 DEF ChooseServer, IInv, TypeOK, Data
<1>4. orders[o].status # "none"
  BY <1>1, <1>3, BookAssumption DEF IInv, ScreenTrue
<1>5. PICK r : r = Adding(u, o)
  OBVIOUS
<1>6. r \in Task /\ r.pc = "add" /\ r.user = u /\ r.order = o
  BY <1>1, <1>5, AddForm
<1>7. tasks[t].pc = "idle" /\ Become(t, r)
  BY <1>3, <1>5 DEF ChooseServer, Start, At, Become, Adding
<1>8. TaskTrue(r)'
  BY <1>1, <1>2, <1>4, <1>6 DEF TaskTrue, Owing
<1>9. OrdersOn
  BY <1>2, OrdersSame
<1>10. (\A v \in Users : ScreenTrue(v))' /\ (\A q \in Quotes : QuoteTrue(q))' /\ ChargedAsShown'
  BY <1>2, <1>9, ScreensStay
<1>11. fsm' \in [Users -> Data]
  BY <1>2 DEF IInv, TypeOK
<1>12. r.pc \notin Owing \cup {"bill"} /\ tasks[t].pc \notin {"order"}
  BY <1>6, <1>7 DEF Owing
<1> QED BY <1>2, <1>6, <1>7, <1>8, <1>10, <1>11, <1>12, BookStays

LEMMA ServerAnsweredKeeps == ASSUME IInv, NEW t \in Tasks, ServerAnswered(t) PROVE IInv'
<1>1. /\ tasks[t].pc = "add" /\ Leave(t)
      /\ UNCHANGED <<balance, price, recurring, bills, orderLock, userLock, updates, quotes, subs,
                     crashes, taps, charged, delivered, taken, rewarded, lost>>
  BY DEF ServerAnswered, At, shop, history
<1>2. TaskTrue(tasks[t]) /\ fsm \in [Users -> Data] /\ orders \in [Orders -> Order]
      /\ keys \in [Keys -> Key] /\ subs \subseteq Keys
  BY DEF IInv, TypeOK, BookTypeOK
<1>3. PICK o \in Orders : o = tasks[t].order
  BY <1>1, <1>2 DEF TaskTrue
<1>4. PICK u \in Users : u = tasks[t].user
  BY <1>1, <1>2 DEF TaskTrue
<1>5. orders' = orders
  <2>1. CASE orders' = [orders EXCEPT ![o].key = orders[o].key]
    <3>1. [orders[o] EXCEPT !.key = orders[o].key] = orders[o]
      BY <1>2 DEF Order
    <3> QED BY <1>2, <2>1, <3>1
  <2> QED BY <1>3, <2>1 DEF ServerAnswered, update_payment_key_id
<1>6. keys' \in [Keys -> Key]
  <2>1. ASSUME NEW k, keys' = [keys EXCEPT ![k].status = "live"] PROVE keys' \in [Keys -> Key]
    <3>1. ASSUME NEW x \in Keys PROVE [keys[x] EXCEPT !.status = "live"] \in Key
      <4>1. keys[x] \in Key
        BY <1>2
      <4> QED BY <4>1 DEF Key
    <3> QED BY <1>2, <2>1, <3>1
  <2> QED BY <1>2, <2>1 DEF ServerAnswered, update_vpn_key_config
<1>7. OrdersOn
  BY <1>5, OrdersSame
<1>8. /\ fsm' \in [Users -> Data] /\ (\A v \in Users : ScreenTrue(v))'
      /\ (\A q \in Quotes : QuoteTrue(q))' /\ ChargedAsShown'
  <2>1. UNCHANGED <<quotes, charged>>
    BY <1>1
  <2>2. CASE fsm' = [fsm EXCEPT ![u] = NoData]
    BY <1>7, <2>1, <2>2, Cleared
  <2>3. CASE UNCHANGED fsm
    BY <1>2, <1>7, <2>1, <2>3, ScreensStay
  <2> QED BY <1>4, <2>2, <2>3 DEF ServerAnswered
<1>9. tasks[t].pc # "order" /\ tasks[t].pc \notin {"order"}
  BY <1>1
<1>10. Become(t, Idle) /\ Idle \in Task /\ TaskTrue(Idle)' /\ Idle.pc \notin Owing \cup {"bill"}
  BY <1>1, <1>9, LeaveMoves, IdleForm DEF Owing
<1>11. subs' \subseteq Keys
  BY <1>1, <1>2
<1> QED BY <1>1, <1>5, <1>6, <1>8, <1>9, <1>10, <1>11, BookMoves

-----------------------------------------------------------------------------
(* The process dies                                                        *)

\* What died is on record: the orders of the handlers and of the dropped messages.
LEMMA LostGrows ==
    ASSUME IInv, Restart
    PROVE  /\ lost \subseteq lost' /\ lost' \subseteq Orders
           /\ \A t \in Tasks : tasks[t].order # None => tasks[t].order \in lost'
           /\ \A b \in updates : bills[b].order \in lost'
<1>1. lost' = lost \cup {tasks[t].order : t \in Dying} \cup {bills[b].order : b \in updates}
  BY DEF Restart
<1>2. \A t \in Dying : tasks[t].order \in Orders
  BY DEF Dying, IInv, TypeOK, Task
<1>3. \A b \in updates : bills[b].order \in Orders
  BY DEF IInv, UpdatesTrue, BillTrue, Billed, TypeOK
<1>4. lost \subseteq Orders
  BY DEF IInv, TypeOK
<1>5. \A t \in Tasks : tasks[t].order # None => t \in Dying
  BY DEF Dying
<1> QED BY <1>1, <1>2, <1>3, <1>4, <1>5

LEMMA RestartKeeps ==
    ASSUME IInv, Restart, orders' \in [Orders -> Order], (\A o \in Orders : OrderTrue(o))', OrdersOn,
           balance' \in [Users -> Nat], charged' \in [Quotes -> Nat],
           (\A q \in Quotes : QuoteTrue(q))', ChargedAsShown'
    PROVE  IInv'
<1>1. UNCHANGED <<keys, price, recurring, bills, quotes, subs, taps, delivered, taken, rewarded>>
  BY DEF Restart, shop
<1>2. /\ tasks' = [t \in Tasks |-> Idle] /\ fsm' = [u \in Users |-> NoData]
      /\ orderLock' = [o \in Orders |-> None] /\ userLock' = [u \in Users |-> None]
      /\ updates' = {} /\ crashes < MaxCrashes /\ crashes' = crashes + 1
  BY DEF Restart
<1>3. tasks' \in [Tasks -> Task] /\ \A t \in Tasks : tasks'[t] = Idle
  BY <1>2, IdleForm
<1>4. (\A t \in Tasks : TaskTrue(tasks[t]))'
  <2>1. Idle.pc = "idle"
    BY IdleForm
  <2> QED BY <1>3, <2>1 DEF TaskTrue, Owing
<1>5. Alone'
  <2>1. "idle" \notin Owing \cup {"bill"}
    BY DEF Owing
  <2> QED BY <1>3, <2>1, IdleForm DEF Alone, Holds
<1>6. fsm' \in [Users -> Data] /\ (\A u \in Users : ScreenTrue(u))'
  <2>1. fsm' \in [Users -> Data] /\ \A u \in Users : fsm'[u] = NoData
    BY <1>2, NoDataForm
  <2> QED BY <2>1, NoDataForm DEF ScreenTrue
<1>7. ASSUME NEW b \in Bills, bills[b].status # "none" PROVE BillTrue(b)'
  <2>1. PICK o \in Orders : o = bills[b].order
    BY <1>7 DEF IInv, BillTrue, Billed
  <2>2. /\ orders[o].status # "none" /\ orders[o].kind # "balance"
        /\ bills[b].via # "qr" => orders[o].kind # "recurring"
        /\ bills[b].via = "qr" => orders[o].payment = b
    BY <1>7, <2>1 DEF IInv, BillTrue, Billed
  <2>3. /\ orders'[o].status # "none" /\ orders'[o].kind # "balance"
        /\ bills[b].via # "qr" => orders'[o].kind # "recurring"
        /\ bills[b].via = "qr" => orders'[o].payment = b
    BY <2>2 DEF OrdersOn, Onward, PaymentKept
  <2>4. ASSUME bills[b].status = "paid", bills[b].via = "telegram"
        PROVE  delivered'[o] > 0 \/ o \in lost'
    <3>1. \/ b \in updates
          \/ \E t \in Tasks : Holds(t, {"order"}) /\ tasks[t].order = o
          \/ delivered[o] > 0
          \/ o \in lost
      BY <1>7, <2>1, <2>4 DEF IInv, BillTrue
    <3>2. o # None
      BY BookAssumption
    <3> QED BY <1>1, <2>1, <3>1, <3>2, LostGrows
  <2> QED BY <1>1, <2>1, <2>3, <2>4 DEF BillTrue, Billed
<1>8. (\A b \in Bills : BillTrue(b))'
  BY <1>1, <1>7 DEF BillTrue
<1>9. TypeOK'
  <2>1. orderLock' \in [Orders -> Tasks \cup {None}] /\ userLock' \in [Users -> Tasks \cup {None}]
    BY <1>2
  <2>2. crashes' \in 0..MaxCrashes
    BY <1>2, OrdersAssumption DEF IInv, TypeOK
  <2> QED BY <1>1, <1>2, <1>3, <1>6, <2>1, <2>2, LostGrows DEF IInv, TypeOK, BookTypeOK
<1>10. UpdatesTrue' /\ DeliveredOnce'
  BY <1>1, <1>2 DEF IInv, UpdatesTrue, DeliveredOnce
<1> QED BY <1>4, <1>5, <1>6, <1>8, <1>9, <1>10 DEF IInv

LEMMA CrashKeeps == ASSUME IInv, Crash PROVE IInv'
<1>1. Restart /\ UNCHANGED <<orders, balance, charged>> /\ UNCHANGED <<delivered, rewarded, quotes>>
  BY DEF Crash, Restart
<1>2. orders' \in [Orders -> Order] /\ (\A o \in Orders : OrderTrue(o))' /\ OrdersOn
  BY <1>1, LostGrows, OrdersStay, OrdersSame
<1>3. /\ balance' \in [Users -> Nat] /\ charged' \in [Quotes -> Nat]
      /\ (\A q \in Quotes : QuoteTrue(q))' /\ ChargedAsShown'
  BY <1>1 DEF IInv, TypeOK, BookTypeOK, QuoteTrue, ChargedAsShown
<1> QED BY <1>1, <1>2, <1>3, RestartKeeps

LEMMA DieInOrderKeeps == ASSUME IInv, NEW t \in Tasks, DieInOrder(t) PROVE IInv'
<1>1. /\ tasks[t].pc = "order" /\ Restart /\ UNCHANGED <<balance, charged>>
      /\ UNCHANGED <<delivered, rewarded, quotes>>
  BY DEF DieInOrder, At, Restart
<1>2. TaskTrue(tasks[t]) /\ orders \in [Orders -> Order] /\ \A o \in Orders : OrderTrue(o)
  BY DEF IInv, TypeOK, BookTypeOK
<1>3. PICK o \in Orders : o = tasks[t].order
  BY <1>1, <1>2 DEF TaskTrue
<1>4. orders[o].status = "pending"
  BY <1>3 DEF DieInOrder, Payable
<1>5. PICK c : c = complete_order(o)
  OBVIOUS
<1>6. /\ c \in Order /\ c.status = "paid" /\ c.owner = orders[o].owner /\ c.kind = orders[o].kind
      /\ c.page = orders[o].page /\ c.payment = orders[o].payment
  BY <1>2, <1>5, PaidForm
<1>7. /\ orders' \in [Orders -> Order] /\ orders'[o] = c
      /\ \A p \in Orders : p # o => orders'[p] = orders[p]
  <2>1. orders' = [orders EXCEPT ![o] = c]
    BY <1>3, <1>5 DEF DieInOrder
  <2> QED BY <1>2, <1>6, <2>1
<1>8. OrdersOn
  BY <1>4, <1>6, <1>7 DEF OrdersOn, Onward, PaymentKept
<1>9. ASSUME NEW p \in Orders PROVE OrderTrue(p)'
  <2>1. CASE p = o
    <3>1. o \in lost'
      BY <1>1, <1>3, BookAssumption, LostGrows
    <3> QED BY <1>2, <1>4, <1>6, <1>7, <2>1, <3>1 DEF OrderTrue
  <2>2. CASE p # o
    <3>1. lost \subseteq lost'
      BY <1>1, LostGrows
    <3> QED BY <1>1, <1>2, <1>7, <2>2, <3>1 DEF OrderTrue
  <2> QED BY <2>1, <2>2
<1>10. /\ balance' \in [Users -> Nat] /\ charged' \in [Quotes -> Nat]
       /\ (\A q \in Quotes : QuoteTrue(q))' /\ ChargedAsShown'
  BY <1>1 DEF IInv, TypeOK, BookTypeOK, QuoteTrue, ChargedAsShown
<1> QED BY <1>1, <1>7, <1>8, <1>9, <1>10, RestartKeeps

LEMMA DieInBalanceKeeps ==
    ASSUME IInv, NEW u \in Customers, NEW q \in Quotes, DieInBalance(u, q)
    PROVE  IInv'
<1>1. u \in Users
  BY CustomerIsUser
<1>2. /\ Restart /\ UNCHANGED orders /\ UNCHANGED <<delivered, rewarded, quotes>>
      /\ fsm[u].quote = q /\ quotes[q].owner = u /\ SameTerms(u, q)
  BY DEF DieInBalance, Restart
<1>3. orders' \in [Orders -> Order] /\ (\A o \in Orders : OrderTrue(o))' /\ OrdersOn
  BY <1>2, LostGrows, OrdersStay, OrdersSame
<1>4. /\ balance' \in [Users -> Nat] /\ charged' \in [Quotes -> Nat]
      /\ (\A p \in Quotes : QuoteTrue(p))' /\ ChargedAsShown'
  <2>1. /\ deduct_from_balance(u, price[quotes[q].tariff])
        /\ charged' = [charged EXCEPT ![q] = @ + price[quotes[q].tariff]]
    BY DEF DieInBalance, SameTerms
  <2>2. UNCHANGED quotes
    BY <1>2
  <2>3. Taken(u, q)
    BY <1>2, <2>1, <2>2 DEF Taken
  <2>4. Charged(u)
    BY <1>1, <2>3, Paid
  <2> QED BY <2>4 DEF Charged
<1> QED BY <1>2, <1>3, <1>4, RestartKeeps

-----------------------------------------------------------------------------
(* The theorems                                                            *)

LEMMA InitInv == Init => IInv
<1> SUFFICES ASSUME Init PROVE IInv
  OBVIOUS
<1>1. /\ orders = [o \in Orders |-> NoOrder] /\ NoOrder \in Order
      /\ NoOrder.status = "none" /\ NoOrder.kind = "none" /\ ~NoOrder.page
  BY DEF Init, BookInit, NoOrder, Order
<1>2. bills = [b \in Bills |-> NoBill] /\ NoBill \in Bill /\ NoBill.status = "none"
  BY DEF Init, BookInit, NoBill, Bill
<1>3. keys \in [Keys -> Key]
  <2>1. PICK u \in Customers :
           keys = [k \in Keys |-> IF k \in Renewable THEN [status |-> "live", owner |-> u]
                                  ELSE [status |-> "none", owner |-> None]]
    BY DEF Init, BookInit
  <2>2. u \in Users
    BY CustomerIsUser
  <2> QED BY <2>1, <2>2 DEF Key
<1>4. /\ balance \in [Users -> Nat] /\ price \in [Tariffs -> Nat]
      /\ recurring \in [Tariffs -> BOOLEAN]
  BY BookAssumption DEF Init, BookInit
<1>5. BookTypeOK
  BY <1>1, <1>2, <1>3, <1>4 DEF BookTypeOK
<1>6. tasks = [t \in Tasks |-> Idle] /\ Idle \in Task /\ Idle.pc = "idle"
  BY IdleForm DEF Init
<1>7. /\ fsm \in [Users -> Data] /\ \A u \in Users : fsm[u] = NoData
  BY NoDataForm DEF Init
<1>8. /\ quotes \in [Quotes -> Quote] /\ \A q \in Quotes : quotes[q].owner = None
  BY DEF Init, NoQuote, Quote
<1>9. /\ charged = [q \in Quotes |-> 0] /\ delivered = [o \in Orders |-> 0]
      /\ taken = [o \in Orders |-> 0] /\ rewarded = [x \in Orders \X Levels |-> 0]
      /\ lost = {} /\ updates = {} /\ subs = {} /\ crashes = 0 /\ taps \in Visits
      /\ orderLock = [o \in Orders |-> None] /\ userLock = [u \in Users |-> None]
  BY DEF Init
<1>10. TypeOK
  <2>1. crashes \in 0..MaxCrashes
    BY <1>9, OrdersAssumption
  <2> QED BY <1>5, <1>6, <1>7, <1>8, <1>9, <2>1 DEF TypeOK
<1>11. \A o \in Orders : OrderTrue(o)
  BY <1>1, <1>9 DEF OrderTrue
<1>12. \A b \in Bills : BillTrue(b)
  BY <1>2 DEF BillTrue
<1>13. \A t \in Tasks : TaskTrue(tasks[t])
  BY <1>6 DEF TaskTrue, Owing
<1>14. Alone
  BY <1>6 DEF Alone, Holds, Owing
<1>15. \A u \in Users : ScreenTrue(u)
  BY <1>7, NoDataForm DEF ScreenTrue
<1>16. \A q \in Quotes : QuoteTrue(q)
  BY <1>8, <1>9 DEF QuoteTrue
<1>17. UpdatesTrue /\ ChargedAsShown
  BY <1>9 DEF UpdatesTrue, ChargedAsShown
<1>18. DeliveredOnce
  BY <1>9 DEF DeliveredOnce
<1> QED BY <1>10, <1>11, <1>12, <1>13, <1>14, <1>15, <1>16, <1>17, <1>18 DEF IInv

LEMMA StandsStill == ASSUME IInv, UNCHANGED vars PROVE IInv'
<1>1. UNCHANGED <<orders, keys, balance, price, recurring, bills, fsm, tasks, orderLock, userLock,
                  updates, quotes, subs, crashes, taps, charged, delivered, taken, rewarded, lost>>
  BY DEF vars, book, shop, volatile, history
<1>2. orders' \in [Orders -> Order] /\ (\A o \in Orders : OrderTrue(o))' /\ OrdersOn
  BY <1>1, OrdersStay, OrdersSame
<1>3. (\A b \in Bills : BillTrue(b))'
  BY <1>1, <1>2, BillsStay
<1>4. /\ tasks' \in [Tasks -> Task] /\ (\A s \in Tasks : TaskTrue(tasks[s]))' /\ Alone'
  BY <1>1, <1>2, TasksStay
<1>5. (\A v \in Users : ScreenTrue(v))' /\ (\A q \in Quotes : QuoteTrue(q))' /\ ChargedAsShown'
  BY <1>1, <1>2, ScreensStay
<1>6. TypeOK' /\ UpdatesTrue' /\ DeliveredOnce'
  BY <1>1 DEF IInv, TypeOK, BookTypeOK, UpdatesTrue, DeliveredOnce
<1> QED BY <1>2, <1>3, <1>4, <1>5, <1>6 DEF IInv

LEMMA StepInv == IInv /\ [Next]_vars => IInv'
<1> SUFFICES ASSUME IInv, [Next]_vars PROVE IInv'
  OBVIOUS
<1>1. ASSUME NEW t \in Tasks, Work(t) PROVE IInv'
  BY <1>1, BillMadeKeeps, BalanceRenewedKeeps, AnswerKeeps, ProcessOrderKeeps, PanelDoneKeeps,
     TakeShareKeeps, RewardLevelKeeps, FinishKeeps, ServerAnsweredKeeps DEF Work
<1>2. ASSUME NEW t \in Tasks, NoAnswer(t) PROVE IInv'
  BY <1>2, NoAnswerKeeps
<1>3. ASSUME NEW t \in Tasks, NEW u \in Customers, Tap(t, u) PROVE IInv'
  BY <1>3, BuyKeeps, CheckKeeps, PayWithBalanceKeeps, PayQrBalanceKeeps, ChooseServerKeeps DEF Tap
<1>4. ASSUME NEW t \in Tasks, NEW b \in Bills, TelegramPaid(t, b) \/ CryptoReturn(t, b) PROVE IInv'
  BY <1>4, TelegramPaidKeeps, CryptoReturnKeeps
<1>5. ASSUME NEW u \in Customers, Page(u) PROVE IInv'
  BY <1>5, RenderKeeps, PayInvoiceKeeps, RenewInvoiceKeeps, ShowBalanceKeeps, PayCardBalanceKeeps,
     HomeKeeps DEF Page
<1>6. CASE Outside
  BY <1>6, PayBillKeeps, VoidBillKeeps, RepriceKeeps DEF Outside
<1>7. CASE Dies
  BY <1>7, CrashKeeps, DieInOrderKeeps, DieInBalanceKeeps DEF Dies
<1>8. CASE UNCHANGED vars
  BY <1>8, StandsStill
<1> QED BY <1>1, <1>2, <1>3, <1>4, <1>5, <1>6, <1>7, <1>8 DEF Next

\* The inductive invariant: whatever the shop, its users, the providers and the deaths
\* of the process do, orders, bills, handlers and screens fit together.
THEOREM InvariantHolds == Spec => []IInv
<1>1. Init => IInv
  BY InitInv
<1>2. IInv /\ [Next]_vars => IInv'
  BY StepInv
<1> QED BY <1>1, <1>2, PTL DEF Spec

\* Every row, FSM entry and handler keeps its shape: no balance, charge or share of a
\* price is ever negative (deduct_from_balance, billing.py).
THEOREM TypeCorrect == Spec => []TypeOK
<1>1. IInv => TypeOK
  BY DEF IInv
<1> QED BY <1>1, InvariantHolds, PTL

\* complete_order under the order's lock is what keeps a payment that is reported by
\* the button, a return link and Telegram from giving two keys, two periods or two
\* rewards (process_payment_order, process_referral_reward).
THEOREM GivenOnce == Spec => []DeliveredOnce
<1>1. IInv => DeliveredOnce
  BY DEF IInv
<1> QED BY <1>1, InvariantHolds, PTL

\* The quote of a balance screen is consumed with the payment it confirms, so neither a
\* double tap nor a new price takes anything but what was shown (pay_with_balance).
THEOREM ChargesWhatItShows == Spec => []ChargedAsShown
<1>1. IInv => ChargedAsShown
  BY DEF IInv
<1> QED BY <1>1, InvariantHolds, PTL

LEMMA KeptNow == IInv => PaidIsKept
<1> SUFFICES ASSUME IInv, NEW b \in Bills, bills[b].status = "paid", bills[b].via # "crypto"
             PROVE  \/ b \in updates
                    \/ \E t \in Tasks : tasks[t].order = bills[b].order
                    \/ orders[bills[b].order].payment = b
                    \/ Served(bills[b].order)
  BY DEF PaidIsKept
<1>1. BillTrue(b) /\ bills[b].via \in {"telegram", "qr", "crypto"}
  BY DEF IInv, TypeOK, BookTypeOK, Bill
<1>2. CASE bills[b].via = "qr"
  BY <1>1, <1>2 DEF BillTrue
<1>3. CASE bills[b].via = "telegram"
  BY <1>1, <1>3 DEF BillTrue, Billed, Served
<1> QED BY <1>1, <1>2, <1>3

\* A bill paid by Telegram or at a provider can always be found again: in a message
\* that Telegram still has to deliver, in the hands of a handler, or by the payment id
\* that create_qr_payment_flow saved for the button; only a death of the process, with
\* drop_pending_updates, lets one go.
THEOREM PaidIsNotForgotten == Spec => []PaidIsKept
<1>1. IInv => PaidIsKept
  BY KeptNow
<1> QED BY <1>1, InvariantHolds, PTL
=============================================================================
