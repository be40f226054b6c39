# WaveMesh bot: formal models, checks and proofs

TLA+ models of the parts of the WaveMesh Telegram bot in which the order of
things matters: what is written before a request leaves, what is read before an
await and used after it, what a restart finds. The modules are translated from
the code under `src/`, definition by definition; `PROJECT.json` says for every
definition which lines it stands for.

Contents: 1 the system; 2 the modules and the code; 3 what is checked;
4 bounds; 5 fairness; 6 what is proved; 7 findings and known divergences;
8 what is not modelled; 9 plan; 10 how to run.

## 1. The system

One Python process (aiogram, asyncio, one thread), one SQLite file, restarted
by systemd (`Restart=always`). It runs in one of two modes
(`bot/services/runtime_mode.py`):

* **SaaS client mode**: WaveMesh SaaS owns accesses, orders and entitlements.
  The bot keeps *journals* of what it asked for and a *projection* of what it
  was given. Two processes may share the file for a short time (a deploy, a
  manual start), so the journals fence each other with transactions and leases.
* **legacy mode**: the bot owns users, keys, payments and subscriptions, and
  drives 3X-UI panels and payment providers. Background loops started in
  `main.py` do the rest.

### Inventory

| component | state | operations | interacts with | what is hard | what makes it correct |
|---|---|---|---|---|---|
| checkout journal and coordinator (`database/checkout_intents.py`, `services/checkout_coordinator.py`) | `checkout_intents`, `checkout_callbacks` | prepare, attach, claim_confirmed, cancel, rejected, prove_rejected, observe; select/confirm/recover/reject | SaaS orders API, checkout screens | double taps, crash around the POST, a rejection overtaking the create, relinking of the account | one POST per purchase, no order behind a closed attempt, one live purchase, buttons never rebound |
| checkout screens (`database/checkout_ui.py`, `handlers/user/payments/checkout.py`) | immutable screen references | one handler per button | the coordinator | old messages | see above |
| administrative provisioning (`database/admin_provisioning.py`, `services/admin_provisioning.py`, `handlers/admin/provisioning.py`) | `admin_provisioning`, a draft `vpn_keys` row | confirm, claim, advance, save, release, finalize | three SaaS writes (user, shadow snapshot, create), outbox triggers | leases that end under way, three crash windows, failed writes | every write once and in order, one grant at a time, no grant pending for ever |
| access replacement (`database/access_replacement.py`, `services/access_replacement.py`, `handlers/user/replacement.py`) | `access_replacements` | offer, confirm, cancel, claim, dispatch, observe, finalize, release | SaaS replace command, projection | as above, and overtaking rotations | one rotation per confirmation, withdrawn means unsent, own result only |
| access projection and payment return (`database/saas_access_projection.py`, `database/payment_return_projection.py`) | binding and `vpn_keys` | apply_ready, project | replacement, provisioning, returns | three writers, each with readings older than its transaction | the copy never goes back and never revives a removed key |
| shadow outbox and deletion (`services/access_shadow_outbox.py`, `database/access_shadow_outbox_triggers.py`, `database/db_keys_shadow_outbox.py`) | `access_shadow_outbox`, `vpn_keys` | triggers, enqueue, drain pass, delete | SaaS snapshots | two commits of a deletion, redelivery, retries, overtaking | no event lost, order kept, nobody blocked |
| direct refresh, startup reconciliation (`services/access_shadow.py`, `access_shadow_reconciliation.py`, `database/db_keys_shadow.py`) | none | refresh, compare | same endpoint | racing with the outbox | SaaS shows the newest payload when nothing failed |
| internal API client (`services/internal_api.py`) | none | HTTP calls | SaaS | errors and timeouts | - (its calls are the remote steps) |
| recurring subscriptions (`services/subscription_billing.py`, `database/db_subscriptions.py`, `services/yookassa_recurring.py`) | `subscriptions`, `payments`, key expiry | billing round, finalize, failure, unlink | YooKassa, user, key | unknown outcomes, user decisions during a charge | one charge at a time, paid periods only, one request at most after unlinking |
| orders and delivery (`services/billing.py`, `database/db_payments.py`, `handlers/user/payments/*`) | `payments` | create, complete, deliver | providers, keys, referral | crash between completion and delivery | delivered once, and delivered when paid |
| balance and referral (`payments/balance.py`, `referral.py`) | user balances | deduct, reward | orders | deduction and delivery are two transactions | money is neither lost nor made |
| keys and panels (`services/key_lifecycle.py`, `vpn_api.py`, `expired_key_reconciler.py`, user and admin key screens) | panel clients, `vpn_keys`, a lock per key | synchronise, renew, ban, replace, delete, clean up | 3X-UI | rows read before an await, partial failure | the panel follows the row; nobody is on a day beyond what was paid |
| panel client (`services/panels/xui.py`) | session, CSRF and bearer token, API profile | login, request with retries, client calls | 3X-UI of three releases | all of the memory stale at once, shared by coroutines | an undisturbed call does its work, one identity per client |
| scheduler (`services/scheduler.py`, `expiry_notifications.py`) | traffic counters, sent marks | sync, reset, notify | panels, Telegram | reset against sync | keys in term end up on |
| upkeep (`database/migrations.py`, `branding.py`, `admin/system.py`, `broadcast.py`, `update_block.py`) | schema version, settings, pages, the working tree | migrate, brand, update, reset, broadcast, stop | git, Telegram | crashes between statements of a migration, old screens | the database is what its version says; a stop is heeded |
| administrators' desk (`admin/servers.py`, `servers_fast.py`, `tariffs.py`, `groups.py`, `db_servers.py`, `db_groups.py`, `db_tariffs.py`) | one conversation per administrator, the catalogue | wizards, forms, groups | user screens, panel clients | buttons that never expire, overlapping handlers | servers stay placed, values land where the form was opened |
| live screen (`services/live_screen.py`) | one message id per chat | show, replace | Telegram | concurrent handlers | one live message |
| startup and modes (`main.py`, `startup_policy.py`, guards) | configuration | start loops | all | order of start | legacy writers do not run in SaaS mode |
| SaaS screens, other handlers and accessors, texts, installation | - | dialogues | all of the above | little | - |

`PROJECT.json` lists the same components with their files and, for each, what
is and what is not modelled; its `hazards` say where the hard behaviours bite.

## 2. The modules and the code

```
CheckoutPromise   <=implements= CheckoutProps     -> Checkout -> SaasCheckout -> CheckoutJournal
ProjectionPromise <=implements= ReplacementProps  -> Replacement
                  <=implements= ProvisioningProps -> Provisioning
ShadowOutboxProps  -> ShadowOutbox
SubscriptionsProps -> Subscriptions
OrdersProps        -> Orders -> OrderBook
PanelsProps        -> Panels -> KeyBook
XuiProps           -> XuiCalls -> Xui
UpkeepProps        -> Upkeep -> Migrations
DeskProps          -> Desk -> Catalogue
```
(`->`: EXTENDS.) Each `...Props` module holds the properties of one component
and the invariant its proof needs, each `...Proofs` module the theorems, and
each `MC...` module is an instance for TLC. Where there is no `MC...` module the
configuration gives plain values and TLC runs the `...Props` module.

**The grain.** In the journals (checkout, replacement, provisioning) one action
per transaction and one per remote read, remote write, or answer, in the order
of the code. That is finer than asyncio alone would interleave them; it is the
grain of two processes on one file and of crashes, which both occur. In the
legacy parts, which only one process runs, a handler runs alone between two
awaits, and a crash comes between any two transactions (`Orders`,
`Subscriptions`) or any two statements (`Upkeep`). A local variable that lives
across an await is a field of the task's record (`task[t]`, `tasks[t]`, `loop`,
`worker`) and is used later as it was read.

**Requests.** A write leaves into a set (`inflight`, `network`), is handled
later, any number of steps after its sender gave up, or never. History
variables (`posts`, `delivered`, `charged`, `settled`, `paid`, ...) record what
left or was done; no action of the code reads them.

| module | state and actions |
|---|---|
| `CheckoutJournal` | the two tables; one operator per transaction of `checkout_intents.py`. An owner stands for (scope, SaaS user) |
| `SaasCheckout` | external: orders, fences, current checkout, the link of the Telegram account, the network, other channels |
| `Checkout` | a task is one handler of one tap; labels are the awaits of `select`, `confirm`, `recover`, `reject` and of the screens |
| `Replacement` | the version SaaS holds, the version the key row holds, `apply_ready`, payment returns (`Readers`); journal rows, leases (`lease[op]` is the task whose token is valid), the loop and the handlers as tasks, SaaS commands |
| `Provisioning` | the same for grants: eight phases, three requests, owner binding, draft keys. A draft key is per operation, so the version variables are functions of the operation |
| `ShadowOutbox` | one legacy key. A version is a committed change: it stands for the row it leaves, its snapshot and its event; `payload` says which versions report the same, and the idempotency key is that of the payload, as the digest of `access_shadow.py:204` is. `Start` starts the worker when the probe of SaaS succeeds and the gate is open, and `Bury` after a deletion. `Delete` and `Bury` are the two commits of `delete_vpn_key` |
| `Subscriptions` | one subscription of one key, its orders, the key's end, YooKassa's payments. Ends of access are counted in half periods without gaps: period n ends at 2n and its grace at 2n + 1. `late` counts the requests that leave after the card was unlinked |
| `OrderBook` | `payments`, `vpn_keys`, balances, prices and the bills at the providers; one operator per transaction |
| `Orders` | purchase pages, payments by Telegram, by a provider's page and by balance, completion by button, return link and message, delivery, renewal, first payment of a subscription, rewards. A task is a handler; `pc` is its await; `orderLock` and `userLock` are the two lock tables |
| `KeyBook` | `vpn_keys` and the clients of the panels they describe; the row writes and the panel calls as operators. Time is counted in parts of a day (`Day` of them) |
| `Panels` | `ensure_subscription_keys_on_server` call by call under the key's lock, the three loops, and every screen that touches a key. A client is made for whole days from now (`DaysLeft`, `Expiry`) and aligned to the row's end by an update of its own |
| `Xui` | external: who a panel lets in, its endpoints, its clients; and the session of `XUIClient`: `_request` with its attempts, the ways to log in, the detection of the profile |
| `XuiCalls` | the calls that add, update, extend, limit, reset and delete clients, with the second run after a stale profile |
| `Migrations` | every migration as its sequence of statements, DDL or row; INSERTs that follow one another are one statement. `Made` and `Contents` say what a version adds and has |
| `Upkeep` | start, migration statement by statement, branding, update and reset of the tree, broadcast, crash. `disk` is what is committed, `work` what the open connection sees; `proc` says which version is being built and which statement of it is next; `RecordVersion` is `set_version`; a process that is "refusing" met a database that is too old |
| `Catalogue` | servers, groups, tariffs; one operator per transaction |
| `Desk` | wizards, forms, group screens and their handlers, split where they await; the user's choice of another server; cached panel clients |

What is abstracted: identifiers are model values; prices, terms, texts and
credentials are not told apart unless a property does (credentials are named by
their desired version; prices are small numbers in `Orders`); times are replaced
by "may happen at any moment" (end of a lease, 600 s age of a confirmation,
900 s age of an operation, next attempt, next charge, end of the grace period)
or counted in parts of a day (`KeyBook`). `PENDING` stands for the two statuses `PENDING`
and `TIMEOUT` where the worker treats them alike.

**Abstract specifications.** `CheckoutPromise` is the life of a purchase as a
user may rely on it: offered, then withdrawn or committed once; committed, then
ordered or refused; one undecided purchase at a time. `ProjectionPromise` is
the local key row as a lagging copy of what SaaS issued. `PromiseKept` and
`CopyLags` say that the detailed specifications implement them, under the
refinement mappings in `CheckoutProps` (`life`, `ordered`), `ReplacementProps`
and `ProvisioningProps` (one instance per operation).

## 3. What is checked

| run | question and answer |
|---|---|
| `checkout_race` | Two handlers, two buttons, two purchases, all six kinds of taps, relinking, in four combinations: `AtMostOnePost`, `ClosedWithoutOrder` hold, and `PromiseKept`, the refinement |
| `replacement_race` | Loop and handler over one or two operations, in one of four troubles: `ReplacedOnce`, `WithdrawnUnsent`, `OneAtWork`, `DoneIsOwn`, `CopyLags` hold; under section 5's fairness also `QueuedIsServed` and `FinishedIsClosed` |
| `provisioning_race` | Loop and button over one or two grants, in one of four troubles: `DispatchedOnce`, `CreateOnSnapshot`, `OneGrantAtWork` hold, and `PendingEnds`: no grant is "in progress" for ever |
| `outbox_race` | Changes, adoption and deletion, worker, refresh, reconciliation, a crash, a snapshot refused for good: `NothingLost`, `OvertakesOnlyFailed`, `QuietShowsNewest` hold, and `NobodyBlocks` under section 5's fairness |
| `outbox_delete` | `DeletionAnnounced` is violated: see section 7 |
| `subscriptions_race` | Three charges, crashes, lost answers, definitive errors, unlinking, renewal by hand: `OneChargeAtATime`, `PeriodsArePaid`, `OneMoreAtMost` hold, and `SucceededIsCredited` under section 5's fairness |
| `orders_race` | One order with two bills and every kind of tap, two handlers, a changing price, a death between any two transactions: `DeliveredOnce` (keys, periods and rewards), `ChargedAsShown`, `PaidIsKept` hold, and `PaidIsServed` under section 5's fairness |
| `panels_race` | Every pair of operations on a key, or one operation and one failed call, on two screens and against the reconciler: `LastSyncStands`, `PaidTimeOnly` hold |
| `panels_live` | The traffic loop and the monthly task around one operation and one failed call: `ActiveIsServed`, `BannedIsOff` hold |
| `xui_race` | A shared panel client through lost sessions, rotated tokens, upgrades, restarts: `LoneCallDoes` holds, and two coroutines that add one client are told one UUID (`OneIdentity`) |
| `upkeep_race` | Two administrators, three releases, a crash between any two statements: `VersionIsTrue`, `SchemaIsWhole`, `NoDowngrade`, `ChoicesStand`, `StopHeeded` hold |
| `desk_race` | Wizards, forms and old buttons of one conversation with overlapping handlers: `ServerIsPlaced`, `StoredWhereOpened`, `SavedFromOneWizard` hold |

Some of these say less than one would wish, and that is what the code gives:

* `OneChargeAtATime` excuses an order that failed: a definitive error (4xx) may
  answer a *repeated* request whose first copy was accepted, or a poll of a
  payment that lives on. The order is then failed and the next attempt has a new
  idempotence key.
* `OneMoreAtMost`: the batch of a round is read before its charges, so a card that
  is unlinked then is charged once more, however late in the round. A charge that
  succeeds links the card again (section 7), and the property says nothing then.
* `SucceededIsCredited` excuses an unlinked card: such a subscription is not
  listed again, so a payment that was pending then is never polled.
* `QuietShowsNewest` asks for a closed gate and no failed delivery: with direct
  refreshes or retries an older snapshot may arrive last. It speaks of *new*
  payloads: a change that restores an earlier payload repeats its idempotency
  key, SaaS replays the first answer, and the read model keeps showing what came
  in between (section 7).
* `NobodyBlocks` ends with the worker: where the probe of SaaS failed at the start
  none is started, whatever the gate says, until the next start or deletion
  (`main.py:172`), and `NothingLost` is all that holds. It assumes that SaaS
  accepts a snapshot it does not refuse after `QuickRetries + 1` failures at most.
  A database error that ends the worker's task is not modelled.
* `QueuedIsServed` and `PendingEnds` are content with `MANUAL_REVIEW`, which
  ends the automatic work.
* `PaidIsServed` and `PaidIsKept` excuse an order whose handler or message died
  with the process (`lost`): the order is completed before it is delivered, and
  `main.py` drops pending updates at the start.
* `PaidIsServed` speaks of the order and of a payment that has come to the bot: a
  message of Telegram, or an answer that a handler has taken. A payment that no
  button, link or message ever asks about stays at the provider (`PaidIsKept`).
  A second payment of a reused order is reported and nothing is given for it
  (section 7).
* `PaidTimeOnly` allows less than a day beyond what was paid: `vpn_api.py:310`
  rounds the term up to whole days from now, and the update that aligns the
  client may fail. After a complete synchronisation it allows nothing. It
  excuses the address of a replacement that was confirmed after the end of the
  term (`given[e] = "late"`): its clients are made switched on for a day.
* `LoneCallDoes` leaves out a client that takes a 3.x panel for 2.x: the 403 of
  its writes is final.
* `ChoicesStand` excuses the setting `crypto_integration_mode`, which migration
  22 removes, and a text of an administrator that names the former brand, which
  the branding replaces.

Every property has a mutant in `PROJECT.json`, an operator written just before
the definition it replaces and marked *Mistake*: a plausible bug of that code
under which TLC finds the property violated.

Deadlock is checked except in the replacement, provisioning, outbox,
subscription and order runs: a bot without buttons left to tap or events left
to deliver idles, and so does an expired subscription.

## 4. Bounds

Troubles, visits, crews and duties are chosen in the initial state, so that an
instance is a *sum* of small combinations and not their product; the modules
allow all of them at once.

* Handlers: two tasks. The journals fence by row and the locks by key or order,
  so a third task adds no new pair.
* Operations: one for races within an operation, two for successors and for
  "one at a time". `checkout_race` has two buttons and two purchases, and the sum
  of `SmallRounds`: two handlers race from two buttons with every tap but the
  explicit rejection; two handlers of one button do everything while the account
  is relinked; and everything is done from both buttons, one handler after the
  other. Two buttons, two racing handlers and relinking together are left to the
  proofs, which have any number of each.
* SaaS users: one or two (relinking); credential scopes: one or two (rotation of
  the bot's own SaaS credentials).
* Versions of an access: three: the base, the bot's own rotation, one rotation
  from elsewhere on either side of it.
* `MaxSlips` (crashes, failed reads, early ends of leases, lost answers, failed
  calls): one where one slip already sets two tasks to work on one row; two in
  `subscriptions_race`, so that a crash may follow a lost answer. `MaxEvents` of
  `Panels` bounds operations and failed calls together by two. A checkout
  handler may die at any step, any number of times. `MaxCrashes` of `Orders`:
  one, at any transaction.
* `MaxFailures` is `MAX_FAILED_ATTEMPTS`, four in the code; two is enough for
  one refusal with a later attempt and for the final one. `MaxRenewals`,
  `MaxOrders`: one renewal by hand, three charges: a paid one before and after a
  refused one.
* `QuickRetries`, `BatchSize` of the outbox: 0 and 1. A pass then takes one row,
  so that a refused row that were not put off would hold the queue for ever;
  the code's batch is 20 and is held by twenty such rows in the same way.
  `MaxVersion`, `MaxGated`: three changes (one state, another, and the first
  again), two with the direct senders at work.
* `Orders`: one customer, an inviter, one order, two bills, one live key and one
  to be made, two prices. `Visits`: the balance screens, or everything else.
* `Panels`: one key; two inbounds of which one is hidden by the subscription
  mode; one replacement; `MaxOps` two operations of thirteen in `panels_race`,
  each once (`Once`). The random suffix of a new address is taken to be new.
  `Day` is 2 and `MaxTime` 3: a term may end within a day, so that rounding it up
  shows, and time passes the end of a term. No time passes while the clients of
  one key are being added (`Adding`): each of those calls is short against half
  a day.
* `Xui`: two inbounds, two sessions, two tokens, two changes of the panel or
  restarts, one failed exchange.
* `Upkeep`: databases of versions 21 (the first migration), 27 (before the
  choice of a mode), 38 (before those that only create) and 42 (what the first
  release left), a fresh one and one that is too old; three releases, one of
  them blocking. The proofs lift these bounds.
* `Desk`: two groups, servers and tariffs, or one group; both wizards together,
  then each wizard and each form with the groups; four to nine taps (`ops`), two
  handlers at once.

Counters that history variables or versions would run up are capped by guards
on these constants and by nothing else.

## 5. Fairness

YooKassa, the other providers and the panels may be silent for ever, and so may
SaaS, except where the outbox is said to be delivered. Assumed is only:

* *replacement, provisioning*: `WF(Work(t))`, since asyncio resumes every task;
  `SF(Claim(Loop, op))`: the loop passes over the due rows, oldest first, every
  five seconds, and a row that is now and then leased by a handler is found
  free in the end; `WF(Expire)`, `WF(GrowLate)`: time passes. A remote call has
  a client timeout, so that a worker that waits goes on (`Unavailable`, or the
  failing branch of the call) without the server's help.
* *outbox*: a worker that runs goes on polling, its timers end, what it sends
  arrives or is refused, and a started deletion goes on. Nobody is obliged to
  start the process or the worker, to answer the probe or to change a key. A
  request that is not refused and does not arrive is a failure, of which there
  are `QuickRetries + 1` at most for one event.
* *subscriptions*: the loop runs every five minutes and the next charge becomes
  due.
* *orders*: `WF(Work(t) \/ NoAnswer(t))`: asyncio resumes every handler, and a
  question to a provider ends with an answer or, by the client's timeout,
  without one; `SF` of `TelegramPaid`: Telegram delivers a message that was not
  dropped. No tap and no answer of a provider is fair.
* *panels*: loops come round again; a coroutine goes on when what it waits for
  is there (`WF(Goes)`), the lock of a key is handed out in turn (`SF(ReadKey)`),
  and every sixth cycle of the traffic loop is one that materialises. At most
  `MaxSlips` calls fail. A screen is fair once it was tapped.
* *checkout, panel client, upkeep, desk*: none. Their properties are about
  single steps and states.

## 6. What is proved

Every theorem holds for any values of the constants that satisfy the named
assumptions of the modules (`OrdersAssumption`, `RoundsAssumption`,
`LoopAssumption`, `VersionBound`, `ProvisioningAssumption`, `TroublesAssumption`,
`OutboxAssumption`, `BoundsAssumption`, `BookAssumption`, `UpkeepAssumption`, ...), which say what
kind of value a constant is, that `None` is none of the values, and what the
code's own constants guarantee. TLC evaluates them in the runs.

None of the safety properties is inductive. Each component has an invariant
`IInv` in its `...Props` module, a conjunction of named parts that includes the
type invariant and the properties; `InvariantHolds` is `Spec => []IInv`,
`TypeCorrect` is `Spec => []TypeOK`, and the others follow. The proof that a step
keeps `IInv` has one step per action (`SPECIFICATION Spec`, `INVARIANT IInv` in
a configuration of section 3 lets TLC check it there, as was done before each
proof); most actions move only a task's register,
for which a lemma shows once which new registers are harmless.

| module | theorem | property | for the run |
|---|---|---|---|
| `CheckoutProofs` | `PostedOnce` | `AtMostOnePost` | `checkout_race` |
| | `ClosedStaysWithoutOrder` | `ClosedWithoutOrder` | `checkout_race` |
| | `SettledStaysTrue`, `OneLiveAlways`, `CallbacksStayBound` | `SettledIsTrue`, `OneLivePurchase`, `CallbackKept` | - |
| | `PromiseImplemented` | `PromiseKept` | `checkout_race` |
| `SubscriptionsProofs` | `ChargedOnce` | `OneChargeAtATime` | `subscriptions_race` |
| | `PeriodsStayPaid` | `PeriodsArePaid` | `subscriptions_race` |
| | `OneMoreCharge` | `OneMoreAtMost` | `subscriptions_race` |
| `ReplacementProofs` | `SentOnce` | `ReplacedOnce` | `replacement_race` |
| | `WithdrawnStays` | `WithdrawnUnsent` | `replacement_race` |
| | `OneRotation` | `OneAtWork` | `replacement_race` |
| | `DoneOwn` | `DoneIsOwn` | `replacement_race` |
| | `CopyImplemented` | `CopyLags` | `replacement_race` |
| `ProvisioningProofs` | `WritesLeaveOnce` | `DispatchedOnce` | `provisioning_race` |
| | `CreatedOnSnapshot` | `CreateOnSnapshot` | `provisioning_race` |
| | `OneGrant` | `OneGrantAtWork` | `provisioning_race` |
| | `PhasesAdvance`, `CopiesImplemented` | `PhaseNeverBack`, `CopyLags` | - |
| `ShadowOutboxProofs` | `FailedAreOvertaken` | `OvertakesOnlyFailed` | `outbox_race` |
| | `QuietEndsCurrent` | `QuietShowsNewest` | `outbox_race` |
| | `LostIsNothing` | `NothingLost` | `outbox_race` |
| `OrdersProofs` | `GivenOnce` | `DeliveredOnce` | `orders_race` |
| | `ChargesWhatItShows` | `ChargedAsShown` | `orders_race` |
| | `PaidIsNotForgotten` | `PaidIsKept` | `orders_race` |
| `PanelsProofs` | `LastSyncHolds` | `LastSyncStands` | `panels_race` |
| | `PaidBoundsClients` | `PaidTimeOnly` | `panels_race` |
| `UpkeepProofs` | `VersionHolds` | `VersionIsTrue` | `upkeep_race` |
| | `SchemaHolds` | `SchemaIsWhole` | `upkeep_race` |
| | `NoDowngradeHolds` | `NoDowngrade` | `upkeep_race` |
| | `ChoicesHold` | `ChoicesStand` | `upkeep_race` |
| | `StopHolds` | `StopHeeded` | `upkeep_race` |

The arguments:

* **Checkout.** That a closed attempt gets no order depends on what is in memory
  and on the wire: the task that is about to record the proof must hold a proof
  of *this* operation (`ReadsTrue`, `TasksAimed`), the fence must exclude an
  order (`FenceHolds`), and a row that was cancelled must have left no request
  (`UnsentUntilClaimed`), which in turn needs that only the winner of the claim
  stands before the POST (`OneSender`, `SentOnce`). One purchase at a time
  follows from the journal's unique index (`OneUnresolved`) and the fact that a
  live operation is unresolved. The refinement maps `claim` to `Commit`, the
  server's admission to `Order`, `prove_rejected` to `Refuse`, `observe` of a
  final order to `Settle`; everything else leaves `life` and `ordered` alone.
* **Subscriptions.** An order is tagged before its request may leave
  (`OrdersTrue`), so that every restart finds it among the open orders, and a
  new order is only created where there is no open one (`OneOpen`, with
  `LoopTrue` for what the loop holds in between). The count of periods needs the
  finite set theorems: a finalizing step adds exactly one paid order. For
  `OneMoreAtMost` an unlinked card and a loop before its request mean that none
  has left since (`UnlinkTrue`), and a loop behind it starts no other charge.
* **Replacement.** The dispatch marker and the lease are one transaction, so of
  all the tasks that ever held an operation one at most stands between the
  marker and the request; every other finds the marker and only reads. The
  register of a task agrees with the row as long as its lease is valid, and no
  write of it passes otherwise. The refinement needs in addition that whatever a
  reader still holds was issued, and that the write is fenced by the version the
  row has *now*, not by the one that was read.
* **Provisioning.** The same for three writes in a row: a phase is entered once
  (`PhaseNeverBack`), each request leaves on entering its phase, and a create is
  only sent in a phase that lies behind a readback of the snapshot. The next
  grant is refused while the journal holds an unfinished one, and an operation
  is finished only when none of its requests may still grant.
* **Outbox.** The rows still in the outbox and the register of the worker stand
  in an order of versions: what the worker has in hand is the oldest row that is
  due, so an older row that it passes has failed; and when nothing failed
  and nobody else sends, SaaS processes the changes in their order: whatever is
  still under way is no older than what was processed, or is a repetition of it
  (`InOrder`). A snapshot is written only as the first of its payload, which is
  the least version that has it (`EventsTrue`, `FirstLanding`); so the one that
  SaaS shows is the newest of those. `NothingLost` follows from `EventsTrue`: a
  row leaves the outbox only behind an answer to the worker's own request, and a
  key that is deleted keeps the events of its changes.
* **Orders.** `complete_order` runs under the order's lock and refuses an order
  that is paid; so the handler that completes an order is alone with it (`Alone`)
  and has given and rewarded nothing before (`OrderTrue`, `TaskTrue`). A quote is
  consumed with its charge (`QuoteTrue`, `ScreenTrue`). `BillTrue` and
  `UpdatesTrue` say where a payment is on its way: in its message, in the hands
  of the one handler that took the message, or at the provider, where the order
  knows the bill.
* **Panels.** While a coroutine is inside the synchronisation of a key no other
  is (`OneInside`, from the lock), and whoever is there has taken the settlement
  back (`HandTrue`); what it listed, made or wrote is what the panel still shows,
  or a call failed (`KnownTrue`), because outside of the lock nobody makes a
  client at an address somebody knows: a replacement works on an address that
  no row, no settlement and no other coroutine has until its clients are made
  (`AddressTrue`), and all the others only delete. So a synchronisation without
  errors ends with `LastSyncStands`, and whatever comes before the next one
  keeps it. For `PaidTimeOnly` the terms read stay within what was paid
  (`RowTrue`, `HandTrue`), which only grows; whole days from now end less than a
  day behind the term they were rounded from (`OverByLessThanADay`), so a client
  that is made switched on ends less than a day behind what was paid, and one
  that is aligned not behind it at all. The proof lifts the bounds
  of `panels_race`: any number of keys, servers, inbounds and replacements, both
  APIs of a panel, failing calls, operations that come again and again.
* **Upkeep.** For every sequence of releases whose schemas do not go back, and
  every old database that has what its version number says. The statements of
  each migration are known one by one (`StepStatements`), and so is what each
  does to a database (`StatementEffect`); executing those of a version one after
  the other yields what the version has (`VersionBuilt`, `ButtonPlaced`), and
  nothing a later one does takes it back (`HasStays`, `ContentsGrow`). While a
  connection is open, `MigrationIsExact` says which version `work` has and which
  statements of the next one. A crash keeps only the DDL before the first row,
  and that DDL adds, so that the committed version stays true; the commit brings
  all of the versions at once. Branding goes page by page (`BrandingIsExact`) and
  the triggers come last, which makes `SchemaIsWhole`. `NoDowngrade` needs that
  each commit a handler holds or a conversation remembers is no older than the
  process (`NeverOlder`), and that a process that has just started remembers
  none (`MemoryIsLost`). `StopHeeded` needs that the promise on a screen is also
  in the settings (`PromiseIsKept`), where every loop looks before a message.

Only model-checked:

* liveness (`QueuedIsServed`, `FinishedIsClosed`, `PendingEnds`, `NobodyBlocks`,
  `SucceededIsCredited`, `PaidIsServed`, `ActiveIsServed`, `BannedIsOff`):
  fairness and `ENABLED` are outside of the prover's reach;
* the panel client and the desk (`OneIdentity`, `LoneCallDoes`, `ServerIsPlaced`,
  `StoredWhereOpened`, `SavedFromOneWizard`): their inductive invariants are not
  written. Those of the client would speak of every pair of calls and of what
  the panel answered to each; those of the desk of what each screen in a
  conversation was opened for.

No module declares a `RECURSIVE` operator.

## 7. Findings and known divergences

One finding has a run. `outbox_delete` / `DeletionAnnounced`
(`bot/services/access_shadow_outbox.py:111`): the schema script that the
enqueueing runs commits the pending `DELETE` by itself, so the deletion can be
committed without its tombstone, which
`docs/ACCESS_SHADOW_DURABLE_OUTBOX.md:14` excludes.

### Known divergences

Met while modelling, without a run. The models do what the code does.

* `access_replacement.py:104`: a queued replacement that was overtaken is closed
  as STALE only when the worker's own reading notices it. If a payment return
  has projected the newer version first, the worker meets
  `REPLACEMENT_BINDING_CHANGED`, which that line does not count as stale; the
  row stays `QUEUED` with `MANUAL_REVIEW` and the unique index refuses each later
  replacement. `tests/test_access_replacement_journal.py:316-321` expects an
  overtaken operation to be `CANCELLED`/`STALE`.
* `subscription_billing.py:90`, `:94`, `:103`: a renewal by hand is not told to
  the subscription, and each later outcome of a charge writes an end of access
  computed from the subscription alone; the comment at `:85` says that access is
  only extended or the grace removed.
* `db_subscriptions.py:395`: a charge that was under way when the user unlinked
  the card is finalized with the card of the payment or of the batch, and
  `cancel_at_period_end` is cleared: the subscription renews again, although the
  user was told (`keys.py:342`) that the card is unlinked and the renewal off.
  `Finalize` does the same; TLC refutes "an unlinked card stays unlinked" at the
  first charge.
* `billing.py:229`: the test for a duplicate (`:228`) asks about the order and not
  about the payment. Two Telegram invoices of the reused order of one page can
  both be paid, as `pre_checkout_handler` accepts everything
  (`payments/base.py:143`); for the second nothing is given, and the user reads
  that this payment was already processed. `ProcessOrder` does the same, with
  the two bills of `orders_race`.
* `billing.py:1367`: `balance_to_deduct` is read from the conversation. Left
  there by an earlier partial payment, it is taken for an order whose bill was
  over the whole price; the docstring at `:1343` speaks of a partial payment.
* `admin_provisioning.py:97` (database): a second confirmation form that was
  answered with the operation of the first is not bound to it, so that its
  replay makes a grant of its own when the first is done;
  `docs/admin-provisioning.md:4` calls the message the replay identity.
* `access_shadow_outbox.py:271`: a closed `WAVEMESH_ACCESS_SHADOW_SYNC_ENABLED`
  does not stop the worker that a deletion starts, against
  `docs/ACCESS_SHADOW_MUTATION_HOOKS.md`; the gate is open or closed in the
  initial states of `ShadowOutbox`.
* `access_shadow.py:204`: the idempotency key is a digest of the payload, so a
  change that restores an earlier payload sends the key of that payload again.
  In `ShadowOutbox` SaaS answers it as a replay and writes nothing, as an
  idempotency key is commonly read; `docs/` does not say what SaaS does.
* `system.py:302`: an update is confirmed without asking whether the bot is
  blocked; `update_block.py:4-5` says that ordinary updates are off then.
* `tariffs.py:515`: a tariff keeps the group that was chosen for it although
  that group was deleted meanwhile; nothing refers to it by a foreign key.
* `servers.py:92`, `vpn_api.py:60`: a row that was read before the settings of
  its server were edited puts a client with the old settings back into the
  cache; `servers.py:761` drops the cached client to avoid that.
* `keys.py:680`: a replacement is not held to the servers of its tariff's group,
  which `ADMIN_GUIDE.md:517` describes.

## 8. What is not modelled

* *Checkout*: screen references (inserted once, never updated), the comparison
  of tariff terms.
* *Replacement*: relinking of the SaaS account during the dashboard reading,
  readbacks that contradict an earlier command or request id: both end in
  `MANUAL_REVIEW` without a write.
* *Provisioning*: `NODE_SELECTION_REQUIRED`, which no screen can reach; the
  choice of plan and node; a second target user.
* *Payment return*: its tokens and screens, the first creation of a key row.
* *Outbox*: the user upsert before a snapshot as a payload of its own, the
  passing of time in `enabled`, several keys in a batch, an error of the
  database that ends the worker's task (nothing starts it again but a deletion or
  the next start), an API client that is not configured.
* *Subscriptions*: the first payment (it is in `Orders`), a tariff whose price is
  zero, a second subscription of the same key, panel and notifications after a
  charge (a crash there loses the traffic reset), helpers without a caller
  (`cancel_subscription_at_period_end`, `deactivate_subscription`).
* *Orders*: the panel behind a delivery, the trial, the formats and signatures
  of the providers, the statistics and settings of the referral system.
* *Panels*: the creation of a first key, the write guard of SaaS mode, the
  addresses inside a client, notifications and daily statistics.
* *Panel client*: `set_clients_enabled_by_email`, `update_client_traffic_limit`,
  `disable_reset_for_all_clients`, statistics, client configurations and
  subscription links, the database backup, `close`.
* *Upkeep and desk*: the message editor, the payment settings, lists of users.
  Git is the tree of a release.
* *The rest of the bot*: the SaaS screens (their only durable writes are the
  checkout, the replacement and the payment return above, and the managed trial,
  one idempotent POST), the live screen, the HTTP client, texts and keyboards,
  the installation. They hold no state that a property here depends on.

What SaaS, YooKassa, Telegram and the panels do is external: read from
`internal_api.py`, `xui.py`, the documents, the test fixtures and
`yookassa_recurring.py`, and kept as weak as the code allows.

## 9. Plan

The components of section 2 are modelled and checked; eight modules of proofs
stand, one per component except the panel client and the desk. Left, in order of
importance:

* `Desk`: `ServerIsPlaced`, from the groups alone, then `StoredWhereOpened`, from
  the screens.
* `Xui`: `OneIdentity`, over any number of coroutines.
* The operators of `Catalogue` and `OrderBook` as lemmas of their own, where the
  proofs above use them in passing.

## 10. How to run

```
tlc -workers 2 -config CheckoutRace.cfg MCCheckout
tlapm OrdersProofs.tla
```
`PROJECT.json` names the module and the configuration of every run. The longest
runs (`checkout_race`, `replacement_race`, `provisioning_race`, `panels_race`)
take one to three minutes. `OrdersProofs` and
`PanelsProofs`, the longest proofs, take about five minutes each from nothing,
`UpkeepProofs` about three.
