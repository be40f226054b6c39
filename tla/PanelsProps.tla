----------------------------- MODULE PanelsProps -----------------------------
(* What the synchronisation of keys with the panels promises, and the         *)
(* fairness of the loops that keep it.                                        *)
EXTENDS Panels, TLC

Places == Inside \cup {"rest", "lock", "next", "poll", "write", "warn", "cycle", "compare", "confirm",
                      "make", "unmake", "forget", "delete", "erase", "sweep", "missing"}
OrNone(S) == S \cup {None}
Presences == [Inbounds -> OrNone(Client)]
Traffics == [Keys -> OrNone(0 .. Limit)]
Kinds == {"plain", "reset"}
Task == [at : Places, key : OrNone(Keys), row : OrNone(Row \cup Servers), ban : BOOLEAN,
         here : OrNone(Presences), by : OrNone(Modes), aim : OrNone(Client), expiry : Moments,
         left : SUBSET Inbounds, fresh : SUBSET Inbounds, reset : BOOLEAN, bad : BOOLEAN,
         queue : SUBSET Keys, kind : Kinds, then : {"rest", "cycle", "unmake"},
         old : OrNone(Row), seen : SUBSET Emails, snap : OrNone([Keys -> OrNone(Row)]),
         got : OrNone(Traffics)]
Settlement == [server : Servers, email : Emails, on : BOOLEAN, until : Moments]

PanelsTypeOK ==
    /\ rows \in [Keys -> OrNone(Row)]
    /\ banned \subseteq Keys /\ now \in 0 .. MaxTime /\ mode \in Modes
    /\ panel \in [Servers -> [Inbounds -> [Emails -> OrNone(Client)]]]
    /\ meter \in [Servers -> [Emails -> 0 .. Limit]]
    /\ tasks \in [Tasks -> Task]
    /\ remembered \subseteq Keys /\ ops \subseteq Ops /\ slips \in 0 .. MaxSlips
    /\ settled \in [Keys -> OrNone(Settlement)]
    /\ paid \in [Keys -> 0 .. MaxTime] /\ given \in [Emails -> {"never", "in term", "late"}]

(* What a complete synchronisation wrote stands until the next one starts:    *)
(* no synchronisation that read the key earlier writes over it, whichever     *)
(* loops and screens run in between (the lock of vpn_api.py:774).             *)
LastSyncStands ==
    \A k \in Keys : settled[k] # None =>
        \A i \in Inbounds : LET c == panel[settled[k].server][i][settled[k].email]
                           IN  c # None => c = [on |-> settled[k].on, until |-> settled[k].until]

(* No client is on for a day longer than its key was ever paid for, whatever  *)
(* calls fail on the way, and where the last synchronisation of the key was   *)
(* complete, no client is on for longer at all.  A client is made for whole   *)
(* days (vpn_api.py:310) and aligned after; for a key out of its term it gets *)
(* a day that was not paid, but is made switched off (vpn_api.py:884).  A     *)
(* replacement that is confirmed after the term is the exception.             *)
InSync(s, e) == LET last == settled[e[1]]
                IN  last # None /\ last.server = s /\ last.email = e
PaidTimeOnly ==
    \A s \in Servers, i \in Inbounds, e \in Emails :
        LET c == panel[s][i][e]
        IN  c # None /\ c.on /\ given[e] # "late" =>
                /\ c.until < paid[e[1]] + Day
                /\ InSync(s, e) => c.until <= paid[e[1]]

----------------------------------------------------------------------------
(* The inductive invariant.                                                   *)

(* A row is at an address of its key and within a term that was paid.         *)
RowTrue(k) == rows[k] # None => rows[k].email[1] = k /\ rows[k].until <= paid[k]

(* What a coroutine has read of a key it holds as it was, and it wants no     *)
(* more for the key than was paid.                                            *)
Aiming == {"fill", "trim", "reset", "set"}
Writing == {"drop"} \cup Aiming
HandTrue(task) ==
    /\ task.at \in Inside \cup {"lock", "confirm", "make"} => task.key \in Keys
    /\ task.at \in Inside \cup {"make"} => task.row \in Row /\ task.row.email[1] = task.key
    /\ task.at \in Inside => task.row.until <= paid[task.key]
    /\ task.at \in Writing => /\ task.by \in Modes /\ task.here \in Presences
                              /\ settled[task.key] = None
    /\ task.at \in Aiming => task.aim \in Client /\ task.aim.until = task.row.until
    /\ task.at = "fill" => /\ task.aim.on => task.expiry < paid[task.key] + Day
                           /\ \A i \in task.left : task.here[i] = None
    /\ task.at = "trim" /\ ~task.bad => \E m \in Inbounds \ task.left : At(task.here) = task.left \cup {m}
    /\ task.at \in {"reset", "set"} /\ Shared => \E m \in Inbounds : task.left \subseteq {m}
    /\ task.at = "make" => given[task.row.email] = "late" \/ task.expiry < paid[task.key] + Day
    /\ task.at = "poll" => task.snap \in [Keys -> OrNone(Row)]
    /\ task.at = "write" => task.got \in Traffics

(* Unless a call failed, the clients a synchronisation works on are those it  *)
(* knows: listed, made or written by itself.  Others only delete clients.     *)
Found(task, i) == panel[task.row.server][i][task.row.email]
KnownTrue(task) ==
    ~task.bad => \A i \in Inbounds :
        /\ task.at = "drop" /\ Found(task, i) # None =>
              Found(task, i) = task.here[i] /\ i \in Visible(task.by) \cup task.left
        /\ task.at \in {"fill", "trim"} /\ Found(task, i) # None => Found(task, i) = task.here[i]
        /\ task.at \in {"reset", "set"} /\ Found(task, i) # None =>
              \/ Found(task, i) = task.aim \/ i \in task.left \/ (Shared /\ task.left # {})

(* The lock of a key is held by one coroutine.                                *)
OneInside == \A t, u \in Tasks : (/\ tasks[t].at \in Inside /\ tasks[u].at \in Inside
                                  /\ tasks[t].key = tasks[u].key) => t = u

(* The clients of a new address are made before anybody else knows it.        *)
Given(e) == e \in Emails /\ given[e] # "never"
Known(task) == task.at \in Inside \cup {"make"}
AddressTrue ==
    /\ \A k \in Keys : /\ rows[k] # None => Given(rows[k].email)
                       /\ settled[k] # None => Given(settled[k].email)
    /\ \A t \in Tasks : Known(tasks[t]) => Given(tasks[t].row.email)
    /\ \A t \in Tasks : tasks[t].at = "make" =>
          /\ \A k \in Keys : /\ rows[k] # None => rows[k].email # tasks[t].row.email
                             /\ settled[k] # None => settled[k].email # tasks[t].row.email
          /\ \A u \in Tasks \ {t} : Known(tasks[u]) => tasks[u].row.email # tasks[t].row.email
SettledTrue == \A k \in Keys : settled[k] # None =>
                    settled[k].email[1] = k /\ settled[k].until <= paid[k]
OverByLessThanADay ==
    \A s \in Servers, i \in Inbounds, e \in Emails :
        LET c == panel[s][i][e]
        IN  c # None /\ c.on /\ given[e] # "late" => c.until < paid[e[1]] + Day

IInv ==
    /\ PanelsTypeOK
    /\ \A k \in Keys : RowTrue(k)
    /\ \A t \in Tasks : HandTrue(tasks[t]) /\ KnownTrue(tasks[t])
    /\ OneInside /\ AddressTrue /\ SettledTrue
    /\ LastSyncStands /\ OverByLessThanADay

----------------------------------------------------------------------------
(* A loop always comes round again, and a coroutine goes on when what it      *)
(* waits for is there; the lock of a key is handed out in turn, and every     *)
(* sixth cycle is one that materialises.  Screens are not fair before they    *)
(* are tapped.  Calls fail MaxSlips times.                                    *)
Goes(t) == ensure_subscription_keys_on_server(t) \/ GoOn(t)
FairSpec ==
    /\ Spec
    /\ \A t \in Tasks : SF_vars(ReadKey(t)) /\ WF_vars(Goes(t))
    /\ Traffic \in Loops => /\ SF_vars(materialize_subscription_state(Traffic))
                           /\ WF_vars(run_traffic_sync_scheduler)
    /\ Daily \in Loops => WF_vars(ComparePanel(Daily))
    /\ Expired \in Loops => WF_vars(reconcile_expired_subscription_keys(Expired))
    /\ \A t \in Screens : WF_vars(ScreenGoesOn(t))

Served(k) == \A i \in (IF mode = "subscription" THEN Public ELSE {rows[k].main}) :
    LET c == panel[rows[k].server][i][rows[k].email] IN c # None /\ c.on

(* A key that stays in term, with traffic left on its panel and a user who is *)
(* not banned ends up with its clients on, after any stale answer written     *)
(* back (scheduler.py:926), any cleaning and any call that failed.            *)
ActiveIsServed ==
    \A k \in Keys :
        []<>(\/ rows[k] = None \/ ~InTerm(rows[k]) \/ k \in banned
             \/ meter[rows[k].server][rows[k].email] >= Limit
             \/ Served(k))

(* The key of a user who stays banned ends up with its clients off.           *)
BannedIsOff ==
    \A k \in Keys :
        []<>(\/ rows[k] = None \/ k \notin banned \/ ~InTerm(rows[k])
             \/ \A i \in Inbounds : LET c == panel[rows[k].server][i][rows[k].email]
                                   IN  c # None => ~c.on)

----------------------------------------------------------------------------
(* For TLC: screens are interchangeable, and no property names one.           *)
ScreenSymmetry == Permutations(Screens)
=============================================================================
