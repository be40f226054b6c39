------------------------------- MODULE Upkeep -------------------------------
(***************************************************************************)
(* The life of the installation: the process starts, migrates and brands   *)
(* its database, runs, is updated from the git repository by its           *)
(* administrators, broadcasts, crashes and is started again (main.py,      *)
(* database/migrations.py, bot/services/branding.py,                       *)
(* bot/handlers/admin/system.py and broadcast.py, bot/utils/git_utils.py   *)
(* and update_block.py).                                                   *)
(*                                                                         *)
(* A release is a commit: its mark (a "!" makes it blocking, a "?" beta)   *)
(* and the newest migration it ships.  "tree" is the commit the working    *)
(* tree is at, "origin" the newest one published, "proc.release" the code  *)
(* the process runs: they differ between a pull and the restart.           *)
(*                                                                         *)
(* Everything in memory (the conversation data of an administrator, his    *)
(* running handlers, the flag of a running broadcast) is lost with the     *)
(* process; the messages on his screen, with their buttons, are not.       *)
(***************************************************************************)
EXTENDS Migrations

CONSTANTS
    Admins,        \* the administrators
    Receivers,     \* how many users a broadcast is sent to
    Releases,      \* the commits of the repository, oldest first
    OldDatabases,  \* what the database may be when the first release starts
    Duties         \* what administrators may be about in one behaviour: a bound

ASSUME UpkeepAssumption ==
    /\ Receivers \in Nat \ {0}
    /\ Releases \in Seq([mark : {"plain", "beta", "blocking"},
                         schema : INITIAL_VERSION..LATEST_VERSION])
    /\ Len(Releases) > 0
    /\ \A r \in DOMAIN Releases :
          \A q \in 1..r : Releases[q].schema <= Releases[r].schema
    /\ \A db \in OldDatabases :
          \/ db = Empty
          \/ IsDatabase(db) /\ TooOld(db.version)
          \/ IsOldDatabase(db) /\ db.version <= Releases[1].schema

VARIABLES
    disk,     \* the database as committed
    work,     \* the database as the open connection of the migrations sees it
    proc,     \* the process
    tree,     \* the commit of the working tree
    origin,   \* the newest published commit
    chat,     \* per administrator: the blocking commit in his conversation data
    task,     \* per administrator: the update handler he has running
    offers,   \* per administrator: a button that confirms an update is on screen
    told,     \* the screen promises that the broadcast stops before its next message
    live,     \* per administrator: the broadcast loop he has started
    demanded, \* what the blocking release asks for has been done
    duty      \* what the administrators are about in this behaviour

vars == <<disk, work, proc, tree, origin, chat, task, offers, told, live, demanded, duty>>

codeVars == <<tree, origin, demanded, duty>>
memory == <<chat, task, live>>
screens == <<offers, told>>

\* The pages PAGE_DEFAULTS brands, those onboarding.py adds to it as one.
BrandedPages == <<"main", "help", "download_clients", "documents",
                  "prepayment", "trial", "onboarding_start">>

Triggers == {"trg_access_shadow_outbox_vpn_keys_insert",
             "trg_access_shadow_outbox_vpn_keys_update"}

\* "next" is the version that is being built, "pos" the statement or, when
\* branding, the page that is next.
Down == [at |-> "down", release |-> 0, next |-> 0, pos |-> 0, txn |-> FALSE,
         rules |-> 0, sending |-> FALSE]
NoTask == [at |-> "idle", to |-> 0]
NoBroadcast == [at |-> "none", left |-> 0]

Up == proc.at = "up"
About(concern) == Up /\ concern \in duty

Init ==
    /\ disk \in OldDatabases
    /\ work = Empty
    /\ proc = Down
    /\ tree = 1
    /\ origin \in DOMAIN Releases
    /\ chat = [a \in Admins |-> 0]
    /\ task = [a \in Admins |-> NoTask]
    /\ offers = [a \in Admins |-> FALSE]
    /\ told = FALSE
    /\ live = [a \in Admins |-> NoBroadcast]
    /\ demanded = FALSE
    /\ duty \in Duties

----------------------------------------------------------------------------
(* Startup *)

\* systemd starts whatever the working tree holds.  On a database that is
\* too old run_migrations raises, which ends the process like a crash.
Start ==
    /\ proc.at = "down"
    /\ proc' = [Down EXCEPT !.at = IF TooOld(disk.version) THEN "refusing"
                                                          ELSE "migrating",
                            !.release = tree,
                            !.next = run_migrations(disk.version), !.pos = 1]
    /\ work' = disk
    /\ UNCHANGED <<disk, codeVars, memory, screens>>

Schema == Releases[proc.release].schema

Building ==
    /\ proc.at = "migrating"
    /\ proc.next <= Schema

\* The first statement that is not DDL opens the transaction.
ExecuteStatement ==
    /\ Building
    /\ proc.pos <= Len(Step[proc.next])
    /\ LET s == Step[proc.next][proc.pos]
           txn == proc.txn \/ ~IsDDL(s)
       IN  /\ work' = Apply(work, s)
           /\ disk' = IF txn THEN disk ELSE work'
           /\ proc' = [proc EXCEPT !.pos = @ + 1, !.txn = txn]
    /\ UNCHANGED <<codeVars, memory, screens>>

RecordVersion ==
    /\ Building
    /\ proc.pos > Len(Step[proc.next])
    /\ work' = set_version(work, proc.next)
    /\ proc' = [proc EXCEPT !.next = @ + 1, !.pos = 1, !.txn = TRUE]
    /\ UNCHANGED <<disk, codeVars, memory, screens>>

CommitMigrations ==
    /\ proc.at = "migrating"
    /\ proc.next > Schema
    /\ disk' = work
    /\ work' = Empty
    /\ proc' = [proc EXCEPT !.at = "branding", !.next = 0, !.pos = 1, !.txn = FALSE]
    /\ UNCHANGED <<codeVars, memory, screens>>

_needs_replacement(custom) == custom \in {"none", "marked"}

\* Mistake: the brand's text replaces whatever the administrator wrote.
ReplaceAlways(pages, key) ==
    With(pages, key, [deflt |-> "wave", custom |-> "wave"])

(* Each page in a transaction of its own.  The custom text is filled too, *)
(* on the first start and when it carries a mark of the former brand.     *)
_update_page(pages, key) ==
    LET custom == IF key \in DOMAIN pages THEN pages[key].custom ELSE "none"
        next == IF _needs_replacement(custom) THEN "wave" ELSE custom
    IN  With(pages, key, [deflt |-> "wave", custom |-> next])

apply_wavemesh_branding_defaults ==
    /\ proc.at = "branding"
    /\ proc.pos <= Len(BrandedPages)
    /\ disk' = [disk EXCEPT !.pages = _update_page(@, BrandedPages[proc.pos])]
    /\ proc' = [proc EXCEPT !.pos = @ + 1]
    /\ UNCHANGED <<work, codeVars, memory, screens>>

ensure_access_shadow_outbox_triggers ==
    /\ proc.at = "branding"
    /\ proc.pos > Len(BrandedPages)
    /\ disk' = [disk EXCEPT !.objects = @ \union Triggers]
    /\ proc' = [proc EXCEPT !.at = "up", !.pos = 0]
    /\ UNCHANGED <<work, codeVars, memory, screens>>

\* Mistake: the conversation data is kept in the database.
KeepMemory ==
    /\ proc' = Down
    /\ work' = Empty
    /\ chat' = chat
    /\ task' = [a \in Admins |-> NoTask]
    /\ live' = [a \in Admins |-> NoBroadcast]

\* A crash, the stop button (systemd starts the process again), the end of
\* restart_bot: an open transaction is rolled back, the memory is gone.
LoseMemory ==
    /\ proc' = Down
    /\ work' = Empty
    /\ chat' = [a \in Admins |-> 0]
    /\ task' = [a \in Admins |-> NoTask]
    /\ live' = [a \in Admins |-> NoBroadcast]

Crash ==
    /\ proc.at # "down"
    /\ LoseMemory
    /\ UNCHANGED <<disk, codeVars, screens>>

admin_stop_bot_confirm ==
    /\ About("updates")
    /\ LoseMemory
    /\ UNCHANGED <<disk, codeVars, screens>>

----------------------------------------------------------------------------
(* Settings and texts *)

admin_set_bot_mode(mode) ==
    /\ About("settings")
    /\ disk' = [disk EXCEPT !.settings["bot_mode"] = mode]
    /\ UNCHANGED <<work, proc, codeVars, memory, screens>>

\* An administrator's own text, or one that still names the former brand.
update_page_custom(key, text) ==
    /\ About("settings")
    /\ disk' = [disk EXCEPT !.pages[key].custom = text]
    /\ UNCHANGED <<work, proc, codeVars, memory, screens>>

----------------------------------------------------------------------------
(* The block of updates *)

is_update_blocked == disk.settings["update_blocked"] = "1"

\* bot.blocking_update is imported when first needed, from the tree as it is
\* then, and stays loaded; only a blocking release defines the conditions.
Rules == IF proc.rules = 0 THEN tree ELSE proc.rules
Unblocks == is_update_blocked /\ Releases[Rules].mark = "blocking" /\ demanded

(* Clears the flag when the loaded release says so. *)
try_unblock ==
    /\ proc' = [proc EXCEPT !.rules = IF is_update_blocked THEN Rules ELSE @]
    /\ disk' = IF Unblocks
               THEN [disk EXCEPT !.settings["update_blocked"] = "0"] ELSE disk

\* The administrator does what the release asks for.
Comply ==
    /\ About("updates")
    /\ ~demanded
    /\ demanded' = TRUE
    /\ UNCHANGED <<disk, work, proc, tree, origin, duty, memory, screens>>

\* The daily check; the notification leads to show_update_confirm.
check_and_notify_updates ==
    /\ About("updates")
    /\ try_unblock
    /\ UNCHANGED <<work, codeVars, memory, screens>>

----------------------------------------------------------------------------
(* Updates *)

Publish ==
    /\ "updates" \in duty
    /\ origin < Len(Releases)
    /\ origin' = origin + 1
    /\ UNCHANGED <<disk, work, proc, tree, demanded, duty, memory, screens>>

get_pending_commits_list == {r \in DOMAIN Releases : tree < r /\ r <= origin}

\* 0: none is blocking.
find_first_blocking_commit(commits) ==
    LET blocking == {r \in commits : Releases[r].mark = "blocking"}
    IN  IF blocking = {} THEN 0
        ELSE CHOOSE r \in blocking : \A other \in blocking : r <= other

\* The check is made after the screen has been edited.
show_update_confirm(a) ==
    /\ About("updates")
    /\ task[a].at = "idle"
    /\ try_unblock
    /\ IF is_update_blocked /\ ~Unblocks
       THEN /\ offers' = [offers EXCEPT ![a] = FALSE]
            /\ UNCHANGED task
       ELSE /\ task' = [task EXCEPT ![a].at = "checking"]
            /\ UNCHANGED offers
    /\ UNCHANGED <<work, codeVars, chat, live, told>>

(* What the check found is kept in the conversation data. *)
check_for_updates(a) ==
    /\ Up
    /\ task[a].at = "checking"
    /\ task' = [task EXCEPT ![a] = NoTask]
    /\ \/ /\ chat' = [chat EXCEPT ![a] =
                        find_first_blocking_commit(get_pending_commits_list)]
          /\ offers' = [offers EXCEPT ![a] = get_pending_commits_list # {}]
       \/ /\ offers' = [offers EXCEPT ![a] = FALSE]       \* the fetch failed
          /\ UNCHANGED chat
    /\ UNCHANGED <<disk, work, proc, codeVars, live, told>>

\* The conversation data is read before the screen is edited, the pull comes
\* after; whether updates are blocked is not asked again.
update_bot_confirmed(a) ==
    /\ Up
    /\ offers[a]
    /\ task[a].at = "idle"
    /\ task' = [task EXCEPT ![a] = [at |-> "pulling", to |-> chat[a]]]
    /\ offers' = [offers EXCEPT ![a] = FALSE]
    /\ UNCHANGED <<disk, work, proc, codeVars, chat, live, told>>

\* /update and the forced overwrite take the newest commit.
admin_update_cmd(a) ==
    /\ About("updates")
    /\ task[a].at = "idle"
    /\ task' = [task EXCEPT ![a] = [at |-> "overwriting", to |-> 0]]
    /\ UNCHANGED <<disk, work, proc, codeVars, chat, offers, told, live>>

force_overwrite_confirmed(a) ==
    /\ About("updates")
    /\ task[a].at = "idle"
    /\ task' = [task EXCEPT ![a] = [at |-> "overwriting", to |-> 0]]
    /\ offers' = [offers EXCEPT ![a] = FALSE]
    /\ UNCHANGED <<disk, work, proc, codeVars, chat, live, told>>

\* git reset --hard to the blocking commit, then the flag.
pull_to_commit(a) ==
    /\ Up
    /\ task[a].at = "pulling"
    /\ task[a].to # 0
    /\ tree' = task[a].to
    /\ disk' = [disk EXCEPT !.settings["update_blocked"] = "1"]
    /\ task' = [task EXCEPT ![a] = [at |-> "pulled", to |-> 0]]
    /\ UNCHANGED <<work, proc, origin, demanded, duty, chat, offers, told, live>>

CrashAfterReset(a) ==
    /\ Up
    /\ task[a].at = "pulling"
    /\ task[a].to # 0
    /\ tree' = task[a].to
    /\ LoseMemory
    /\ UNCHANGED <<disk, origin, demanded, duty, screens>>

\* git pull --ff-only, for which the newest commit is never behind.
pull_updates(a) ==
    /\ Up
    /\ task[a].at \in {"pulling", "overwriting"}
    /\ task[a].to = 0
    /\ tree' = origin
    /\ task' = [task EXCEPT ![a].at = "pulled"]
    /\ UNCHANGED <<disk, work, proc, origin, demanded, duty, chat, offers, told, live>>

\* Local changes, no network, or git reset fails: nothing has happened.
PullFails(a) ==
    /\ Up
    /\ task[a].at \in {"pulling", "overwriting"}
    /\ task' = [task EXCEPT ![a] = NoTask]
    /\ UNCHANGED <<disk, work, proc, codeVars, chat, offers, told, live>>

\* The success is shown, the conversation data cleared.
UpdateShown(a) ==
    /\ Up
    /\ task[a].at = "pulled"
    /\ task' = [task EXCEPT ![a].at = "restarting"]
    /\ chat' = [chat EXCEPT ![a] = 0]
    /\ UNCHANGED <<disk, work, proc, codeVars, offers, told, live>>

\* Two seconds later.  A failed installation leaves the process running and
\* the new tree in place.
install_requirements_fails(a) ==
    /\ Up
    /\ task[a].at = "restarting"
    /\ task' = [task EXCEPT ![a] = NoTask]
    /\ UNCHANGED <<disk, work, proc, codeVars, chat, offers, told, live>>

restart_bot(a) ==
    /\ Up
    /\ task[a].at = "restarting"
    /\ LoseMemory
    /\ UNCHANGED <<disk, codeVars, screens>>

----------------------------------------------------------------------------
(* Broadcasts: the flag in the settings survives a crash, the flag of the  *)
(* running loop does not.                                                  *)

Flag(key) == key \in DOMAIN disk.settings /\ disk.settings[key] = "1"
is_broadcast_in_progress == Flag("broadcast_in_progress")
is_broadcast_stop_requested == Flag("broadcast_stop_requested")

Flags(inProgress, stop) ==
    [disk EXCEPT !.settings = With(With(@, "broadcast_in_progress", inProgress),
                                   "broadcast_stop_requested", stop)]

\* try_mark_broadcast_started takes no step of its own: its lock is free
\* whenever another handler runs.
broadcast_confirm(a) ==
    /\ About("broadcasts")
    /\ ~is_broadcast_in_progress
    /\ ~proc.sending
    /\ proc' = [proc EXCEPT !.sending = TRUE]
    /\ disk' = Flags("1", "0")
    /\ live' = [live EXCEPT ![a] = [at |-> "checking", left |-> Receivers]]
    /\ told' = FALSE
    /\ UNCHANGED <<work, codeVars, chat, task, offers>>

\* Before each message the loop asks whether it has been stopped.
SendNext(a) ==
    /\ live[a].at = "checking"
    /\ live' = [live EXCEPT ![a].at =
                   IF is_broadcast_stop_requested THEN "ending" ELSE "sending"]
    /\ UNCHANGED <<disk, work, proc, codeVars, chat, task, screens>>

\* Delivered or refused, the receiver is done with.
Sent(a) ==
    /\ live[a].at = "sending"
    /\ live' = [live EXCEPT ![a] =
                  [at |-> IF live[a].left = 1 \/ is_broadcast_stop_requested
                          THEN "ending" ELSE "checking",
                   left |-> live[a].left - 1]]
    /\ UNCHANGED <<disk, work, proc, codeVars, chat, task, screens>>

\* The progress report may fail: the loop ends like one that is done.
ReportFails(a) ==
    /\ live[a].at = "checking"
    /\ live' = [live EXCEPT ![a].at = "ending"]
    /\ UNCHANGED <<disk, work, proc, codeVars, chat, task, screens>>

finish_broadcast_state(a) ==
    /\ live[a].at = "ending"
    /\ live' = [live EXCEPT ![a] = NoBroadcast]
    /\ proc' = [proc EXCEPT !.sending = FALSE]
    /\ disk' = Flags("0", "0")
    /\ told' = FALSE
    /\ UNCHANGED <<work, codeVars, chat, task, offers>>

\* Mistake: any running broadcast is taken for one a crash has left.
ResetAlways ==
    /\ Up
    /\ is_broadcast_in_progress \/ is_broadcast_stop_requested
    /\ disk' = Flags("0", "0")
    /\ told' = proc.sending
    /\ UNCHANGED <<work, proc, codeVars, memory, offers>>

request_broadcast_stop_or_reset ==
    /\ About("broadcasts")
    /\ \/ /\ proc.sending
          /\ disk' = Flags("1", "1")
       \/ /\ ~proc.sending
          /\ is_broadcast_in_progress \/ is_broadcast_stop_requested
          /\ disk' = Flags("0", "0")
    /\ told' = proc.sending
    /\ UNCHANGED <<work, proc, codeVars, memory, offers>>

----------------------------------------------------------------------------

Starting ==
    \/ Start \/ ExecuteStatement \/ RecordVersion \/ CommitMigrations
    \/ apply_wavemesh_branding_defaults \/ ensure_access_shadow_outbox_triggers
    \/ Crash

Configuring ==
    \/ \E mode \in {"subscription", "key"} : admin_set_bot_mode(mode)
    \/ \E key \in {"main", "referral"}, text \in {"edited", "marked"} :
          update_page_custom(key, text)

Updating ==
    \/ Publish \/ Comply \/ check_and_notify_updates \/ admin_stop_bot_confirm
    \/ \E a \in Admins :
          \/ show_update_confirm(a) \/ check_for_updates(a)
          \/ update_bot_confirmed(a) \/ admin_update_cmd(a)
          \/ force_overwrite_confirmed(a) \/ pull_to_commit(a)
          \/ CrashAfterReset(a) \/ pull_updates(a) \/ PullFails(a) \/ UpdateShown(a)
          \/ install_requirements_fails(a) \/ restart_bot(a)

Broadcasting ==
    \/ request_broadcast_stop_or_reset
    \/ \E a \in Admins :
          \/ broadcast_confirm(a) \/ SendNext(a) \/ Sent(a) \/ ReportFails(a)
          \/ finish_broadcast_state(a)

Next == Starting \/ Configuring \/ Updating \/ Broadcasting

Spec == Init /\ [][Next]_vars
=============================================================================
