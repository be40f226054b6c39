---------------------------- MODULE UpkeepProps ----------------------------
(***************************************************************************)
(* What the upkeep of an installation must keep true, whatever a crash     *)
(* interrupts and in whatever order its administrators act.                *)
(***************************************************************************)
EXTENDS Upkeep

\* The committed database has what its version number says at every moment a
\* crash may come: no migration is recorded before all of it is durable, so
\* none is skipped by the next start.  (run_migrations: DDL before the first
\* row of the connection is durable at once, the rest with the commit.)
VersionIsTrue ==
    disk.version >= INITIAL_VERSION => Has(disk, disk.version)

\* A process that serves users works on a database that is complete for its
\* release, with the triggers of the shadow outbox a migration has dropped,
\* every branded page and no two payment buttons in one row, from whatever
\* old database and after whatever interrupted starts.
\* (on_startup: migrations, branding, triggers; migrations 23, 24, 25.)
SchemaIsWhole ==
    Up =>
        /\ disk.version >= Releases[proc.release].schema
        /\ Triggers \subseteq disk.objects
        /\ \A i \in DOMAIN BrandedPages : BrandedPages[i] \in DOMAIN disk.pages
        /\ disk.version >= 25 => disk.rows = NewestRows

\* A start changes nothing an administrator has chosen: no setting that has a
\* value, the mode of the bot among them, and no text of his own, except one
\* that names the former brand; migration 22 alone removes a setting.
\* (INSERT OR IGNORE of the migrations, the UPDATEs of default texts,
\* _needs_replacement of the branding.)
ChoicesStand ==
    [][~Up => /\ \A key \in DOMAIN disk.settings \ {"crypto_integration_mode"} :
                    /\ key \in DOMAIN disk'.settings
                    /\ disk'.settings[key] = disk.settings[key]
              /\ \A key \in DOMAIN disk.pages :
                    disk.pages[key].custom = "edited" =>
                        disk'.pages[key].custom = "edited"]_vars

\* The process never runs a release older than its database, although a
\* blocking commit found earlier makes an update reset the tree to it.
\* (update_bot_confirmed takes the commit from conversation data, which a
\* restart forgets: MemoryStorage.)
NoDowngrade ==
    proc.at # "down" => disk.version <= Releases[proc.release].schema

\* Once an administrator has read that the broadcast stops before its next
\* message, no further message is begun by any loop that runs.
\* (request_broadcast_stop_or_reset tells a running loop from a flag left by
\* a crash.)
StopHeeded ==
    [][told => \A a \in Admins :
                  live'[a].at = "sending" => live[a].at = "sending"]_vars

----------------------------------------------------------------------------
(* The inductive invariant *)

CodeTypeOK ==
    /\ tree \in DOMAIN Releases
    /\ origin \in tree..Len(Releases)

ProcTypeOK ==
    /\ proc \in [at : {"down", "refusing", "migrating", "branding", "up"},
                 release : 0..Len(Releases), next : 0..(LATEST_VERSION + 1),
                 pos : Nat, txn : BOOLEAN, rules : 0..Len(Releases),
                 sending : BOOLEAN]
    /\ proc.at # "down" => proc.release \in DOMAIN Releases

MemoryTypeOK ==
    /\ chat \in [Admins -> 0..origin]
    /\ task \in [Admins ->
                    [at : {"idle", "checking", "pulling", "overwriting", "pulled",
                           "restarting"},
                     to : 0..origin]]
    /\ live \in [Admins -> [at : {"none", "checking", "sending", "ending"},
                            left : 0..Receivers]]
    /\ \A a \in Admins : live[a].at \in {"checking", "sending"} => live[a].left > 0

DiskTypeOK ==
    /\ IsDatabase(disk)
    /\ disk.version \in 0..LATEST_VERSION

TypeOK == CodeTypeOK /\ ProcTypeOK /\ MemoryTypeOK /\ DiskTypeOK

\* A process that does not serve yet remembers nothing.
MemoryIsLost ==
    ~Up => /\ chat = [a \in Admins |-> 0]
           /\ task = [a \in Admins |-> NoTask]
           /\ live = [a \in Admins |-> NoBroadcast]

\* What the next start may run, the working tree and whatever a handler is
\* about to reset it to, is not older than the process, nor than the database.
NeverOlder ==
    /\ disk.version <= Releases[tree].schema
    /\ proc.at # "down" =>
          /\ disk.version <= Schema
          /\ Schema <= Releases[tree].schema
          /\ \A a \in Admins :
                /\ chat[a] # 0 => Schema <= Releases[chat[a]].schema
                /\ task[a].to # 0 => Schema <= Releases[task[a].to].schema

\* A promise on the screen is in the settings, which survive what the screen
\* survives.
PromiseIsKept == told => is_broadcast_stop_requested

\* The layout fits the version of a database that can be migrated.
DiskIsSound ==
    IF TooOld(disk.version) THEN proc.at \in {"down", "refusing"}
    ELSE disk.rows \in RowsAt(disk.version)

\* The new database has what an administrator has chosen in the old one.
Kept(old, new) ==
    /\ \A key \in DOMAIN old.settings \ {"crypto_integration_mode"} :
          key \in DOMAIN new.settings /\ new.settings[key] = old.settings[key]
    /\ \A key \in DOMAIN old.pages :
          key \in DOMAIN new.pages /\ new.pages[key].custom = old.pages[key].custom

\* The database has what the statement makes.
Done(db, s) ==
    /\ s.do \in {"table", "create"} => s.names \subseteq db.objects
    /\ s.do = "set" => s.names \subseteq DOMAIN db.settings
    /\ s.do = "page" => s.names \subseteq DOMAIN db.pages

Executed == {i \in DOMAIN Step[proc.next] : i < proc.pos}

LaidOut == \E i \in Executed : Step[proc.next][i].do \in {"layout", "button"}

\* The open connection sees the versions below the one that is being built
\* and the statements of that one that have been executed; before the first
\* row is written it sees what is on the disk.
MigrationIsExact ==
    proc.at = "migrating" =>
        /\ IsDatabase(work)
        /\ proc.next \in INITIAL_VERSION..(Schema + 1)
        /\ proc.pos > 0
        /\ work.version = IF proc.next = INITIAL_VERSION THEN 0 ELSE proc.next - 1
        /\ ~proc.txn => work = disk
        /\ Kept(disk, work)
        /\ work.version > 0 => Has(work, work.version)
        /\ proc.next <= Schema =>
              /\ \A i \in Executed : Done(work, Step[proc.next][i])
              /\ work.rows \in RowsAt(IF LaidOut THEN proc.next ELSE work.version)
        /\ proc.next > Schema => work.rows \in RowsAt(work.version)

BrandingIsExact ==
    proc.at = "branding" =>
        /\ disk.version >= Schema
        /\ \A i \in DOMAIN BrandedPages :
              i < proc.pos => BrandedPages[i] \in DOMAIN disk.pages

IInv ==
    /\ TypeOK
    /\ MemoryIsLost
    /\ NeverOlder
    /\ PromiseIsKept
    /\ DiskIsSound
    /\ VersionIsTrue
    /\ MigrationIsExact
    /\ BrandingIsExact
    /\ SchemaIsWhole

=============================================================================
