------------------------------ MODULE MCUpkeep ------------------------------
(***************************************************************************)
(* Upkeep for TLC.  Three releases: the first stops short of the newest    *)
(* migrations, the second is blocking, the third is the newest.  The       *)
(* databases are a fresh one, one that is too old, and those of the        *)
(* versions given.                                                         *)
(***************************************************************************)
EXTENDS UpkeepProps

CONSTANT Versions

MCReleases ==
    <<[mark |-> "plain", schema |-> 42], [mark |-> "blocking", schema |-> 44],
      [mark |-> "plain", schema |-> 47]>>

\* A database an older release has left at version v.  Its administrator has
\* chosen the settings; before version 28 there was no bot_mode to choose, and
\* only version 21 has what migration 22 removes.
OldDatabase(v) ==
    LET retired(name) == IF v = INITIAL_VERSION THEN {name} ELSE {}
    IN  [version |-> v,
         objects |-> Contents[v].objects \union retired("tariffs.external_id"),
         settings |-> [k \in Contents[v].settings
                                \union retired("crypto_integration_mode") |->
                          IF k = "bot_mode" THEN "key" ELSE "chosen"],
         pages |-> [k \in Contents[v].pages |->
                       [deflt |-> "shipped", custom |-> "none"]],
         rows |-> IF v < 23 THEN OldRows ELSE CHOOSE rows \in RowsAt(v) : TRUE]

MCDatabases ==
    {Empty, [Empty EXCEPT !.version = INITIAL_VERSION - 1]}
        \union {OldDatabase(v) : v \in Versions}
=============================================================================
