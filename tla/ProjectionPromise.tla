-------------------------- MODULE ProjectionPromise --------------------------
(***************************************************************************)
(* What the bot's local key row promises about the SaaS access it shows    *)
(* (docs/access-replacement.md): it is a lagging copy.  It only ever holds *)
(* credentials that SaaS issued as ready, never goes back to an older set, *)
(* and is not written again once the key was removed.                      *)
(***************************************************************************)
EXTENDS Naturals

CONSTANT Versions

VARIABLES issued,   \* the desired versions that were ready at some time
          copy,     \* the version the key row holds, 0 before the first
          alive     \* the local key and its owner still exist

Init ==
    /\ issued \subseteq {1}
    /\ copy \in issued \cup {0}
    /\ alive = TRUE

Issue(v) ==
    /\ \A w \in issued : w < v
    /\ issued' = issued \cup {v}
    /\ UNCHANGED <<copy, alive>>

Copy(v) ==
    /\ alive
    /\ v \in issued /\ v >= copy
    /\ copy' = v
    /\ UNCHANGED <<issued, alive>>

Remove == alive' = FALSE /\ UNCHANGED <<issued, copy>>

Next == (\E v \in Versions \ {0} : Issue(v)) \/ (\E v \in issued : Copy(v)) \/ Remove

Spec == Init /\ [][Next]_<<issued, copy, alive>>
=============================================================================
