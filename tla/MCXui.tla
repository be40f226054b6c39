-------------------------------- MODULE MCXui --------------------------------
(* Small instances of XuiProps for TLC. *)
EXTENDS XuiProps, TLC

Coroutines == Permutations(Tasks)

\* One coroutine with every call for one inbound, one with the calls that tell
\* the inbounds of a client apart, and two that add the same client.
EachAlone == {{t} \X Ops \X {1} : t \in Tasks}
Spread == {{t} \X ops \X Inbounds : t \in Tasks, ops \in {{"add", "delete"}, {"purge"}}}
Together == {Tasks \X {"add"} \X {1}}
AllCrews == EachAlone \cup Spread \cup Together
=============================================================================
