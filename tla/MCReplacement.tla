---------------------------- MODULE MCReplacement ----------------------------
(* A small instance of ReplacementProps for TLC.                             *)
EXTENDS ReplacementProps

CONSTANTS r1, r2

\* Two operations and a payment return, or a crash, failed read or early end of a
\* lease; one operation through everything else.
SmallTroubles ==
    { [ops |-> {r1, r2}, happen |-> {"return"}, slips |-> 0],
      [ops |-> {r1, r2}, happen |-> {}, slips |-> 1],
      [ops |-> {r1}, happen |-> {"rotate", "return"}, slips |-> 0],
      [ops |-> {r1}, happen |-> {"remove", "rescope"}, slips |-> 0] }
=============================================================================
