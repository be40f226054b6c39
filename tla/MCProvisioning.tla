---------------------------- MODULE MCProvisioning ----------------------------
(* A small instance of ProvisioningProps for TLC.                            *)
EXTENDS ProvisioningProps

CONSTANTS g1, g2

SmallTroubles ==
    { [ops |-> {g1, g2}, happen |-> {"fail"}, slips |-> 0],
      [ops |-> {g1}, happen |-> {}, slips |-> 1],
      [ops |-> {g1}, happen |-> {"return", "rotate", "remove"}, slips |-> 0],
      [ops |-> {g1}, happen |-> {"relink", "rescope", "outbox"}, slips |-> 0] }
=============================================================================
