----------------------------- MODULE MCCheckout -----------------------------
(* Small instances of CheckoutProps for TLC. *)
EXTENDS CheckoutProps, TLC

CONSTANTS c1, c2

\* Two handlers and two message buttons race to two purchases; two handlers of
\* one button do all there is to do while the account is relinked; and all is
\* done from both buttons, one handler after the other.
SmallRounds ==
    { [taps |-> Kinds \ {"reject"}, buttons |-> {c1, c2}, relink |-> FALSE, alone |-> FALSE],
      [taps |-> Kinds, buttons |-> {c1}, relink |-> TRUE, alone |-> FALSE],
      [taps |-> Kinds, buttons |-> {c2}, relink |-> TRUE, alone |-> FALSE],
      [taps |-> Kinds, buttons |-> {c1, c2}, relink |-> FALSE, alone |-> TRUE] }

\* Handlers are interchangeable, and so are buttons.  (Operations are not:
\* PromiseKept is checked on a state function of each.)
Symmetry == Permutations(Tasks) \cup Permutations(Callbacks)
=============================================================================
