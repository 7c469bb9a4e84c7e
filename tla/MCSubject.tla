------------------------------ MODULE MCSubject ------------------------------
(***************************************************************************)
(* The modules of pure functions are checked over all small inputs: a      *)
(* state is one input, and an invariant says of it what a property of the  *)
(* module says of the input.                                               *)
(***************************************************************************)
EXTENDS Integers

VARIABLE subject    \* what is looked at, and the input it is looked at with

\* Nothing is looked at yet.  The inputs are looked at in turns, which TLC takes side by side.
Turns == 1 .. 4
Turn(n) == subject = [of |-> "nothing", turn |-> n]
==============================================================================
