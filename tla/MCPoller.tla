------------------------------ MODULE MCPoller ------------------------------
(***************************************************************************)
(* Instances of Poller for TLC.                                            *)
(***************************************************************************)
EXTENDS Poller, TLC

CONSTANTS r1, r2, r3, r4

\* r1 and r2 are made on the client's thread; r1's coroutine goes on to make
\* r3 from the worker, r2's ends.
MixedThen == (r1 :> r3) @@ (r2 :> None) @@ (r3 :> None)

\* Two coroutines of two requests each.
PairsThen == (r1 :> r3) @@ (r2 :> r4) @@ (r3 :> None) @@ (r4 :> None)
=============================================================================
