---------------------------- MODULE MCThreadPool ----------------------------
(***************************************************************************)
(* Instances of ThreadPool for TLC.                                        *)
(***************************************************************************)
EXTENDS ThreadPool

CONSTANTS a, b, c, d, e

Nothing == [t \in Tasks |-> <<>>]

\* a precedes b and c, which both precede d.  The function of b submits e,
\* which is outside the order.  Submitted twice.
Diamond ==
    [successors |-> [Nothing EXCEPT ![a] = <<b, c>>, ![b] = <<d>>, ![c] = <<d>>],
     spawns |-> [Nothing EXCEPT ![b] = <<e>>],
     cancellable |-> {}, resettable |-> {}, rounds |-> 2]

\* a and b precede c, c precedes d, and d precedes e.  a may be cancelled, and e
\* reset.
TwoBeforeOne ==
    [successors |-> [Nothing EXCEPT ![a] = <<c>>, ![b] = <<c>>, ![c] = <<d>>, ![d] = <<e>>],
     spawns |-> Nothing,
     cancellable |-> {a}, resettable |-> {e}, rounds |-> 1]

\* What a run is about: one of both, or a root that is cancelled in a graph that
\* is submitted again.
RoundsOrCancel == {Diamond, TwoBeforeOne}

CancelAgain ==
    {[successors |-> [t \in Tasks |-> IF t \in {a, b} THEN <<c>> ELSE <<>>],
      spawns |-> Nothing,
      cancellable |-> {a}, resettable |-> {}, rounds |-> 2]}
=============================================================================
