------------------------------- MODULE JobPool -------------------------------
(***************************************************************************)
(* What pstd::ThreadPool promises whoever submits to it and waits: a job   *)
(* is promised when it is counted, queued, executed once, and wait()       *)
(* returns only at a moment at which there is nothing left of what was     *)
(* promised, the jobs that jobs submit included.  ThreadPool is shown to   *)
(* implement it; Poller, which has a view of the pool of its own, to be    *)
(* no more than its use.                                                   *)
(***************************************************************************)
EXTENDS Naturals

VARIABLES promised,  \* jobs counted and not yet in a queue
          queued,    \* jobs in a queue
          busy,      \* threads that execute a job
          waiting    \* somebody is in wait()

poolVars == <<promised, queued, busy, waiting>>

PoolInit == promised = 0 /\ queued = 0 /\ busy = 0 /\ waiting = FALSE

\* A job or the client submits; the client does not while it waits.
Promise ==
    /\ busy > 0 \/ ~ waiting
    /\ promised' = promised + 1
    /\ UNCHANGED <<queued, busy, waiting>>

Push ==
    /\ promised > 0
    /\ promised' = promised - 1
    /\ queued' = queued + 1
    /\ UNCHANGED <<busy, waiting>>

Take ==
    /\ queued > 0
    /\ queued' = queued - 1
    /\ busy' = busy + 1
    /\ UNCHANGED <<promised, waiting>>

Finish ==
    /\ busy > 0
    /\ busy' = busy - 1
    /\ UNCHANGED <<promised, queued, waiting>>

Wait ==
    /\ ~ waiting
    /\ waiting' = TRUE
    /\ UNCHANGED <<promised, queued, busy>>

Return ==
    /\ waiting
    /\ promised = 0 /\ queued = 0 /\ busy = 0
    /\ waiting' = FALSE
    /\ UNCHANGED <<promised, queued, busy>>

PoolNext == Promise \/ Push \/ Take \/ Finish \/ Wait \/ Return

PoolSpec == PoolInit /\ [][PoolNext]_poolVars
=============================================================================
