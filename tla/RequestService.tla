--------------------------- MODULE RequestService ---------------------------
(***************************************************************************)
(* What the HTTP client promises a coroutine that co_awaits                *)
(* Poller::requestAsync: as long as nothing fails, every request that is   *)
(* issued is answered exactly once, and the client closes (~Poller returns *)
(* from wait()) only when no request is outstanding.  After a failure      *)
(* requests may stay unanswered, but none is ever answered twice, and none *)
(* is answered after the client was closed.                                *)
(***************************************************************************)
CONSTANT Requests

VARIABLES phase,   \* what each request's coroutine has seen
          open,    \* the client has not left its destructor's wait()
          faulty   \* a libcurl call failed, or a request was not taken

serviceVars == <<phase, open, faulty>>

ServiceInit ==
    /\ phase = [r \in Requests |-> "idle"]
    /\ open = TRUE
    /\ faulty = FALSE

\* A coroutine suspends on a request; the request itself may be refused.
Issue(r) ==
    /\ open
    /\ phase[r] = "idle"
    /\ phase' = [phase EXCEPT ![r] = "issued"]
    /\ faulty' \in {faulty, TRUE}
    /\ UNCHANGED open

\* The coroutine of r is resumed with its Result.
Answer(r) ==
    /\ open
    /\ phase[r] = "issued"
    /\ phase' = [phase EXCEPT ![r] = "answered"]
    /\ UNCHANGED <<open, faulty>>

Fail ==
    /\ faulty' = TRUE
    /\ UNCHANGED <<phase, open>>

Close ==
    /\ open
    /\ faulty \/ \A r \in Requests : phase[r] # "issued"
    /\ open' = FALSE
    /\ UNCHANGED <<phase, faulty>>

ServiceNext ==
    \/ \E r \in Requests : Issue(r) \/ Answer(r)
    \/ Fail
    \/ Close

ServiceSpec == ServiceInit /\ [][ServiceNext]_serviceVars
=============================================================================
