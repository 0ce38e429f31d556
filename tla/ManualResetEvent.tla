-------------------------- MODULE ManualResetEvent --------------------------
(***************************************************************************)
(* What poller::ResetEvent promises: a coroutine that awaits an event that *)
(* is not set waits until somebody sets it; setting it releases everybody  *)
(* who waits, once.                                                        *)
(***************************************************************************)
CONSTANT Coroutines

VARIABLES isSet,
          waiting,    \* suspended until the event is set
          released    \* to be resumed by the set() that released them

eventVars == <<isSet, waiting, released>>

EventInit == isSet \in BOOLEAN /\ waiting = {} /\ released = {}

Wait(c) ==
    /\ ~ isSet
    /\ c \notin waiting \cup released
    /\ waiting' = waiting \cup {c}
    /\ UNCHANGED <<isSet, released>>

Signal ==
    /\ isSet' = TRUE
    /\ waiting' = {}
    /\ released' = released \cup waiting

Unset ==
    /\ isSet' = FALSE
    /\ UNCHANGED <<waiting, released>>

Resume(c) ==
    /\ c \in released
    /\ released' = released \ {c}
    /\ UNCHANGED <<isSet, waiting>>

EventNext == Signal \/ Unset \/ \E c \in Coroutines : Wait(c) \/ Resume(c)

EventSpec == EventInit /\ [][EventNext]_eventVars
=============================================================================
