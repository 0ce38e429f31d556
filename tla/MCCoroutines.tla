---------------------------- MODULE MCCoroutines ----------------------------
(***************************************************************************)
(* What coroutines wait for, for TLC and in one run: piece says what the   *)
(* behaviour is about, and the others rest.  The pieces are the scheduler  *)
(* of modules/io, ResetEvent, and the task objects, once of the kind that  *)
(* has then() and once of the kind that has get().                         *)
(***************************************************************************)
EXTENDS IoScheduler

CONSTANTS Awaiting, MaxCalls,   \* of the event
          TaskObjects, Plain    \* tasks, and a coroutine of type Task<void>

VARIABLES piece,
          epc, m_state, next_, old, waiters, following, caller, calls,
          tco, client, handle, payload, worker, alive, outcome, thenCb, needToSuspend,
          ready, called, result

eventVars == <<epc, m_state, next_, old, waiters, following, caller, calls>>
taskVars == <<tco, client, handle, payload, worker, alive, outcome, thenCb, needToSuspend,
              ready, called, result>>
all == <<piece, vars, eventVars, taskVars>>

Event == INSTANCE ResetEvent WITH pc <- epc, Coroutines <- Awaiting

Thens ==
    INSTANCE CoroutineTask
    WITH co <- tco, Thenables <- TaskObjects, Blockings <- {}, Voids <- {Plain}

Gets ==
    INSTANCE CoroutineTask
    WITH co <- tco, Thenables <- {}, Blockings <- TaskObjects, Voids <- {Plain}

ASSUME CoroutinesAssumption == Event!EventParameters /\ Thens!TaskParameters /\ Gets!TaskParameters

-----------------------------------------------------------------------------
CoroutinesInit ==
    /\ piece \in {"scheduler", "event", "then", "get"}
    /\ Init /\ (piece # "scheduler" => \A r \in Rooms : r <= room)
    /\ Event!Init /\ (piece # "event" => m_state = None)
    /\ Thens!Init

CoroutinesNext ==
    /\ UNCHANGED piece
    /\ \/ piece = "scheduler" /\ Next /\ UNCHANGED <<eventVars, taskVars>>
       \/ piece = "event" /\ Event!Next /\ UNCHANGED <<vars, taskVars>>
       \/ piece = "then" /\ Thens!Next /\ UNCHANGED <<vars, eventVars>>
       \/ piece = "get" /\ Gets!Next /\ UNCHANGED <<vars, eventVars>>

\* The fairness of the modules, for the one that runs.
CoroutinesFairness ==
    /\ WF_vars(piece = "scheduler" /\ LoopStep)
    /\ WF_vars(piece = "scheduler" /\ ClientStep)
    /\ \A c \in Coroutines : WF_vars(piece = "scheduler" /\ kind[c] # "watch" /\ Happens(c))
    /\ \A c \in Awaiting :
          /\ WF_eventVars(piece = "event" /\ Event!Step(c))
          /\ WF_eventVars(piece = "event" /\ Event!Enqueue(c))
    /\ WF_taskVars(piece = "then" /\ \E t \in Thens!Frames : Thens!WorkerStep(t))
    /\ WF_taskVars(piece = "get" /\ \E t \in Gets!Frames : Gets!WorkerStep(t))
    /\ \A o \in TaskObjects :
          /\ WF_taskVars(piece = "then" /\ Thens!ClientStep(o))
          /\ WF_taskVars(piece = "get" /\ Gets!ClientStep(o))

CoroutinesSpec == CoroutinesInit /\ [][CoroutinesNext]_all /\ CoroutinesFairness

-----------------------------------------------------------------------------
(* The properties of the modules, for the one the behaviour is about.      *)

CoroutinesTypeOK == TypeOK /\ Event!TypeOK /\ Thens!TypeOK

NobodyForgotten == Event!NobodyForgotten
ImplementsEvent == Event!ImplementsEvent
SetResumes == Event!SetResumes

FramesOwned == piece # "then" => Gets!FramesOwned
StoredIsCalled == Thens!StoredIsCalled
GetReturns == Gets!GetReturns
=============================================================================
