--------------------------- MODULE CoroutineTask ----------------------------
(***************************************************************************)
(* poller::Task<T>, Task<void> and BlockingTask<T>                         *)
(* (modules/poller/task.cpp): the objects through which a client gets at   *)
(* the result of a coroutine that the worker thread resumes.  A Task<T> or *)
(* BlockingTask<T> refers to the coroutine's frame, which holds the        *)
(* promise and with it everything the two threads share; it can be moved   *)
(* to another object.  A Task<void> refers to nothing.                     *)
(*                                                                         *)
(* The worker runs one coroutine at a time to its end.  Each object is     *)
(* named by the coroutine it was made for and has a client thread of its   *)
(* own; while no call on it is under way it can be moved.  A step on a     *)
(* frame that was destroyed goes on; what it reads there is anything.      *)
(***************************************************************************)
EXTENDS Naturals, FiniteSets

CONSTANTS Thenables,   \* tasks of type Task<T>
          Blockings,   \* tasks of type BlockingTask<T>
          Voids,       \* coroutines of type Task<void>
          None

TaskParameters ==
    /\ Thenables \cap Blockings = {} /\ Voids \cap (Thenables \cup Blockings) = {}
    /\ None \notin Thenables \cup Blockings \cup Voids

VARIABLES co,             \* control point of each coroutine
          client,         \* control point of the thread that has the object
          handle,         \* handle_ of each object
          payload,        \* local of get(): the frame it refers to
          worker,         \* the coroutine the worker is running
          alive,          \* the coroutine's frame exists
          outcome,        \* payload_ or exception_: "none" yet, or "settled"
          thenCb,         \* a callback is stored in thenCb_
          needToSuspend,  \* needToSuspend_
          ready,          \* ready_
          called,         \* history: the callback has been called
          result          \* history: what get() has returned

promise == <<outcome, thenCb, needToSuspend, ready>>
object == <<client, handle, payload>>
vars == <<co, object, worker, alive, promise, called, result>>

Tasks == Thenables \cup Blockings
Frames == Tasks \cup Voids

Init ==
    /\ co = [t \in Frames |-> "awaiting"]
    /\ client = [o \in Tasks |-> "holding"]
    /\ handle = [o \in Tasks |-> o]
    /\ payload = [o \in Tasks |-> None]
    /\ worker = None
    /\ alive = [t \in Frames |-> TRUE]
    /\ outcome = [t \in Frames |-> "none"]
    /\ thenCb = [t \in Frames |-> FALSE]
    /\ needToSuspend = [t \in Frames |-> TRUE]
    /\ ready = [t \in Frames |-> FALSE]
    /\ called = [t \in Frames |-> FALSE]
    /\ result = [t \in Frames |-> "none"]

CoGoto(t, p) == co' = [co EXCEPT ![t] = p]
ClientGoto(o, p) == client' = [client EXCEPT ![o] = p]

Destroy(t) == alive' = [alive EXCEPT ![t] = FALSE]

-----------------------------------------------------------------------------
(* The worker                                                              *)

\* Mutant: the next coroutine is resumed while another is running.
NeverBusy == TRUE

WorkerFree == worker = None

\* The answer has arrived: handle.resume().
ResumeCoroutine(t) ==
    /\ WorkerFree
    /\ co[t] = "awaiting"
    /\ worker' = t
    /\ CoGoto(t, "running")
    /\ UNCHANGED <<object, alive, promise, called, result>>

\* return_value(), return_void() or unhandled_exception(), then final_suspend().
Return(t) ==
    /\ co[t] = "running"
    /\ outcome' = [outcome EXCEPT ![t] = "settled"]
    /\ CoGoto(t, CASE t \in Thenables -> "finishing"
                   [] t \in Blockings -> "readying"
                   [] t \in Voids -> "ending")
    /\ UNCHANGED <<object, worker, alive, thenCb, needToSuspend, ready, called, result>>

\* Task: final_suspend() looks for a callback...
LookForCallback(t) ==
    /\ co[t] = "finishing"
    /\ CoGoto(t, IF thenCb[t] THEN "calling" ELSE "deciding")
    /\ UNCHANGED <<object, worker, alive, promise, called, result>>

\* Mutant: the flag is cleared and the callback left out.
SkipCallback(t) ==
    /\ co[t] = "calling"
    /\ needToSuspend' = [needToSuspend EXCEPT ![t] = FALSE]
    /\ CoGoto(t, "deciding")
    /\ UNCHANGED <<object, worker, alive, outcome, thenCb, ready, called, result>>

\* ...calls it...
CallCallback(t) ==
    /\ co[t] = "calling"
    /\ called' = [called EXCEPT ![t] = TRUE]
    /\ needToSuspend' = [needToSuspend EXCEPT ![t] = FALSE]
    /\ CoGoto(t, "deciding")
    /\ UNCHANGED <<object, worker, alive, outcome, thenCb, ready, result>>

\* ThenableAwaiter::await_suspend() returns the negated flag: true suspends.
Suspends(t) == ~ needToSuspend[t]

\* ...and suspends, or goes on to its end and destroys its own frame.
DecideSuspend(t) ==
    /\ co[t] = "deciding"
    /\ worker' = None
    /\ IF Suspends(t)
       THEN CoGoto(t, "done") /\ UNCHANGED alive
       ELSE CoGoto(t, "gone") /\ Destroy(t)
    /\ UNCHANGED <<object, promise, called, result>>

\* Task<void>: final_suspend() does not suspend, and the frame is destroyed.
End(t) ==
    /\ co[t] = "ending"
    /\ worker' = None
    /\ CoGoto(t, "gone")
    /\ Destroy(t)
    /\ UNCHANGED <<object, promise, called, result>>

\* BlockingTask: final_suspend() sets ready_ under the mutex...
SetReady(t) ==
    /\ co[t] = "readying"
    /\ ready' = [ready EXCEPT ![t] = TRUE]
    /\ CoGoto(t, "notifying")
    /\ UNCHANGED <<object, worker, alive, outcome, thenCb, needToSuspend, called, result>>

\* Mutant: nobody is notified.
NotifyNobody(t) == client

Notified(t) ==
    [o \in Tasks |-> IF client[o] = "asleep" /\ handle[o] = t THEN "checking" ELSE client[o]]

\* ...notifies without it...
Notify(t) ==
    /\ co[t] = "notifying"
    /\ client' = Notified(t)
    /\ CoGoto(t, "suspending")
    /\ UNCHANGED <<handle, payload, worker, alive, promise, called, result>>

\* ...and suspends.
Suspend(t) ==
    /\ co[t] = "suspending"
    /\ worker' = None
    /\ CoGoto(t, "done")
    /\ UNCHANGED <<object, alive, promise, called, result>>

WorkerStep(t) ==
    \/ ResumeCoroutine(t) \/ Return(t)
    \/ LookForCallback(t) \/ CallCallback(t) \/ DecideSuspend(t)
    \/ End(t) \/ SetReady(t) \/ Notify(t) \/ Suspend(t)

-----------------------------------------------------------------------------
(* The client                                                              *)

\* handle_.done(): the frame is marked while the coroutine is about to suspend;
\* of a destroyed frame, anything.
Done(t) ==
    IF alive[t] /\ co[t] \notin {"deciding", "suspending"} THEN {co[t] = "done"} ELSE BOOLEAN

\* The object may be used.
Holds(o) == client[o] = "holding" /\ handle[o] # None

\* then() calls the callback itself if the coroutine is at its final suspend.
\* (Bound: once for each coroutine.)
ThenLooks(o) ==
    /\ o \in Thenables
    /\ Holds(o)
    /\ ~ thenCb[handle[o]]
    /\ \E done \in Done(handle[o]) : ClientGoto(o, IF done THEN "calling" ELSE "storing")
    /\ UNCHANGED <<co, handle, payload, worker, alive, promise, called, result>>

ThenStores(o) ==
    /\ client[o] = "storing"
    /\ thenCb' = [thenCb EXCEPT ![handle[o]] = TRUE]
    /\ ClientGoto(o, "holding")
    /\ UNCHANGED <<co, handle, payload, worker, alive, outcome, needToSuspend, ready,
                   called, result>>

\* detach()
DestroyAndForget(o) ==
    /\ Destroy(handle[o])
    /\ handle' = [handle EXCEPT ![o] = None]

ThenCalls(o) ==
    /\ client[o] = "calling"
    /\ called' = [called EXCEPT ![handle[o]] = TRUE]
    /\ DestroyAndForget(o)
    /\ ClientGoto(o, "holding")
    /\ UNCHANGED <<co, payload, worker, promise, result>>

\* get() does not wait for a coroutine that is at its final suspend.
Get(o) ==
    /\ o \in Blockings
    /\ Holds(o)
    /\ \E done \in Done(handle[o]) : ClientGoto(o, IF done THEN "moving" ELSE "checking")
    /\ UNCHANGED <<co, handle, payload, worker, alive, promise, called, result>>

\* cv_.wait(): the predicate and the falling asleep, under the mutex.
CheckReady(o) ==
    /\ client[o] = "checking"
    /\ ClientGoto(o, IF ready[handle[o]] THEN "moving" ELSE "asleep")
    /\ UNCHANGED <<co, handle, payload, worker, alive, promise, called, result>>

\* A condition variable may wake its thread for no reason.
WakeUp(o) ==
    /\ client[o] = "asleep"
    /\ ClientGoto(o, "checking")
    /\ UNCHANGED <<co, handle, payload, worker, alive, promise, called, result>>

\* get() takes a reference to payload_ and destroys the frame...
DetachFrame(o) ==
    /\ client[o] = "moving"
    /\ payload' = [payload EXCEPT ![o] = handle[o]]
    /\ DestroyAndForget(o)
    /\ ClientGoto(o, "returning")
    /\ UNCHANGED <<co, worker, promise, called, result>>

\* ...and then returns the value the reference refers to.
GetReturn(o) ==
    LET t == payload[o] IN
    /\ client[o] = "returning"
    /\ \E v \in (IF alive[t] THEN {outcome[t]} ELSE {outcome[t], "garbage"}) :
          result' = [result EXCEPT ![t] = v]
    /\ payload' = [payload EXCEPT ![o] = None]
    /\ ClientGoto(o, "holding")
    /\ UNCHANGED <<co, handle, worker, alive, promise, called>>

\* Mutant: the object that was moved from keeps its handle.
KeptBy(p) == handle[p]

\* What a move leaves in its source.
LeftIn(p) == None

\* o = std::move( p ): the coroutine that o refers to is destroyed, whatever it is
\* about; or the construction of o from p, which has no such coroutine.
MoveTo(o, p) ==
    /\ o # p /\ ({o, p} \subseteq Thenables \/ {o, p} \subseteq Blockings)
    /\ Holds(p)
    /\ \/ Holds(o) /\ Destroy(handle[o])
       \/ ~ Holds(o) /\ client[o] \in {"holding", "left"} /\ UNCHANGED alive
    /\ handle' = [handle EXCEPT ![o] = handle[p], ![p] = LeftIn(p)]
    /\ ClientGoto(o, "holding")
    /\ UNCHANGED <<co, payload, worker, promise, called, result>>

\* The client calls detach().
Detach(o) ==
    /\ Holds(o)
    /\ DestroyAndForget(o)
    /\ UNCHANGED <<co, client, payload, worker, promise, called, result>>

\* The object is destroyed: ~Task() leaves the frame to itself, ~BlockingTask()
\* destroys it.
DropTask(o) ==
    /\ client[o] = "holding"
    /\ ClientGoto(o, "left")
    /\ IF o \in Blockings /\ handle[o] # None THEN Destroy(handle[o]) ELSE UNCHANGED alive
    /\ handle' = [handle EXCEPT ![o] = None]
    /\ UNCHANGED <<co, payload, worker, promise, called, result>>

\* A call goes on.
ClientStep(o) ==
    ThenStores(o) \/ ThenCalls(o) \/ CheckReady(o) \/ DetachFrame(o) \/ GetReturn(o)

\* The client calls a member function.
ClientCall(o) ==
    \/ ThenLooks(o) \/ Get(o) \/ Detach(o) \/ DropTask(o)
    \/ \E p \in Tasks : MoveTo(o, p)

\* Every object is gone and every coroutine has ended.
Finished ==
    /\ \A o \in Tasks : client[o] = "left"
    /\ \A t \in Frames : co[t] \in {"done", "gone"}
    /\ UNCHANGED vars

Next ==
    \/ \E t \in Frames : WorkerStep(t)
    \/ \E o \in Tasks : ClientStep(o) \/ ClientCall(o) \/ WakeUp(o)
    \/ Finished

Spec == Init /\ [][Next]_vars

\* Every request is answered, and a call, once made, goes on.
Fairness ==
    /\ WF_vars(\E t \in Frames : WorkerStep(t))
    /\ \A o \in Tasks : WF_vars(ClientStep(o))

FairSpec == Spec /\ Fairness

-----------------------------------------------------------------------------
Points == {"awaiting", "running", "finishing", "calling", "deciding", "ending",
           "readying", "notifying", "suspending", "done", "gone"}

\* The worker is at the one coroutine that is under way.
OneAtATime == \A t \in Frames : co[t] \in {"awaiting", "done", "gone"} <=> worker # t

TypeOK ==
    /\ co \in [Frames -> Points]
    /\ client \in [Tasks -> {"holding", "storing", "calling", "checking", "asleep", "moving",
                             "returning", "left"}]
    /\ handle \in [Tasks -> Tasks \cup {None}]
    /\ payload \in [Tasks -> Tasks \cup {None}]
    /\ worker \in Frames \cup {None}
    /\ OneAtATime
    /\ {alive, thenCb, needToSuspend, ready, called} \subseteq [Frames -> BOOLEAN]
    /\ outcome \in [Frames -> {"none", "settled"}]
    /\ result \in [Frames -> {"none", "settled", "garbage"}]

\* The frame of a BlockingTask is destroyed by get(), detach(), an assignment or
\* the destructor (task.cpp:262, 276-290, 315), and the objects are moved about:
\* at any time each frame that exists has exactly one object to destroy it, and
\* one that was destroyed has none that would destroy it again.
FramesOwned ==
    \A t \in Blockings :
       Cardinality({o \in Tasks : handle[o] = t}) = IF alive[t] THEN 1 ELSE 0

\* Objects and coroutines are of one kind each, and a call keeps to it: while it
\* is under way the object is not moved, so that it still has its frame.
CallsTyped ==
    /\ \A o \in Tasks :
          /\ handle[o] \in (IF o \in Blockings THEN Blockings ELSE Thenables) \cup {None}
          /\ client[o] \in {"storing", "calling"} => handle[o] \in Thenables
          /\ client[o] \in {"checking", "asleep", "moving"} => handle[o] \in Blockings
          /\ client[o] = "returning" => payload[o] \in Blockings
          /\ client[o] = "left" => handle[o] = None
    /\ \A t \in Blockings :
          co[t] \in {"awaiting", "running", "readying", "notifying", "suspending", "done"}

\* No two objects refer to one frame: what FramesOwned counts.
OwnedOnce ==
    \A t \in Blockings :
       /\ alive[t] <=> \E o \in Tasks : handle[o] = t
       /\ \A o, p \in Tasks : handle[o] = t /\ handle[p] = t => o = p

\* The inductive invariant of the proofs.
IInv == TypeOK /\ CallsTyped /\ OwnedOnce

\* A callback that then() stored before final_suspend() looked for one is
\* called (task.cpp:68-71), with the other coroutines of the worker in between,
\* unless the client destroys the frame by detach() or an assignment.
StoredIsCalled ==
    \A t \in Thenables :
       (thenCb[t] /\ co[t] \in {"awaiting", "running", "finishing"}) ~> (called[t] \/ ~ alive[t])

\* get() returns: it never sleeps through the notification (task.cpp:226), and
\* the frame it sleeps in is not moved away.
GetReturns == \A o \in Blockings : client[o] = "checking" ~> client[o] = "holding"

\* "If coroutine already reach final suspend then payload_ always ready"
\* (task.cpp:152-153): when then() finds the coroutine done, its frame is there.
ThenFindsFrame == \A o \in Thenables : client[o] = "calling" => alive[handle[o]]

\* get() returns the coroutine's "value when ready" (task.cpp:200-201).
GetReturnsTheValue == \A t \in Blockings : result[t] \in {"none", outcome[t]}
=============================================================================
