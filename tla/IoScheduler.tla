---------------------------- MODULE IoScheduler -----------------------------
(***************************************************************************)
(* poller::io::Scheduler and its awaitables (modules/io/schedulerbase.cpp, *)
(* scheduler.cpp, timer.cpp, fileio.cpp, filesystemwatch.cpp).  A          *)
(* coroutine that awaits a timer, the opening of a file or a change of one *)
(* pushes a job into a queue and wakes the loop thread by uv_async_send;   *)
(* the loop thread drains the queue, starts the libuv operations, and      *)
(* resumes each coroutine from the operation's callback.                   *)
(*                                                                         *)
(* The queue is seen as a first-in, first-out queue, which module          *)
(* LockingQueue refines.  libuv is modelled by the phases of one turn of   *)
(* uv_run: poll, closing handles, timers, and is there anything left.      *)
(***************************************************************************)
EXTENDS Naturals, Sequences, FiniteSets

CONSTANTS Coroutines,
          Kinds,       \* of awaitables: a subset of {"timer", "open", "watch"}
          MaxAwaits,   \* bound on the awaits of each coroutine
          Rooms,       \* the sizes of the queue to look at: 127 items in the code
          None

ASSUME SchedulerAssumption ==
    /\ Kinds \subseteq {"timer", "open", "watch"}
    /\ MaxAwaits \in Nat /\ Rooms \subseteq Nat \ {0}
    /\ None \notin Coroutines /\ "async" \notin Coroutines

VARIABLES pc,        \* control point of the client's and of the loop's thread
          cur,       \* the coroutine each of them is running
          phase,     \* of the loop's turn, to which a callback returns
          batch,     \* callbacks libuv has still to make in this phase
          jobs,      \* asyncJobQueue_
          room,      \* ...and the items it has room for, which never changes
          kind,      \* what each coroutine awaits
          co,        \* where each coroutine is
          op,        \* the libuv operation each coroutine waits for
          closing,   \* number of handles libuv is closing
          inited,    \* uv_async_init was called
          pending,   \* uv_async_send was called and its callback is due
          refd,      \* the async handle keeps the loop alive
          early,     \* history: the async handle was used before it was initialised
          awaits     \* number of awaits each coroutine has made

asyncVars == <<inited, pending, refd, early>>
opVars == <<op, closing>>
coVars == <<kind, co, awaits>>
vars == <<pc, cur, phase, batch, jobs, room, coVars, opVars, asyncVars>>

Threads == {"client", "loop"}

Goto(t, p) == pc' = [pc EXCEPT ![t] = p]
SetOp(c, o) == op' = [op EXCEPT ![c] = o]

Init ==
    /\ pc = [client |-> "idle", loop |-> "starting"]
    /\ cur = [t \in Threads |-> None]
    /\ phase = "turn"
    /\ batch = {}
    /\ jobs = <<>>
    /\ room \in Rooms
    /\ kind = [c \in Coroutines |-> None]
    /\ co = [c \in Coroutines |-> "new"]
    /\ op = [c \in Coroutines |-> "none"]
    /\ closing = 0
    /\ inited = FALSE
    /\ pending = FALSE
    /\ refd = FALSE
    /\ early = FALSE
    /\ awaits = [c \in Coroutines |-> 0]

\* Where a coroutine that suspends or ends returns to.
Caller(t) == IF t = "client" THEN "idle" ELSE "phase"

-----------------------------------------------------------------------------
(* A coroutine c that runs on thread t                                     *)

StartCoroutine(c) ==
    /\ pc["client"] = "idle"
    /\ co[c] = "new"
    /\ co' = [co EXCEPT ![c] = "running"]
    /\ cur' = [cur EXCEPT !["client"] = c]
    /\ Goto("client", "running")
    /\ UNCHANGED <<phase, batch, jobs, room, kind, awaits, opVars, asyncVars>>

\* await_suspend() fills in the payload and calls schedule().
Await(t) ==
    /\ pc[t] = "running"
    /\ awaits[cur[t]] < MaxAwaits
    /\ awaits' = [awaits EXCEPT ![cur[t]] = @ + 1]
    /\ \E k \in Kinds : kind' = [kind EXCEPT ![cur[t]] = k]
    /\ co' = [co EXCEPT ![cur[t]] = "suspended"]
    /\ Goto(t, "pushing")
    /\ UNCHANGED <<cur, phase, batch, jobs, room, opVars, asyncVars>>

\* Mutant: the job is pushed twice.
PushedTwice(c) == jobs \o <<c, c>>

Pushed(c) == Append(jobs, c)

\* schedule(): the job is pushed, when the queue has room...
PushJob(t) ==
    /\ pc[t] = "pushing"
    /\ Len(jobs) < room
    /\ jobs' = Pushed(cur[t])
    /\ cur' = [cur EXCEPT ![t] = None]
    /\ Goto(t, "sending")
    /\ UNCHANGED <<phase, batch, room, coVars, opVars, asyncVars>>

\* uv_async_send: of a handle that is not initialised, undefined.
Signal ==
    /\ pending' = (pending \/ inited)
    /\ early' = (early \/ ~ inited)
    /\ UNCHANGED <<inited, refd>>

\* Mutant: the loop is woken up for the first job of several only.
SignalOfFirst == IF Len(jobs) = 1 THEN Signal ELSE UNCHANGED asyncVars

JobSignal == Signal

\* ...and the loop is woken up.
Send(t) ==
    /\ pc[t] = "sending"
    /\ JobSignal
    /\ Goto(t, Caller(t))
    /\ UNCHANGED <<cur, phase, batch, jobs, room, coVars, opVars>>

End(t) ==
    /\ pc[t] = "running"
    /\ co' = [co EXCEPT ![cur[t]] = "ended"]
    /\ cur' = [cur EXCEPT ![t] = None]
    /\ Goto(t, Caller(t))
    /\ UNCHANGED <<phase, batch, jobs, room, kind, awaits, opVars, asyncVars>>

CoroutineStep(t) == Await(t) \/ PushJob(t) \/ Send(t) \/ End(t)

-----------------------------------------------------------------------------
(* The loop thread                                                         *)

InitLoop ==
    /\ pc["loop"] = "starting"
    /\ inited' = TRUE
    /\ refd' = TRUE
    /\ Goto("loop", "phase")
    /\ UNCHANGED <<cur, phase, batch, jobs, room, coVars, opVars, pending, early>>

InPhase(p) == pc["loop"] = "phase" /\ phase = p

Enter(p) == phase' = p /\ UNCHANGED <<pc, cur, jobs, room, coVars>>

\* The operation is due, and its callback.
Due(kinds) == {c \in Coroutines : op[c] = "due" /\ kind[c] \in kinds}

\* uv_run goes on while a handle that counts or a request is active, or a
\* handle is closing.
LoopAlive == refd \/ closing > 0 \/ \E c \in Coroutines : op[c] # "none"

Turn ==
    /\ InPhase("turn")
    /\ IF LoopAlive
       THEN Enter("poll")
       ELSE /\ Goto("loop", "finished")
            /\ UNCHANGED <<cur, phase, jobs, room, coVars>>
    /\ UNCHANGED <<batch, opVars, asyncVars>>

\* uv__io_poll returns: with what is ready, or since a timer is due or a handle
\* is closing.
Poll ==
    /\ InPhase("poll")
    /\ pending \/ closing > 0 \/ Due(Kinds) # {}
    /\ batch' = Due({"open", "watch"}) \cup (IF pending THEN {"async"} ELSE {})
    /\ Enter("io")
    /\ UNCHANGED <<opVars, asyncVars>>

\* asyncCallback() is called.
AsyncCallback ==
    /\ InPhase("io")
    /\ "async" \in batch
    /\ batch' = batch \ {"async"}
    /\ pending' = FALSE
    /\ Goto("loop", "draining")
    /\ UNCHANGED <<cur, phase, jobs, room, coVars, opVars, inited, refd, early>>

\* Mutant: one job is taken for each wake-up.
OneJob(rest) == "phase"

UntilEmpty(rest) == IF rest = <<>> THEN "phase" ELSE "draining"

\* To open or to watch a file may be refused: the first with a message, the
\* second unnoticed.
MayBeRefused(c) == kind[c] \in {"open", "watch"}

\* The loop of asyncCallback(): a job starts its libuv operation.  Nobody resumes
\* the coroutine of one that is refused.
RunJob ==
    /\ pc["loop"] = "draining"
    /\ jobs # <<>>
    /\ jobs' = Tail(jobs)
    /\ Goto("loop", UntilEmpty(Tail(jobs)))
    /\ \/ SetOp(Head(jobs), "active") /\ UNCHANGED co
       \/ /\ MayBeRefused(Head(jobs))
          /\ co' = [co EXCEPT ![Head(jobs)] = "refused"]
          /\ UNCHANGED op
    /\ UNCHANGED <<cur, phase, batch, room, kind, awaits, closing, asyncVars>>

NoJob ==
    /\ pc["loop"] = "draining"
    /\ jobs = <<>>
    /\ Goto("loop", "phase")
    /\ UNCHANGED <<cur, phase, batch, jobs, room, coVars, opVars, asyncVars>>

\* A timer runs out, a file is open or has changed.
Happens(c) ==
    /\ op[c] = "active"
    /\ SetOp(c, "due")
    /\ UNCHANGED <<pc, cur, phase, batch, jobs, room, coVars, closing, asyncVars>>

\* Mutant: the handle of a watched file is left active.
KeepWatching(c) == IF kind[c] = "watch" THEN "active" ELSE "none"

\* A timer fires once, a request ends, and a watch is stopped by its callback.
OpAfter(c) == "none"

\* The callback of c's operation: it resumes the coroutine, and closes the
\* handle of a timer or a watch.
Callback(c) ==
    /\ pc["loop"] = "phase"
    /\ c \in batch
    /\ batch' = batch \ {c}
    /\ SetOp(c, OpAfter(c))
    /\ closing' = IF kind[c] = "open" THEN closing ELSE closing + 1
    /\ co' = [co EXCEPT ![c] = "running"]
    /\ kind' = [kind EXCEPT ![c] = None]
    /\ cur' = [cur EXCEPT !["loop"] = c]
    /\ Goto("loop", "running")
    /\ UNCHANGED <<phase, jobs, room, awaits, asyncVars>>

\* The handles that are closing are closed, and the timers that are due fire.
CloseHandles ==
    /\ InPhase("io")
    /\ batch = {}
    /\ closing' = 0
    /\ batch' = Due({"timer"})
    /\ Enter("timers")
    /\ UNCHANGED <<op, asyncVars>>

EndTurn ==
    /\ InPhase("timers")
    /\ batch = {}
    /\ Enter("turn")
    /\ UNCHANGED <<batch, opVars, asyncVars>>

LoopStep ==
    \/ InitLoop \/ Turn \/ Poll \/ AsyncCallback \/ RunJob \/ NoJob
    \/ \E c \in Coroutines : Callback(c)
    \/ CloseHandles \/ EndTurn
    \/ CoroutineStep("loop")

-----------------------------------------------------------------------------
(* The destructor                                                          *)

\* stop(): the async handle counts no more - if it is initialised by now...
Unref ==
    /\ pc["client"] = "idle"
    /\ refd' = FALSE
    /\ early' = (early \/ ~ inited)
    /\ Goto("client", "stopping")
    /\ UNCHANGED <<cur, phase, batch, jobs, room, coVars, opVars, inited, pending>>

\* Mutant: the loop is not woken up.
SignalNobody == UNCHANGED asyncVars

StopSignal == Signal

\* ...and the loop is woken up to notice.
StopSend ==
    /\ pc["client"] = "stopping"
    /\ StopSignal
    /\ Goto("client", "joining")
    /\ UNCHANGED <<cur, phase, batch, jobs, room, coVars, opVars>>

Join ==
    /\ pc["client"] = "joining"
    /\ pc["loop"] = "finished"
    /\ Goto("client", "closed")
    /\ UNCHANGED <<cur, phase, batch, jobs, room, coVars, opVars, asyncVars>>

ClientStep == CoroutineStep("client") \/ StopSend \/ Join

\* The loop's thread, which alone takes jobs out, waits for room for its own.
LoopBlocked == pc["loop"] = "pushing" /\ Len(jobs) = room

\* The scheduler is gone, the loop sleeps with nothing to do or is blocked for
\* ever, or the program has come to something undefined.
Stopped ==
    /\ \/ pc["client"] = "closed"
       \/ early
       \/ LoopBlocked
       \/ /\ pc["client"] \in {"idle", "joining"}
          /\ InPhase("poll")
          /\ ~ pending
    /\ UNCHANGED vars

Next ==
    \/ \E c \in Coroutines : StartCoroutine(c) \/ Happens(c)
    \/ LoopStep
    \/ ClientStep
    \/ Unref
    \/ Stopped

Spec == Init /\ [][Next]_vars

\* Both threads go on, and timers run out; the opening of a file ends, too.
\* Nothing obliges a watched file to change, nor the client to destroy the
\* scheduler.
Fairness ==
    /\ WF_vars(LoopStep)
    /\ WF_vars(ClientStep)
    /\ \A c \in Coroutines : WF_vars(kind[c] # "watch" /\ Happens(c))

FairSpec == Spec /\ Fairness

-----------------------------------------------------------------------------
TypeOK ==
    /\ pc \in [Threads -> {"idle", "running", "pushing", "sending", "stopping", "joining",
                           "closed", "starting", "phase", "draining", "finished"}]
    /\ cur \in [Threads -> Coroutines \cup {None}]
    /\ phase \in {"turn", "poll", "io", "timers"}
    /\ batch \subseteq Coroutines \cup {"async"}
    /\ room \in Rooms
    /\ jobs \in Seq(Coroutines) /\ Len(jobs) <= room
    /\ kind \in [Coroutines -> Kinds \cup {None}]
    /\ co \in [Coroutines -> {"new", "running", "suspended", "refused", "ended"}]
    /\ op \in [Coroutines -> {"none", "active", "due"}]
    /\ closing \in Nat
    /\ {inited, pending, refd, early} \subseteq BOOLEAN
    /\ awaits \in [Coroutines -> 0 .. MaxAwaits]

\* A job or an operation that refers to a coroutine's payload: the payload is
\* part of the awaitable in the coroutine's frame.
Refers(c) ==
    \/ \E i \in DOMAIN jobs : jobs[i] = c
    \/ op[c] # "none"
    \/ c \in batch

\* The callbacks get the payload as a bare pointer (timer.cpp:64): as long as
\* a job or an operation refers to it, its coroutine is suspended where it made
\* it, and no two of them refer to the same one.
PayloadAlive ==
    \A c \in Coroutines :
       /\ Refers(c) => co[c] = "suspended"
       /\ \A i \in DOMAIN jobs : jobs[i] = c =>
             op[c] = "none" /\ \A j \in DOMAIN jobs : jobs[j] = c => i = j

\* The coroutines whose operation has not been started.
Unstarted == {c \in Coroutines : co[c] = "suspended" /\ op[c] = "none"}

\* push() blocks when the queue is full (scheduler.cpp:50), and a coroutine that
\* awaits again from its callback pushes on the loop's thread, which alone takes
\* jobs out: it would block for ever.  That takes more coroutines that wait for
\* their operations to be started than the queue has room for.
PushBlocksOnlyCrowded ==
    \A t \in Threads : pc[t] = "pushing" /\ Len(jobs) = room => Cardinality(Unstarted) > room

\* A job is in the queue while the loop sleeps only until it is announced: many
\* uv_async_send calls may come to one callback (schedulerbase.cpp:73), and a
\* job may come while the queue is being drained.
NoJobUnannounced ==
    jobs # <<>> /\ InPhase("poll") => pending \/ early \/ \E t \in Threads : pc[t] = "sending"

\* What each thread is about: one coroutine at most, and not the same.
ThreadsApart ==
    /\ pc["client"] \in {"idle", "running", "pushing", "sending", "stopping", "joining", "closed"}
    /\ pc["loop"] \in {"starting", "running", "pushing", "sending", "phase", "draining", "finished"}
    /\ \A t \in Threads :
          /\ pc[t] \in {"running", "pushing"} <=> cur[t] # None
          /\ pc[t] = "running" => co[cur[t]] = "running"
          /\ pc[t] = "pushing" => co[cur[t]] = "suspended" /\ ~ Refers(cur[t])
    /\ cur["client"] = cur["loop"] => cur["client"] = None

\* A callback is due of an operation that has happened only.
BatchDue == \A c \in Coroutines : c \in batch => op[c] = "due"

\* A job in the queue is announced, or about to be, or the queue is being drained.
JobsAnnounced ==
    jobs # <<>> => \/ pending \/ early \/ pc["loop"] = "draining"
                   \/ \E t \in Threads : pc[t] = "sending"

\* The inductive invariant behind the theorems of CoroutinesProofs.
IInv == TypeOK /\ ThreadsApart /\ BatchDue /\ PayloadAlive /\ JobsAnnounced

\* Timers and files: a suspended coroutine is resumed, or its operation is
\* refused, unless the scheduler is destroyed or the loop blocks itself.
AwaitEnds ==
    \A c \in Coroutines :
       (co[c] = "suspended" /\ kind[c] # "watch")
       ~> (co[c] # "suspended" \/ kind[c] = "watch" \/ early \/ LoopBlocked
           \/ pc["client"] \in {"stopping", "joining", "closed"})

\* ~SchedulerBase returns, unless a watched file never changes or the loop blocks
\* itself: the loop goes on until the last operation has ended, and then does not
\* sleep.
DestructorReturns ==
    pc["client"] = "joining"
    ~> (pc["client"] = "closed" \/ early \/ LoopBlocked
        \/ \E c \in Coroutines : kind[c] = "watch" /\ op[c] = "active")

\* "Work out unfinished jobs" (schedulerbase.cpp:85): when the destructor
\* returns no job is left in the queue.
JobsWorkedOut == pc["client"] = "closed" => jobs = <<>>
=============================================================================
