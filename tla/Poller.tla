------------------------------- MODULE Poller -------------------------------
(***************************************************************************)
(* poller::Poller (modules/poller/poller.cpp): coroutines hand HTTP        *)
(* requests to one libcurl multi handle.  performRequest() links the easy  *)
(* handle into the multi handle on the caller's thread and then submits a  *)
(* job to a pool of one worker thread; each job runs the                   *)
(* perform / poll / info_read loop until nothing is in progress and        *)
(* resumes, on the worker, the coroutine of every transfer it finds        *)
(* finished.  A resumed coroutine may issue its next request from there.   *)
(*                                                                         *)
(* The pool is seen from here as tasks_count_ and the number of queued     *)
(* jobs; module ThreadPool refines that view.  Every libcurl call that     *)
(* touches the multi handle has a duration: a thread is inside it while    *)
(* its control point is in CurlCalls, and finishes it in the next action.  *)
(***************************************************************************)
EXTENDS Naturals

CONSTANTS Requests,     \* the co_awaits of the program, one easy handle each
          Roots,        \* those a coroutine reaches on the client's own thread
          Then,         \* Then[r]: the request r's coroutine issues when resumed
          None,         \* no request
          Responsive,   \* requests whose transfer ends (answer, error, timeout)
          MaxFailures,  \* bound on failing libcurl calls and invalid requests
          RaceOutcomes  \* what an overlapped curl_multi_add_handle may leave

ASSUME PollerAssumption ==
    /\ None \notin Requests
    /\ Roots \subseteq Requests
    /\ Then \in [Requests -> Requests \cup {None}]
    /\ \A r \in Requests : Then[r] \notin Roots
    /\ \A r, s \in Requests : Then[r] = Then[s] /\ Then[r] # None => r = s
    /\ Responsive \subseteq Requests
    /\ MaxFailures \in Nat
    /\ RaceOutcomes \subseteq {"running", "lost"} /\ RaceOutcomes # {}

VARIABLES pc,        \* control point of each thread
          cur,       \* the request each thread is in performRequest() with
          msg,       \* the request whose CURLMSG_DONE the worker handles
          still,     \* the worker's stillRunning
          multi,     \* where each easy handle stands with the multi handle
          coro,      \* what the coroutine awaiting each request has seen
          tasks,     \* ThreadPool::tasks_count_
          queued,    \* jobs pushed and not yet taken by the worker
          clash,     \* threads whose libcurl call overlapped the other one's
          failures

vars == <<pc, cur, msg, still, multi, coro, tasks, queued, clash, failures>>

Threads == {"main", "worker"}
Other(t) == IF t = "main" THEN "worker" ELSE "main"

\* Control points at which a thread is inside a call on the multi handle.
CurlCalls == {"adding", "performing", "polling", "reading", "removing"}

Submitting == {"adding", "cleaning", "counting", "pushing"}
MainPoints == {"idle", "waiting", "closed"} \cup Submitting
WorkerPoints == {"idle", "performing", "polling", "reading", "handing",
                 "resumed", "removing", "finishing"} \cup Submitting

Init ==
    /\ pc = [t \in Threads |-> "idle"]
    /\ cur = [t \in Threads |-> None]
    /\ msg = None
    /\ still = FALSE
    /\ multi = [r \in Requests |-> "out"]
    /\ coro = [r \in Requests |-> "idle"]
    /\ tasks = 0
    /\ queued = 0
    /\ clash = {}
    /\ failures = 0

Goto(t, p) == pc' = [pc EXCEPT ![t] = p]

\* Mutant: the job is submitted before the handle is linked.
SubmitFirst == [start |-> "counting", counting |-> "pushing", pushing |-> "adding",
                adding |-> "cleaning", cleaning |-> "return"]

\* The order of performRequest(): link the handle, clean the request, count
\* and push the job, return.
After == [start |-> "adding", adding |-> "cleaning", cleaning |-> "counting",
          counting |-> "pushing", pushing |-> "return"]

\* Where performRequest() returns to: the client, or the job's callback.
Caller(t) == IF t = "main" THEN "idle" ELSE "removing"

Advance(t) ==
    IF After[pc[t]] = "return"
    THEN Goto(t, Caller(t)) /\ cur' = [cur EXCEPT ![t] = None]
    ELSE Goto(t, After[pc[t]]) /\ UNCHANGED cur

CanFail == failures < MaxFailures
CountFailure == failures' = failures + 1

\* Each call on the multi handle remembers whether the other thread was in
\* one at any time since it began.
TrackOverlap ==
    clash' = {t \in Threads :
                /\ pc'[t] \in CurlCalls
                /\ \/ pc'[Other(t)] \in CurlCalls
                   \/ pc'[t] = pc[t] /\ t \in clash}

-----------------------------------------------------------------------------
(* performRequest(), on the thread t that runs the coroutine.              *)

\* co_await requestAsync: await_suspend() moves a valid request into
\* performRequest(), which sets its options and enters curl_multi_add_handle.
PerformRequest(t, r) ==
    /\ coro[r] = "idle"
    /\ coro' = [coro EXCEPT ![r] = "awaiting"]
    /\ cur' = [cur EXCEPT ![t] = r]
    /\ Goto(t, After["start"])
    /\ UNCHANGED <<msg, still, multi, tasks, queued, failures>>

\* The request has no easy handle: it is not performed, the coroutine stays
\* suspended and nobody holds its handle any more.
RefuseRequest(t, r) ==
    /\ CanFail
    /\ CountFailure
    /\ coro[r] = "idle"
    /\ coro' = [coro EXCEPT ![r] = "refused"]
    /\ Goto(t, Caller(t))
    /\ UNCHANGED <<cur, msg, still, multi, tasks, queued>>

\* curl_multi_add_handle returns.  Overlapped by another call on the same
\* multi handle it is a data race, whose outcomes RaceOutcomes lists.
AddHandle(t) ==
    /\ pc[t] = "adding"
    /\ \E outcome \in (IF t \in clash THEN RaceOutcomes ELSE {"running"}) :
          multi' = [multi EXCEPT ![cur[t]] = outcome]
    /\ Advance(t)
    /\ UNCHANGED <<msg, still, coro, tasks, queued, failures>>

\* curl_multi_add_handle returns an error, which performRequest() ignores: it
\* goes on to submit a job although the handle is not linked.
AddFails(t) ==
    /\ pc[t] = "adding"
    /\ CanFail
    /\ CountFailure
    /\ multi' = [multi EXCEPT ![cur[t]] = "lost"]
    /\ Advance(t)
    /\ UNCHANGED <<msg, still, coro, tasks, queued>>

\* request.clean(): the last use performRequest() makes of the request.
CleanRequest(t) ==
    /\ pc[t] = "cleaning"
    /\ Advance(t)
    /\ UNCHANGED <<msg, still, multi, coro, tasks, queued, failures>>

\* Mutant: submit() does not count the job.
CountNothing(t) ==
    /\ pc[t] = "counting"
    /\ Advance(t)
    /\ UNCHANGED <<msg, still, multi, coro, tasks, queued, failures>>

\* ThreadPool::submit counts the job before it pushes it.
CountJob(t) ==
    /\ pc[t] = "counting"
    /\ tasks' = tasks + 1
    /\ Advance(t)
    /\ UNCHANGED <<msg, still, multi, coro, queued, failures>>

PushJob(t) ==
    /\ pc[t] = "pushing"
    /\ queued' = queued + 1
    /\ Advance(t)
    /\ UNCHANGED <<msg, still, multi, coro, tasks, failures>>

SubmitStep(t) ==
    AddHandle(t) \/ AddFails(t) \/ CleanRequest(t) \/ CountJob(t) \/ PushJob(t)

-----------------------------------------------------------------------------
(* The job the worker thread runs.                                         *)

TakeJob ==
    /\ pc["worker"] = "idle"
    /\ queued > 0
    /\ queued' = queued - 1
    /\ still' = FALSE
    /\ Goto("worker", "performing")
    /\ UNCHANGED <<cur, msg, multi, coro, tasks, failures>>

\* The transfer of r ends on the network: an answer, an error or a timeout.
NetworkDone(r) ==
    /\ multi[r] = "running"
    /\ multi' = [multi EXCEPT ![r] = "ready"]
    /\ UNCHANGED <<pc, cur, msg, still, coro, tasks, queued, failures>>

\* curl_multi_perform turns ended transfers into messages and reports how
\* many are still in progress; the loop polls only if there are any.
Perform ==
    /\ pc["worker"] = "performing"
    /\ multi' = [r \in Requests |-> IF multi[r] = "ready" THEN "done" ELSE multi[r]]
    /\ still' = (\E r \in Requests : multi[r] = "running")
    /\ Goto("worker", IF still' THEN "polling" ELSE "reading")
    /\ UNCHANGED <<cur, msg, coro, tasks, queued, failures>>

\* Mutant: the messages are read only once nothing is in progress.
PollUntilIdle ==
    /\ pc["worker"] = "polling"
    /\ Goto("worker", "performing")
    /\ UNCHANGED <<cur, msg, still, multi, coro, tasks, queued, failures>>

\* curl_multi_poll returns: some activity, or its timeout.
Poll ==
    /\ pc["worker"] = "polling"
    /\ Goto("worker", "reading")
    /\ UNCHANGED <<cur, msg, still, multi, coro, tasks, queued, failures>>

\* curl_multi_perform or curl_multi_poll reports an error: the job breaks
\* out of its loop, whatever is still linked into the multi handle.
LoopFails ==
    /\ pc["worker"] \in {"performing", "polling"}
    /\ CanFail
    /\ CountFailure
    /\ Goto("worker", "finishing")
    /\ UNCHANGED <<cur, msg, still, multi, coro, tasks, queued>>

ReadMessage ==
    /\ pc["worker"] = "reading"
    /\ \E r \in Requests :
          /\ multi[r] = "done"
          /\ multi' = [multi EXCEPT ![r] = "read"]
          /\ msg' = r
    /\ Goto("worker", "handing")
    /\ UNCHANGED <<cur, still, coro, tasks, queued, failures>>

\* Mutant: each job goes through its loop once.
OnePass == FALSE

\* The job's loop condition, tested when no message is left.
GoesOn == still

NoMessage ==
    /\ pc["worker"] = "reading"
    /\ \A r \in Requests : multi[r] # "done"
    /\ Goto("worker", IF GoesOn THEN "performing" ELSE "finishing")
    /\ UNCHANGED <<cur, msg, still, multi, coro, tasks, queued, failures>>

\* The payload's callback stores the result and resumes the coroutine.
HandResult ==
    /\ pc["worker"] = "handing"
    /\ coro' = [coro EXCEPT ![msg] = "answered"]
    /\ Goto("worker", "resumed")
    /\ UNCHANGED <<cur, msg, still, multi, tasks, queued, failures>>

\* The resumed coroutine issues its next request from the worker thread...
ResumedIssues ==
    /\ pc["worker"] = "resumed"
    /\ Then[msg] # None
    /\ PerformRequest("worker", Then[msg]) \/ RefuseRequest("worker", Then[msg])

\* ...or runs to its end, and the callback returns.
ResumedEnds ==
    /\ pc["worker"] = "resumed"
    /\ Then[msg] = None
    /\ Goto("worker", "removing")
    /\ UNCHANGED <<cur, msg, still, multi, coro, tasks, queued, failures>>

\* curl_multi_remove_handle, curl_easy_cleanup, and the payload is freed.
RemoveHandle ==
    /\ pc["worker"] = "removing"
    /\ multi' = [multi EXCEPT ![msg] = "out"]
    /\ msg' = None
    /\ Goto("worker", "reading")
    /\ UNCHANGED <<cur, still, coro, tasks, queued, failures>>

\* Mutant: a finished job stays counted.
FinishUncounted ==
    /\ pc["worker"] = "finishing"
    /\ Goto("worker", "idle")
    /\ UNCHANGED <<cur, msg, still, multi, coro, tasks, queued, failures>>

FinishJob ==
    /\ pc["worker"] = "finishing"
    /\ tasks' = tasks - 1
    /\ Goto("worker", "idle")
    /\ UNCHANGED <<cur, msg, still, multi, coro, queued, failures>>

WorkerStep ==
    \/ TakeJob \/ Perform \/ Poll \/ LoopFails \/ ReadMessage \/ NoMessage
    \/ HandResult \/ ResumedIssues \/ ResumedEnds \/ RemoveHandle \/ FinishJob
    \/ SubmitStep("worker")

-----------------------------------------------------------------------------
(* The client's thread: it starts coroutines and destroys the Poller.      *)

Start(r) ==
    /\ pc["main"] = "idle"
    /\ PerformRequest("main", r) \/ RefuseRequest("main", r)

Destroy ==
    /\ pc["main"] = "idle"
    /\ Goto("main", "waiting")
    /\ UNCHANGED <<cur, msg, still, multi, coro, tasks, queued, failures>>

\* Mutant: wait() looks at the queue, not at the jobs that are running.
QueueEmpty == queued = 0

\* ThreadPool::wait returns when it reads a task count of zero.
Drained == tasks = 0

WaitReturns ==
    /\ pc["main"] = "waiting"
    /\ Drained
    /\ Goto("main", "closed")
    /\ UNCHANGED <<cur, msg, still, multi, coro, tasks, queued, failures>>

\* ~Poller has cleaned up the multi handle: the program may stop here.
Terminating == pc["main"] = "closed" /\ pc["worker"] = "idle" /\ UNCHANGED vars

Next ==
    \/ /\ \/ \E r \in Roots : Start(r)
          \/ SubmitStep("main")
          \/ Destroy
          \/ WaitReturns
          \/ WorkerStep
          \/ \E r \in Requests : NetworkDone(r)
       /\ TrackOverlap
    \/ Terminating

Spec == Init /\ [][Next]_vars

\* Both threads keep running, libcurl reports the end of every transfer that
\* ends, and nothing obliges the client to start or to destroy anything.
Fairness ==
    /\ WF_vars(SubmitStep("main") /\ TrackOverlap)
    /\ WF_vars(WaitReturns /\ TrackOverlap)
    /\ WF_vars(WorkerStep /\ TrackOverlap)
    /\ \A r \in Responsive : WF_vars(NetworkDone(r) /\ TrackOverlap)

FairSpec == Spec /\ Fairness

-----------------------------------------------------------------------------
(* Properties                                                              *)

TypeOK ==
    /\ pc \in [Threads -> MainPoints \cup WorkerPoints]
    /\ pc["main"] \in MainPoints
    /\ pc["worker"] \in WorkerPoints
    /\ cur \in [Threads -> Requests \cup {None}]
    /\ msg \in Requests \cup {None}
    /\ still \in BOOLEAN
    /\ multi \in [Requests -> {"out", "running", "lost", "ready", "done", "read"}]
    /\ coro \in [Requests -> {"idle", "awaiting", "refused", "answered"}]
    /\ tasks \in Nat
    /\ queued \in Nat
    /\ clash \subseteq Threads
    /\ failures \in 0 .. MaxFailures

\* A handle that is linked into the multi handle and whose callback is due.
Linked(r) == multi[r] \in {"running", "ready", "done"}

\* tasks_count_ is exact: it counts each job from before it is pushed until
\* the job's function has returned (threadpool.cpp:250, 353).
TasksExact ==
    tasks = queued + (IF pc["worker"] = "idle" THEN 0 ELSE 1)
                   + (IF pc["main"] = "pushing" THEN 1 ELSE 0)
                   + (IF pc["worker"] = "pushing" THEN 1 ELSE 0)

\* The worker is past curl_multi_perform in a pass of the job's loop.
InPass == {"polling", "reading", "handing", "resumed", "adding", "removing"}

\* Somebody will yet look at the linked handle r: a job that is queued or about
\* to be, or the running job, later in this pass or in its next one.
Served(r) ==
    \/ queued > 0
    \/ \E t \in Threads : pc[t] \in {"cleaning", "counting", "pushing"}
    \/ pc["worker"] = "performing"
    \/ pc["worker"] \in InPass /\ (still \/ multi[r] = "done")

LinkedServed == failures = 0 => \A r \in Requests : Linked(r) => Served(r)

\* ~Poller frees the multi handle right after wait() (poller.cpp:54-60): the
\* worker must have left the curl loop and no job may be queued, or the loop
\* would run on a freed multi handle.
ClosedAfterLoop ==
    pc["main"] = "closed" => pc["worker"] = "idle" /\ queued = 0

\* A job ends as soon as libcurl reports nothing in progress, and requests are
\* linked by another thread at any time.  Still, when no call fails, a linked
\* transfer is never left without a job that will find it: none is linked once
\* the worker is idle, no job is queued and the client is not between
\* curl_multi_add_handle and its own submit().
NoAbandonedTransfer ==
    (/\ failures = 0
     /\ pc["worker"] = "idle"
     /\ queued = 0
     /\ pc["main"] \notin Submitting)
    => \A r \in Requests : ~ Linked(r)

\* Where the easy handle of each awaiting coroutine is, and what the threads
\* hold in their hands.
Whereabouts ==
    /\ \A r \in Requests :
          /\ coro[r] = "idle" => multi[r] = "out"
          /\ coro[r] = "refused" => failures > 0
          /\ Linked(r) => coro[r] = "awaiting"
          /\ coro[r] = "awaiting" =>
                \/ Linked(r) \/ multi[r] = "lost"
                \/ multi[r] = "read" /\ msg = r /\ pc["worker"] = "handing"
                \/ \E t \in Threads : pc[t] = "adding" /\ cur[t] = r
    /\ \A t \in Threads :
          pc[t] = "adding" => /\ cur[t] \in Requests
                              /\ multi[cur[t]] = "out"
                              /\ coro[cur[t]] = "awaiting"
    /\ pc["main"] = "adding" /\ pc["worker"] = "adding" => cur["main"] # cur["worker"]
    /\ pc["worker"] \in {"handing", "resumed", "removing"} \cup Submitting =>
          /\ msg \in Requests
          /\ multi[msg] = "read"
          /\ coro[msg] = IF pc["worker"] = "handing" THEN "awaiting" ELSE "answered"

\* The inductive invariant behind the safety theorems of PollerProofs: what
\* the count counts, who will serve a linked handle, and which handle is whose.
IInv == TypeOK /\ TasksExact /\ LinkedServed /\ ClosedAfterLoop /\ Whereabouts

\* The curl loop refines the promise made to the coroutines: one answer for
\* each request, none after the client was closed, and a closed client with
\* no outstanding request unless something failed.
Service ==
    INSTANCE RequestService
    WITH phase <- [r \in Requests |->
                     IF coro[r] \in {"awaiting", "refused"} THEN "issued" ELSE coro[r]],
         open <- pc["main"] # "closed",
         faulty <- failures > 0 \/ \E r \in Requests : multi[r] = "lost"

ImplementsService == Service!ServiceSpec

\* The poller's own view of its pool is a use of what ThreadPool implements.
InPush(t) == IF pc[t] = "pushing" THEN 1 ELSE 0

Pool ==
    INSTANCE JobPool
    WITH promised <- InPush("main") + InPush("worker"),
         queued <- queued,
         busy <- IF pc["worker"] = "idle" THEN 0 ELSE 1,
         waiting <- pc["main"] = "waiting"

\* The multi handle is freed right after wait() (poller.cpp:54-60): wait()
\* returns only when the worker has left the curl loop and no job is queued or
\* about to be, although resumed coroutines submit jobs while it waits.
UsesPool == Pool!PoolSpec

\* A request whose transfer ends is answered, unless a libcurl call fails,
\* whatever the other requests of the same multi handle do: a server that
\* never answers delays nobody else.
ResponsiveAnswered ==
    \A r \in Responsive :
       coro[r] = "awaiting" ~> coro[r] = "answered" \/ failures > 0 \/ multi[r] = "lost"

\* ~Poller returns unless some transfer never ends, also when calls fail and
\* when resumed coroutines go on to start requests while it waits
\* (poller.cpp:55).
DestructorReturns ==
    pc["main"] = "waiting"
    ~> \/ pc["main"] = "closed"
       \/ \E r \in Requests \ Responsive : multi[r] = "running"

\* The comment on curl_multi_add_handle (poller.cpp:195-197): a multi handle
\* may be used "in one thread at a time, not simultaneously".
MultiUsedByOneThread == \E t \in Threads : pc[t] \notin CurlCalls

\* performRequest() still uses the request when it cleans it (poller.cpp:201):
\* the coroutine that owns it must not have been resumed by then, since the
\* frame the request lives in is gone when the coroutine ends.
RequestOutlivesPerform ==
    \A t \in Threads : pc[t] = "cleaning" => coro[cur[t]] = "awaiting"
=============================================================================
