----------------------------- MODULE ThreadPool -----------------------------
(***************************************************************************)
(* pstd::ThreadPool and its Task graph (modules/std/threadpool.cpp).       *)
(* Thread 0 is the client's thread, threads 1 .. Workers are the pool's;   *)
(* each owns the queue of its index, pushes and pops at its back, and      *)
(* steals from the front of the others.  tasks_count_ counts submitted     *)
(* work and is also what everybody blocks on: an idle worker waits for it  *)
(* to leave 0, wait() waits for it to reach 0.                             *)
(*                                                                         *)
(* Every access to an atomic of the pool or of a Task is a step of its     *)
(* own.  A queue operation is atomic, except that a steal reads the front  *)
(* in one step and takes it in another, which fails when somebody took it  *)
(* in between: module WorkStealingDeque refines that view.                 *)
(***************************************************************************)
EXTENDS Integers, FiniteSets, SequencesExt

CONSTANTS Workers,      \* threads_count
          Tasks,
          Graphs,       \* what the client may build of them, see below
          None,         \* no task
          MaxAttempts   \* max_attempts of run(): 100 in the code

Threads == 0 .. Workers
QueuesCount == Workers + 1

\* A graph: Task::next_ in the order of the Precede() calls, the tasks that the
\* function of a task submits, those the client may Cancel() and Reset(), and a
\* bound on how often the client submits the graph.
ASSUME ThreadPoolAssumption ==
    /\ Workers \in Nat \ {0}
    /\ IsFiniteSet(Tasks) /\ None \notin Tasks
    /\ \A g \in Graphs :
          /\ g.successors \in [Tasks -> Seq(Tasks)] /\ g.spawns \in [Tasks -> Seq(Tasks)]
          /\ g.cancellable \subseteq Tasks /\ g.resettable \subseteq Tasks
          /\ g.rounds \in Nat
    /\ MaxAttempts \in Nat

\* Where the sequences of f name task k.
Positions(f, k) == UNION {{t} \X {i \in DOMAIN f[t] : f[t][i] = k} : t \in Tasks}

\* Succeed() and Precede() order the tasks: nothing precedes itself.  A task that
\* a function submits is outside that order, and submitted at one place: a Task
\* has one count and one set of flags, for one execution at a time.
ASSUME GraphsAssumption ==
    \A g \in Graphs :
       /\ \A k \in Tasks : \A x, y \in Positions(g.spawns, k) : x = y /\ Positions(g.successors, k) = {}
       /\ \A S \in (SUBSET Tasks) \ {{}} : \E k \in S :
             \A t \in S : k \notin Range(g.successors[t]) \cup Range(g.spawns[t])

VARIABLES pc,          \* control point of each thread
          queues,      \* front (steal end) to back (owner's end)
          aim,         \* the front the thief is about to take is still there
          victim,      \* j of getTask()
          attempts,    \* attempts of run()
          task,        \* task and next of execute()
          next,
          todo,        \* submissions or successors the thread has yet to visit
          sub,         \* the task being submitted
          tasks_count,
          expected,    \* the count wait() blocks on
          closing,     \* the client is in ~ThreadPool
          stop,
          graph,       \* the graph of the client's tasks, built before it is submitted
          remaining,   \* Task::remaining_predecessors_
          flags,       \* Task::cancellation_flags_
          batch,       \* roots submitted since the client last waited
          submits, started, ended,   \* history: per task, how often
          verdict      \* what Cancel() has answered, since the last Reset()

queueVars == <<queues, aim, victim>>
execVars == <<task, next, todo, sub>>
graphVars == <<graph, remaining, flags>>
countVars == <<tasks_count, expected, closing, stop>>
history == <<batch, submits, started, ended, verdict>>
vars == <<pc, attempts, queueVars, execVars, countVars, graphVars, history>>

Successors == graph.successors
Spawns == graph.spawns
Cancellable == graph.cancellable
Resettable == graph.resettable

Predecessors(t) == {p \in Tasks : \E i \in DOMAIN Successors[p] : Successors[p][i] = t}

\* Task::total_predecessors_: one for each Succeed() or Precede() call.
TotalPredecessors == [t \in Tasks |-> Cardinality(Positions(Successors, t))]

\* Task::is_root_: the client submits the tasks of its graph without predecessors.
Roots == {t \in Tasks : TotalPredecessors[t] = 0 /\ Positions(Spawns, t) = {}}

Init ==
    /\ pc = [t \in Threads |-> IF t = 0 THEN "idle" ELSE "loop"]
    /\ queues = [t \in Threads |-> <<>>]
    /\ aim = [t \in Threads |-> FALSE]
    /\ victim = [t \in Threads |-> 0]
    /\ attempts = [t \in Threads |-> 0]
    /\ task = [t \in Threads |-> None]
    /\ next = [t \in Threads |-> None]
    /\ todo = [t \in Threads |-> <<>>]
    /\ sub = [t \in Threads |-> None]
    /\ tasks_count = 0
    /\ expected = 0
    /\ closing = FALSE
    /\ stop = FALSE
    /\ graph \in Graphs
    /\ remaining = TotalPredecessors
    /\ flags = [t \in Tasks |-> {}]
    /\ batch = {}
    /\ submits = [t \in Tasks |-> 0]
    /\ started = [t \in Tasks |-> 0]
    /\ ended = [t \in Tasks |-> 0]
    /\ verdict = [t \in Tasks |-> {}]

Goto(t, p) == pc' = [pc EXCEPT ![t] = p]

-----------------------------------------------------------------------------
(* submit( Task * ): count, push to the caller's queue, notify one waiter. *)

\* Mutant: the task is pushed before it is counted.
PushFirst == [start |-> "pushing", pushing |-> "counting", counting |-> "notifying"]

SubmitOrder == [start |-> "counting", counting |-> "pushing", pushing |-> "notifying"]

\* Where submit() returns to: the client, a task's function, the successors.
Caller(t) ==
    IF task[t] = None THEN "idle" ELSE IF next[t] = None THEN "running" ELSE "releasing"

CountTask(t) ==
    /\ pc[t] = "counting"
    /\ tasks_count' = tasks_count + 1
    /\ Goto(t, SubmitOrder[pc[t]])
    /\ UNCHANGED <<attempts, queueVars, execVars, expected, closing, stop, graphVars, history>>

PushTask(t) ==
    /\ pc[t] = "pushing"
    /\ queues' = [queues EXCEPT ![t] = Append(@, sub[t])]
    /\ Goto(t, SubmitOrder[pc[t]])
    /\ UNCHANGED <<attempts, aim, victim, execVars, countVars, graphVars, history>>

\* Threads blocked in tasks_count_.wait().
Asleep == {t \in Threads : pc[t] = "asleep"}

\* Mutant: submit() wakes nobody.
NotifyNobody(t) ==
    /\ pc[t] = "notifying"
    /\ sub' = [sub EXCEPT ![t] = None]
    /\ Goto(t, Caller(t))
    /\ UNCHANGED <<attempts, queueVars, task, next, todo, countVars, graphVars, history>>

\* notify_one: any thread blocked on the count, the client in wait() included.
NotifyOne(t) ==
    /\ pc[t] = "notifying"
    /\ sub' = [sub EXCEPT ![t] = None]
    /\ \/ Asleep = {} /\ Goto(t, Caller(t))
       \/ \E u \in Asleep :
             pc' = [pc EXCEPT ![t] = Caller(t), ![u] = "woken"]
    /\ UNCHANGED <<attempts, queueVars, task, next, todo, countVars, graphVars, history>>

Submit(t) == CountTask(t) \/ PushTask(t) \/ NotifyOne(t)

-----------------------------------------------------------------------------
(* run() and getTask().                                                    *)

\* Mutant: the worker blocks without looking at the count.
MustSleep(t) == attempts'[t] > MaxAttempts

\* tasks_count_.wait( 0 ) blocks only while the count is zero.
Sleeps(t) == attempts'[t] > MaxAttempts /\ tasks_count = 0

\* One round of the worker's loop; attempts stays at its first value above
\* MaxAttempts, where the code goes on counting.
Loop(t) ==
    /\ pc[t] = "loop"
    /\ attempts' = [attempts EXCEPT ![t] = IF @ > MaxAttempts THEN @ ELSE @ + 1]
    /\ Goto(t, IF Sleeps(t) THEN "asleep" ELSE "popping")
    /\ UNCHANGED <<queueVars, execVars, countVars, graphVars, history>>

\* A notified thread looks at the count again, and blocks again if it has the
\* old value.
Recheck(t) ==
    /\ pc[t] = "woken"
    /\ Goto(t, IF tasks_count = (IF t = 0 THEN expected ELSE 0) THEN "asleep"
               ELSE IF t = 0 THEN "waiting" ELSE "popping")
    /\ UNCHANGED <<attempts, queueVars, execVars, countVars, graphVars, history>>

\* The thread has got task k from queue q.
Take(t, k) ==
    /\ task' = [task EXCEPT ![t] = k]
    /\ Goto(t, "starting")
    /\ UNCHANGED <<next, todo, sub>>

\* Whoever has looked at the front of queue q, by now gone, will fail.
LoseAim(q) ==
    aim' = [u \in Threads |-> aim[u] /\ (u + victim[u]) % QueuesCount # q]

PopOwn(t) ==
    /\ pc[t] = "popping"
    /\ IF queues[t] = <<>>
       THEN /\ victim' = [victim EXCEPT ![t] = 1]
            /\ Goto(t, "stealing")
            /\ UNCHANGED <<queues, aim, execVars>>
       ELSE /\ Take(t, Last(queues[t]))
            /\ queues' = [queues EXCEPT ![t] = Front(@)]
            /\ IF Len(queues[t]) = 1 THEN LoseAim(t) ELSE UNCHANGED aim
            /\ UNCHANGED victim
    /\ UNCHANGED <<attempts, countVars, graphVars, history>>

Victim(t) == (t + victim[t]) % QueuesCount

\* The steal from this victim has failed.
NextVictim(t) ==
    IF victim[t] = Workers
    THEN victim' = [victim EXCEPT ![t] = 0] /\ Goto(t, "missed")
    ELSE victim' = [victim EXCEPT ![t] = @ + 1] /\ Goto(t, "stealing")

LookAtFront(t) ==
    /\ pc[t] = "stealing"
    /\ IF queues[Victim(t)] = <<>>
       THEN NextVictim(t) /\ UNCHANGED aim
       ELSE /\ aim' = [aim EXCEPT ![t] = TRUE]
            /\ Goto(t, "taking")
            /\ UNCHANGED victim
    /\ UNCHANGED <<attempts, queues, execVars, countVars, graphVars, history>>

TakeFront(t) ==
    /\ pc[t] = "taking"
    /\ IF aim[t]
       THEN /\ Take(t, Head(queues[Victim(t)]))
            /\ queues' = [queues EXCEPT ![Victim(t)] = Tail(@)]
            /\ LoseAim(Victim(t))
            /\ victim' = [victim EXCEPT ![t] = 0]
       ELSE NextVictim(t) /\ UNCHANGED <<queues, aim, execVars>>
    /\ UNCHANGED <<attempts, countVars, graphVars, history>>

\* getTask() has returned nullptr.
Miss(t) ==
    /\ pc[t] = "missed"
    /\ Goto(t, IF t = 0 THEN "helping" ELSE IF stop THEN "gone" ELSE "loop")
    /\ UNCHANGED <<attempts, queueVars, execVars, countVars, graphVars, history>>

GetTask(t) == PopOwn(t) \/ LookAtFront(t) \/ TakeFront(t) \/ Miss(t)

-----------------------------------------------------------------------------
(* execute().                                                              *)

\* Mutant: the predecessors of the task are not counted anew.
StartStale(t) ==
    /\ pc[t] = "starting"
    /\ Goto(t, "invoking")
    /\ UNCHANGED <<attempts, queueVars, execVars, countVars, graphVars, history>>

Start(t) ==
    /\ pc[t] = "starting"
    /\ remaining' = [remaining EXCEPT ![task[t]] = TotalPredecessors[task[t]]]
    /\ Goto(t, "invoking")
    /\ UNCHANGED <<attempts, queueVars, execVars, countVars, graph, flags, history>>

\* The thread leaves execute()'s loop.
Leave(t) ==
    /\ Goto(t, "finishing")
    /\ task' = [task EXCEPT ![t] = None]
    /\ UNCHANGED <<next, todo, sub>>

\* Mutant: a cancelled task is invoked like any other.
NeverCancelled(t) == FALSE

IsCancelled(t) == "cancelled" \in flags[task[t]]

\* cancellation_flags_.fetch_or( kInvoked ), and the call of func_ unless the
\* task was cancelled.
Invoke(t) ==
    /\ pc[t] = "invoking"
    /\ flags' = [flags EXCEPT ![task[t]] = @ \cup {"invoked"}]
    /\ IF IsCancelled(t)
       THEN Leave(t) /\ UNCHANGED started
       ELSE /\ started' = [started EXCEPT ![task[t]] = @ + 1]
            /\ todo' = [todo EXCEPT ![t] = Spawns[task[t]]]
            /\ Goto(t, "running")
            /\ UNCHANGED <<task, next, sub>>
    /\ UNCHANGED <<attempts, queueVars, countVars, graph, remaining, batch, submits, ended, verdict>>

\* Mutant: tasks that a task submits or makes ready are pushed uncounted.
EnterPush(t, k) ==
    /\ sub' = [sub EXCEPT ![t] = k]
    /\ Goto(t, IF task[t] = None THEN SubmitOrder["start"] ELSE "pushing")

\* The thread enters submit() for task k.
EnterSubmit(t, k) ==
    /\ sub' = [sub EXCEPT ![t] = k]
    /\ Goto(t, SubmitOrder["start"])

FunctionSubmits(t) ==
    /\ pc[t] = "running"
    /\ todo[t] # <<>>
    /\ EnterSubmit(t, Head(todo[t]))
    /\ todo' = [todo EXCEPT ![t] = Tail(@)]
    /\ UNCHANGED <<attempts, queueVars, task, next, countVars, graphVars, history>>

FunctionReturns(t) ==
    /\ pc[t] = "running"
    /\ todo[t] = <<>>
    /\ ended' = [ended EXCEPT ![task[t]] = @ + 1]
    /\ todo' = [todo EXCEPT ![t] = Successors[task[t]]]
    /\ Goto(t, "visiting")
    /\ UNCHANGED <<attempts, queueVars, task, next, sub, countVars, graphVars,
                   batch, submits, started, verdict>>

\* Mutant: the first successor is taken without asking who else precedes it.
AnyPredecessor(s) == TRUE

\* fetch_sub( 1 ) == 1
LastPredecessor(s) == remaining[s] = 1

\* One successor gets one predecessor less.  The first that is then ready
\* becomes the thread's next task, those after it are submitted.
VisitSuccessor(t) ==
    /\ pc[t] \in {"visiting", "releasing"}
    /\ todo[t] # <<>>
    /\ LET s == Head(todo[t]) IN
       /\ remaining' = [remaining EXCEPT ![s] = @ - 1]
       /\ IF ~ LastPredecessor(s)
          THEN UNCHANGED <<pc, next, sub>>
          ELSE IF pc[t] = "visiting"
               THEN /\ next' = [next EXCEPT ![t] = s]
                    /\ Goto(t, "releasing")
                    /\ UNCHANGED sub
               ELSE EnterSubmit(t, s) /\ UNCHANGED next
    /\ todo' = [todo EXCEPT ![t] = Tail(@)]
    /\ UNCHANGED <<attempts, queueVars, task, countVars, graph, flags, history>>

\* The loop of execute() goes on with the next task, if there is one.
EndTask(t) ==
    /\ pc[t] \in {"visiting", "releasing"}
    /\ todo[t] = <<>>
    /\ IF next[t] = None
       THEN Leave(t)
       ELSE /\ task' = [task EXCEPT ![t] = next[t]]
            /\ next' = [next EXCEPT ![t] = None]
            /\ Goto(t, "starting")
            /\ UNCHANGED <<todo, sub>>
    /\ UNCHANGED <<attempts, queueVars, countVars, graphVars, history>>

\* execute() has returned, to run() or to wait( predicate ).
Executed(t) ==
    IF t = 0 THEN Goto(t, "helping") /\ UNCHANGED attempts
    ELSE Goto(t, "loop") /\ attempts' = [attempts EXCEPT ![t] = 0]

Finish(t) ==
    /\ pc[t] = "finishing"
    /\ tasks_count' = tasks_count - 1
    /\ IF tasks_count = 1 THEN Goto(t, "announcing") /\ UNCHANGED attempts ELSE Executed(t)
    /\ UNCHANGED <<queueVars, execVars, expected, closing, stop, graphVars, history>>

\* notify_all, by a thread that goes on at p.
NotifyAll(t, p) ==
    pc' = [u \in Threads |-> IF u = t THEN p ELSE IF u \in Asleep THEN "woken" ELSE pc[u]]

Announce(t) ==
    /\ pc[t] = "announcing"
    /\ NotifyAll(t, IF t = 0 THEN "helping" ELSE "loop")
    /\ attempts' = [attempts EXCEPT ![t] = 0]
    /\ UNCHANGED <<queueVars, execVars, countVars, graphVars, history>>

Execute(t) ==
    \/ Start(t) \/ Invoke(t) \/ FunctionSubmits(t) \/ FunctionReturns(t)
    \/ VisitSuccessor(t) \/ EndTask(t) \/ Finish(t) \/ Announce(t)

-----------------------------------------------------------------------------
(* The client's thread: submit(), Cancel(), Reset(), both wait()s and the  *)
(* destructor.  A graph is submitted as a whole, as submit( TasksType & )  *)
(* does, and again only after a wait().                                    *)

ClientSubmits(r) ==
    /\ pc[0] = "idle"
    /\ submits[r] < graph.rounds
    /\ r \notin batch
    /\ \A q \in Roots : submits[r] <= submits[q]
    /\ \A q \in batch : submits[q] = submits[r] + 1
    /\ batch' = batch \cup {r}
    /\ submits' = [submits EXCEPT ![r] = @ + 1]
    /\ EnterSubmit(0, r)
    /\ UNCHANGED <<attempts, queueVars, task, next, todo, countVars, graphVars,
                   started, ended, verdict>>

Cancel(k) ==
    /\ pc[0] = "idle"
    /\ flags' = [flags EXCEPT ![k] = @ \cup {"cancelled"}]
    /\ verdict' = [verdict EXCEPT ![k] = @ \cup {IF "invoked" \in flags[k] THEN "late" ELSE "held"}]
    /\ UNCHANGED <<pc, attempts, queueVars, execVars, countVars, graph, remaining,
                   batch, submits, started, ended>>

Reset(k) ==
    /\ pc[0] = "idle"
    /\ flags' = [flags EXCEPT ![k] = {}]
    /\ verdict' = [verdict EXCEPT ![k] = {}]
    /\ UNCHANGED <<pc, attempts, queueVars, execVars, countVars, graph, remaining,
                   batch, submits, started, ended>>

\* wait(), called by the client or by ~ThreadPool.
Wait ==
    /\ pc[0] = "idle"
    /\ closing' \in BOOLEAN
    /\ Goto(0, "waiting")
    /\ UNCHANGED <<attempts, queueVars, execVars, tasks_count, expected, stop, graphVars, history>>

LoadCount ==
    /\ pc[0] = "waiting"
    /\ expected' = tasks_count
    /\ IF tasks_count = 0
       THEN batch' = {} /\ Goto(0, IF closing THEN "stopping" ELSE "idle")
       ELSE Goto(0, "blocking") /\ UNCHANGED batch
    /\ UNCHANGED <<attempts, queueVars, execVars, tasks_count, closing, stop, graphVars,
                   submits, started, ended, verdict>>

Block ==
    /\ pc[0] = "blocking"
    /\ Goto(0, IF tasks_count = expected THEN "asleep" ELSE "waiting")
    /\ UNCHANGED <<attempts, queueVars, execVars, countVars, graphVars, history>>

\* wait( predicate ): the client executes tasks until its predicate holds.
WaitFor ==
    /\ pc[0] \in {"idle", "helping"}
    /\ Goto(0, "popping") \/ (pc[0] = "helping" /\ Goto(0, "idle"))
    /\ UNCHANGED <<attempts, queueVars, execVars, countVars, graphVars, history>>

SetStop ==
    /\ pc[0] = "stopping"
    /\ stop' = TRUE
    /\ Goto(0, "raising")
    /\ UNCHANGED <<attempts, queueVars, execVars, tasks_count, expected, closing, graphVars, history>>

\* Mutant: the destructor leaves the count at zero.
LeaveCount ==
    /\ pc[0] = "raising"
    /\ Goto(0, "rousing")
    /\ UNCHANGED <<attempts, queueVars, execVars, countVars, graphVars, history>>

\* The count leaves zero for good: no worker blocks any more.
RaiseCount ==
    /\ pc[0] = "raising"
    /\ tasks_count' = tasks_count + QueuesCount
    /\ Goto(0, "rousing")
    /\ UNCHANGED <<attempts, queueVars, execVars, expected, closing, stop, graphVars, history>>

Rouse ==
    /\ pc[0] = "rousing"
    /\ NotifyAll(0, "joining")
    /\ UNCHANGED <<attempts, queueVars, execVars, countVars, graphVars, history>>

Join ==
    /\ pc[0] = "joining"
    /\ \A t \in Threads \ {0} : pc[t] = "gone"
    /\ Goto(0, "joined")
    /\ UNCHANGED <<attempts, queueVars, execVars, countVars, graphVars, history>>

WaitStep == LoadCount \/ Block \/ SetStop \/ RaiseCount \/ Rouse \/ Join

Step(t) == Submit(t) \/ GetTask(t) \/ Recheck(t) \/ Execute(t)
WorkerStep(t) == Loop(t) \/ Step(t)
ClientStep == Step(0) \/ WaitStep

Terminating == pc[0] = "joined" /\ UNCHANGED vars

Next ==
    \/ \E t \in Threads \ {0} : WorkerStep(t)
    \/ ClientStep
    \/ \E r \in Roots : ClientSubmits(r)
    \/ \E k \in Cancellable : Cancel(k)
    \/ \E k \in Resettable : Reset(k)
    \/ Wait \/ WaitFor
    \/ Terminating

Spec == Init /\ [][Next]_vars

\* Every thread goes on running, functions return, and nothing obliges the
\* client to call anything.
Fairness ==
    /\ \A t \in Threads \ {0} : WF_vars(WorkerStep(t))
    /\ WF_vars(ClientStep)

FairSpec == Spec /\ Fairness

-----------------------------------------------------------------------------
(* Properties                                                              *)

Points == {"counting", "pushing", "notifying", "asleep", "woken", "popping", "stealing",
           "taking", "missed", "starting", "invoking", "running", "visiting",
           "releasing", "finishing", "announcing"}
ClientPoints == {"idle", "waiting", "blocking", "helping", "stopping", "raising",
                 "rousing", "joining", "joined"}
WorkerPoints == {"loop", "gone"}

ThreadsTyped ==
    /\ pc \in [Threads -> Points \cup ClientPoints \cup WorkerPoints]
    /\ pc[0] \notin WorkerPoints
    /\ \A t \in Threads \ {0} : pc[t] \notin ClientPoints
    /\ queues \in [Threads -> Seq(Tasks)]
    /\ aim \in [Threads -> BOOLEAN]
    /\ victim \in [Threads -> 0 .. Workers]
    /\ attempts \in [Threads -> 0 .. MaxAttempts + 1]
    /\ task \in [Threads -> Tasks \cup {None}]
    /\ next \in [Threads -> Tasks \cup {None}]
    /\ todo \in [Threads -> Seq(Tasks)]
    /\ sub \in [Threads -> Tasks \cup {None}]
    /\ tasks_count \in Nat /\ expected \in Nat
    /\ closing \in BOOLEAN /\ stop \in BOOLEAN

\* The client submits the graph once, or cancels none of its tasks.
Steady == Cancellable = {} \/ graph.rounds <= 1

GraphTyped ==
    /\ graph \in Graphs
    /\ remaining \in [Tasks -> Int]
    /\ Steady => \A t \in Tasks : remaining[t] \in 0 .. TotalPredecessors[t]
    /\ flags \in [Tasks -> SUBSET {"cancelled", "invoked"}]
    /\ batch \subseteq Roots
    /\ submits \in [Tasks -> 0 .. graph.rounds]
    /\ started \in [Tasks -> Nat] /\ ended \in [Tasks -> Nat]
    /\ verdict \in [Tasks -> SUBSET {"held", "late"}]

TypeOK == ThreadsTyped /\ GraphTyped

\* The thread is executing work it has taken and not yet discounted.
Busy(t) ==
    \/ pc[t] \in {"starting", "invoking", "running", "visiting", "releasing", "finishing"}
    \/ pc[t] \in {"counting", "pushing", "notifying"} /\ task[t] # None

\* The tasks in the queues.
Queued == Cardinality(UNION {{t} \X DOMAIN queues[t] : t \in Threads})

\* tasks_count_ is exact at every moment: it counts each submitted task, and
\* with it the successors that one executes in its place, from before the task
\* can be seen in a queue until its thread is done (threadpool.cpp:250, 353).
CountExact ==
    tasks_count = Queued
                  + Cardinality({t \in Threads : Busy(t)})
                  + Cardinality({t \in Threads : pc[t] = "pushing"})
                  + (IF pc[0] \in {"rousing", "joining", "joined"} THEN QueuesCount ELSE 0)

\* The pool implements JobPool: whatever thread takes a task, pushes its
\* successors or helps, wait() returns only when all that was submitted before
\* it, all that those tasks submitted and every successor they made ready is
\* done (threadpool.cpp:300).
Pool ==
    INSTANCE JobPool
    WITH promised <- Cardinality({t \in Threads : pc[t] = "pushing"}),
         queued <- Queued,
         busy <- Cardinality({t \in Threads : Busy(t)}),
         waiting <- pc[0] \in {"waiting", "blocking", "asleep", "woken"}

ImplementsJobPool == Pool!PoolSpec

\* After a wait(), each task of the graph has run exactly once for each time the
\* graph was submitted: the predecessors are counted anew each time
\* (threadpool.cpp:329).
RoundsComplete ==
    (Cancellable = {} /\ batch = {} /\ pc[0] = "idle")
    => \A n \in 0 .. graph.rounds :
          (\A r \in Roots : submits[r] = n) => \A k \in Tasks : ended[k] = n

\* A task of a graph starts at most as often as each of its predecessors has
\* ended: never before one of them, never twice for the same predecessors.
RunAfterPredecessors ==
    Steady => \A k \in Tasks : \A p \in Predecessors(k) : started[k] <= ended[p]

\* Whenever a queue holds a task, a worker is up or about to be woken: no
\* interleaving of the wait in run() (threadpool.cpp:316), the counts and the
\* notifications leaves the pool asleep over work.
NoLostWakeup ==
    (\E t \in Threads : queues[t] # <<>>)
    => \/ \E t \in Threads : pc[t] = "notifying"
       \/ \E t \in Threads \ {0} : pc[t] # "asleep"

\* The task is not invoked, nor is any of its successors.
NeverInvoked(k) == started[k] = 0 /\ \A s \in Tasks : k \in Predecessors(s) => started[s] = 0

\* Cancel() returning true means "not invoked before, nor ever after"
\* (threadpool.cpp:150-151), and "its successors also will not be invoked"
\* (threadpool.cpp:145-146), whatever the other predecessors do.
CancelHolds == \A k \in Tasks : "held" \in verdict[k] => NeverInvoked(k)

\* Both answers of Cancel() are true, whatever the worker does meanwhile.  A task
\* that was only ever called too late to cancel has been invoked; one that was
\* cancelled in time never is, nor is a successor of it, in a graph that is
\* submitted once (the counts of one that is submitted again have kept what the
\* other predecessors took off them the first time), if nobody clears its flags.
CancelledOnce ==
    \A k \in Tasks :
       /\ verdict[k] = {"late"} => started[k] > 0
       /\ graph.rounds <= 1 /\ k \notin Resettable /\ "held" \in verdict[k] => NeverInvoked(k)

\* A thread has a task from the moment it takes one to the end of execute(),
\* and what it submits while it submits; only the client submits without one.
TaskHeld ==
    \A t \in Threads :
       /\ pc[t] \in {"starting", "invoking", "running", "visiting", "releasing"} => task[t] # None
       /\ pc[t] \in {"counting", "pushing", "notifying"}
          => sub[t] # None /\ (t # 0 => task[t] # None)
       /\ pc[t] \in {"finishing", "announcing"} \cup ClientPoints \cup WorkerPoints
                  \cup {"asleep", "woken", "popping", "stealing", "taking", "missed"}
          => task[t] = None

\* A front that a thief has looked at and that nobody has taken is in its queue.
AimTrue == \A t \in Threads : aim[t] => pc[t] = "taking" /\ queues[Victim(t)] # <<>>

IInv == ThreadsTyped /\ TaskHeld /\ AimTrue /\ CountExact /\ NoLostWakeup

\* "Eventually, the function will be popped from the queue and executed"
\* (threadpool.cpp:219-222), and so will the successors of the whole graph.
Submitted == \A r \in Roots : submits[r] > 0
Completed == \A k \in Tasks : ended[k] > 0
GraphCompletes == (Cancellable = {} /\ Submitted) ~> Completed

\* wait() returns, and so does ~ThreadPool: no worker sleeps through the
\* destructor, and none leaves with work in a queue.
WaitReturns == pc[0] = "waiting" ~> pc[0] \in {"idle", "joined"}
=============================================================================
