# A TLA+ model of poller

poller is a C++ library of coroutines over two event loops: an HTTP client on
libcurl's multi interface (`modules/poller`) and an asynchronous I/O scheduler
on libuv (`modules/io`), with the concurrent containers and the thread pool
they need (`modules/std`). This directory holds TLA+ modules of its concurrent
parts, the TLC configurations that check them on small instances, and proofs
that TLAPS checks for every instance.

## The system

| part | state | operations | talks to |
|---|---|---|---|
| `Poller` (poller.cpp) | the libcurl multi handle, a pool with one worker | `requestAsync`, `performRequest`, the curl loop job, `wait`, `~Poller` | coroutines through `RequestAwaitable`; the pool through `submit` and `wait`; libcurl from two threads |
| `ThreadPool` (threadpool.cpp) | a queue per thread, `tasks_count_`, `stop_` | `submit` (function, task, graph), `run`, `execute`, `getTask`, `wait`, `~ThreadPool` | `Task` functions, which may submit again |
| `Task` graph (threadpool.cpp) | `remaining_predecessors_`, `cancellation_flags_`, `next_` | `Succeed`, `Precede`, `Cancel`, `Reset` | the workers, which count predecessors down |
| `WorkStealingDeque`, `Array` | `top_`, `bottom_`, `array_`, `garbage_` | `Push`, `Pop`, `Steal`, `Resize` | the owner and thieves of the pool |
| `HttpRequest`, `Handle`, `Payload` (request.cpp, handle.cpp, payload.cpp) | the easy handle, the header list, the buffers libcurl fills | construction, moves, `setHeader`, `bake`, `clean`, `free` | the coroutine that builds a request; `Poller`, which frees from two threads |
| `Task<T>`, `Task<void>`, `BlockingTask<T>` (task.cpp) | the promise in the coroutine frame | `then`, `get`, `detach`, moves, destructors, `final_suspend` | the client's thread and the worker that resumes the coroutine |
| `ResetEvent` (reset_event.cpp) | `m_state`: set, or the head of a list of awaiters | `co_await`, `set`, `reset` | coroutines, resumed inside `set()` |
| queues (queue.cpp) | ring buffers with indices, a mutex, condition variables, semaphores | `push`, `pop`, `try_push`, `try_pop` | `locking_queue` carries the jobs of `io::Scheduler` |
| `io::Scheduler` (schedulerbase.cpp, scheduler.cpp) | the job queue, the async handle, the loop thread | `schedule`, `asyncCallback`, `stop`, `~SchedulerBase` | libuv, which calls back on the loop thread |
| timer, fileio, filesystemwatch | a payload in the awaitable | `await_suspend`, the job, the callback | the scheduler and the coroutine |
| log, debug trace, `list`, examples | values and text | formatting; an unused container; programs that use the library | not modelled |

What is hard here is nearly all concurrency: calls on one multi handle from two
threads; three-step protocols (count, push, notify) that others observe half
done; lock-free races for the last item and for the head of a list; sleeping
and waking on one counter by two kinds of waiters; frames that one thread
destroys while another still has a pointer into them; easy handles, header
lists and frames that no destructor frees and several hands may; libuv's coalesced
wake-ups; destructors that wait while resumed coroutines start new work.
`PROJECT.json` lists each hazard at its line, with the properties that watch it
or the reason why none does.

## Modules

| module | models | implements |
|---|---|---|
| `Poller` | `performRequest()`, the curl loop, the destructor; libcurl's calls have a duration | `RequestService`: each request answered at most once, never after the close, and the close waits for all unless something failed; `JobPool`, as its user |
| `HttpExchange` | `Poller` with its memory: requests as they are built and moved, easy handles, header lists, payloads | `Poller` |
| `ThreadPool` | the pool and its task graph | `JobPool`: `wait()` returns only when nothing of what was submitted is left |
| `WorkStealingDeque` | the deque and its growing arrays | `TaskDeque`: push and pop at one end, steal at the other |
| `SpscQueue`, `LockingQueue`, `SemaphoreQueue` | the three ring buffers | `BoundedQueue`: first in, first out, bounded |
| `ResetEvent` | the event and its list of awaiters | `ManualResetEvent` |
| `CoroutineTask` | the task objects, their moves and ends, against the worker | |
| `IoScheduler` | the scheduler, its awaitables and the phases of `uv_run` | |
| `PollerProofs` | theorems about `Poller`, and about its memory in `HttpExchange` | |
| `ThreadPoolProofs`, `TaskGraphProofs` | theorems about the count of `ThreadPool`, and about its task graph | |
| `LockingQueueProofs`, `ResetEventProofs`, `CoroutineTaskProofs` | theorems about the modules they are named after | |
| `ContainersProofs`, `CoroutinesProofs` | theorems about what the runs `containers` and `coroutines` check, for any constants | |
| `MCPoller`, `MCHttpExchange`, `MCThreadPool` | instances for TLC | |
| `MCContainers`, `MCCoroutines` | several modules, or instances of one, for one run of TLC | |

A step of a model is one access to shared state (an atomic, a slot, a call on
the multi handle) or what a thread does under a mutex. Control points are named
in `pc` after what the thread is about to do; local variables of the code that
outlive a step are variables of the module. Operators whose comment begins with
"Mutant" are not part of the model: each is a plausible mistake that, put in
place of the definition after it, breaks a property.

How the modules fit together: `HttpExchange` takes each action of `Poller` that
touches memory and says what it does to it, so that every behaviour of it is one
of `Poller`'s. `Poller` sees its pool as a count and a number of queued jobs, as
`ThreadPool` keeps them. `JobPool` stands between the two: `ThreadPool`
implements it, and what `Poller` does with its one worker is allowed by it (both
proved). `ThreadPool`
sees a queue as a sequence with a two-step steal, which is what `TaskDeque`
promises of `WorkStealingDeque`; `IoScheduler` sees its queue as the sequence
`BoundedQueue`, which `LockingQueue` implements.

`MCContainers` and `MCCoroutines` choose in their initial state (`kind`,
`piece`) which of their modules or instances a behaviour is about; the others
rest. Nothing is composed there: a run simply covers
several questions of the same sort.

### Correspondence in the main modules

* `Poller`: `pc["main"]` is the client's thread, `pc["worker"]` the pool's.
  `multi[r]` follows the easy handle through the multi handle, `coro[r]` the
  coroutine. A thread is *inside* a libcurl call in the points `CurlCalls`; if
  the calls of two threads overlap (`clash`), what the overlapped
  `curl_multi_add_handle` leaves is any of `RaceOutcomes`. `failures` counts
  libcurl calls that return an error and requests that are not valid.
* `ThreadPool`: `tasks_count` is `tasks_count_`, on which both the idle
  workers and `wait()` block. `notify_one()` may wake either. The graph is built
  before the first `submit()` and stays: the initial state chooses it from
  `Graphs`. A graph says which tasks each task precedes, which tasks its function
  submits, which of them the client may cancel and reset, and how often the client
  submits the whole. `TotalPredecessors` is the number of `Succeed()` and
  `Precede()` calls that name a task, a cardinality and not a sum over a list, so
  that it can be reasoned about.
* `WorkStealingDeque`: items are the numbers of their pushes, so that an item
  received twice or lost is visible.
* `HttpExchange`: an easy handle and a header list are named by the request
  variable they were first made for, so that a move or an assignment carries a
  name from one `HttpRequest` to another and a second free is visible. `local`
  is what a coroutine still has, `passed` what its awaitable was given, `easyOf`
  what libcurl was given. `httpheader` is what the easy handle was told of the
  list, which is not what the `HttpRequest` holds.
* `ThreadPool` as a `JobPool`: a job is promised from the count to the push,
  queued, and busy while a thread executes it. The queues are seen as one.
* `CoroutineTask`: a coroutine and its frame `t` are one thing, an object `o`
  that refers to it (`handle[o]`) another, since moves and assignments part
  them. `alive[t]` says whether the frame exists; what a step reads in a frame
  that does not is arbitrary. A `Task<void>` has no object that refers to it.
* `IoScheduler`: `op[c]` is the libuv operation of a coroutine; `Poll` collects
  the callbacks that are due, `CloseHandles` and `EndTurn` end the turn.

## Runs

| run | what it asks | bounds |
|---|---|---|
| `poller` | the promise of `RequestService`, no abandoned transfer, no close under the loop, the pool used as `JobPool` allows, answers beside a stuck transfer, a destructor that returns | 2 coroutines of 2 requests, 1 failure, both outcomes of a race |
| `poller_race` (violated) | the multi handle is used by one thread at a time | 3 requests |
| `poller_dangling` (violated) | a request outlives `performRequest()` | 3 requests |
| `exchange` | no handle, payload or header list freed twice or under its holder; the handle and the payload of each performed request freed in the end | 3 requests, 1 failure |
| `exchange_headers` (violated) | the headers are there when the transfer sends them | the same |
| `pool` | `JobPool`, exact count, no lost wake-up, order and completeness of each round, both answers of `Cancel()` are true, progress | 2 workers; a diamond that submits a fifth task, 2 rounds; or two roots before a chain of three, one root cancelled, submitted once |
| `pool_cancel_again` (violated) | `Cancel()` keeps its word when the graph is submitted again | 1 worker, 2 rounds |
| `containers` | refinement of `BoundedQueue` and `TaskDeque`, no two threads at one slot, semaphores exact, no forgotten sleeper, the scheduler's loop never blocks in `pop()`, the assertions of `Pop()`, an empty `Pop()` is true | rings: 2 producers, 2 consumers, `Capacity` 4, 2 items; deque: 1 owner, 2 thieves, `FirstCapacity` 2, 4 pushes |
| `coroutines` | scheduler: payloads alive, jobs announced, `schedule()` blocks only with more coroutines than room, awaits end and the destructor returns unless the loop blocks itself; event: refinement of `ManualResetEvent`, no awaiter forgotten, all resumed; tasks: one owner per frame, a stored callback is called, `get()` returns | 2 coroutines with 2 awaits of any kind, a queue of 1 or 2; 3 coroutines with 3 calls; 2 task objects and one `Task<void>` |
| `task_then` (violated) | `then()` finds the frame | 1 `Task`, 1 `BlockingTask` |
| `task_get` (violated) | `get()` returns what the coroutine returned | the same |
| `io_stop` (violated) | the destructor works out the queued jobs | 2 coroutines, 1 await each |

The bounds are chosen so that the interesting cases happen: two handles linked
while a job is between its last `curl_multi_perform` and its end; a failing
call at each place; a request moved into another that already holds a handle and
a list; an array that is full, replaced and read by a late thief; a last item
that owner and thief race for; a ring that wraps around; an awaiter that comes
back to the list that releases it (which takes three calls: await, reset,
await); two jobs announced by one wake-up; a second await from the loop thread;
an object assigned to while its coroutine is at its end. `MaxAttempts` of the
pool is 0 instead of 100: a worker that finds nothing sleeps at once, which is
the hard case. `MaxPushes`, `MaxCalls`, `MaxSubmits`, `MaxAwaits` and
`MaxFailures` bound what would go on for ever. Three bounds are in the guards of
a module: one header list is made through each request variable, only the
client's own requests fail to be constructed, and `then()` is called once for
each coroutine. Each coroutine behind a task object awaits once.

`pool` asks its questions of both graphs in one run, since `graph` is a variable.
The graph with a cancelled root is submitted once there, because the second
submission breaks the property, which is what `pool_cancel_again` shows. The pool's
properties that a cancelled graph submitted again breaks are stated for graphs that
are submitted once or have no task to cancel (`Steady`). In
`containers` the locking queue is used in three ways, kept apart: with blocking
calls, as the scheduler uses it, and with `try_pop()` among producers that never
block (see hazard queue.cpp:103).

### What the violated runs show

* `poller_race`: `performRequest()` links the handle on the caller's thread
  while the worker is inside `curl_multi_perform` or `curl_multi_poll`, which
  the comment at poller.cpp:195-197 forbids.
* `poller_dangling`: the job of an earlier request finishes the new transfer
  and resumes its coroutine before `performRequest()` reaches
  `request.clean()`, which uses a request in that coroutine's frame.
* `task_then`: `ThenableAwaiter::await_suspend()` returns the negated flag. A
  coroutine that ends before `then()` destroys its frame; `then()` uses it.
* `exchange_headers`: `performRequest()` frees the header list once the handle
  is linked (poller.cpp:201), and libcurl keeps a pointer to it: the transfer,
  which the worker has yet to perform, sends headers from a freed list.
* `pool_cancel_again`: `execute()` leaves a cancelled task before it counts its
  successors down, and a count is restored only when its task starts. In the
  second round the other predecessor takes it to zero: a successor of a
  cancelled task runs, which threadpool.cpp:145-146 excludes.
* `task_get`: `get()` binds a reference to the value in the frame, destroys the
  frame by `detach()` and copies the value through the reference.
* `io_stop`: a loop that is between two turns when `stop()` drops the
  reference ends without another look at the queue.

Also met while modelling, with no line of documentation to hold them against:
`try_pop()` notifies the consumers instead of the producers (queue.cpp:103), and
two submitting threads outside the pool are two owners of queue 0
(threadpool.cpp:384). The template that submits a graph calls `Submit()`, which the
class does not have (threadpool.cpp:272), and cannot be instantiated as it stands;
the model takes the `submit( Task * )` that is meant, which a client can also call
for each root. A second `Cancel()` of a task that the worker has dropped because of
the first answers false, though the task was never invoked: the worker sets
`kInvoked` with the step that reads `kCancelled` (threadpool.cpp:330). `verdict`
therefore keeps all the answers since the last `Reset()`, and `CancelledOnce` takes
a false one at its word if it was the first. `then()` may store its callback after `final_suspend()` has looked for
one (task.cpp:147-149), and nobody calls it: `StoredIsCalled` is about callbacks that
were stored in time. The worker may call `notify_one()` on a condition variable
whose frame `get()` has destroyed meanwhile (task.cpp:226), which `GetReturns`
does not look at.

## Fairness

Every thread keeps running and a call that was made goes on: weak fairness of
each thread's steps. Functions return; `curl_multi_poll` ends on activity and on
its time-out; a transfer in `Responsive` ends, timers run out and the opening
of a file ends. Nothing obliges a client to start, cancel or destroy anything,
a watched file to change, or a transfer outside `Responsive` to end. The weak
compare-and-swap of `ResetEvent` does not fail for ever. Spurious wake-ups of
condition variables are allowed and not counted on; `std::atomic::wait` hides
its own.

## Proofs

Eight modules hold theorems that TLAPS checks for every value of the constants.
The induction is the same everywhere: an invariant `IInv` (or `MemInv`, `RInv`,
`SInv`, `LInv`, `DInv`, `TInv`) that adds to the property what its steps rely on;
a lemma for each action or each group of like actions; a theorem
`Spec => []IInv`; and one theorem for each property that follows. `IInv` of `Poller`
and `MemInv` are also invariants of the runs `poller` and `exchange`, so that both
have been seen to hold, and to be broken by a mutant, on an instance.

### Poller

For any set of requests, any chains of coroutines, any bound on failures and any
outcomes of overlapped calls, `PollerProofs` proves:

| theorem | statement |
|---|---|
| `Invariance` | `Spec => []IInv` |
| `TypeCorrect` | `Spec => []TypeOK` |
| `ClosesAfterLoop` | `Spec => []ClosedAfterLoop` |
| `NothingAbandoned` | `Spec => []NoAbandonedTransfer` |
| `Implements` | `Spec => ImplementsService`: the refinement of `RequestService` |
| `UsesItsPool` | `Spec => UsesPool`: what `Poller` does with its pool is what `JobPool` allows |

`IInv` adds that `tasks_count_` is exact (`TasksExact`), so that the zero that
`wait()` reads means an idle worker and an empty queue; that every linked handle
will be looked at by a job that is queued, about to be, or still in a pass that
can see it (`LinkedServed`), which holds because a handle is linked *before* its
job is submitted; and where the handle of each awaiting coroutine is
(`Whereabouts`), so that none is answered twice. The lemmas follow the program:
the start of a request, the rest of `performRequest()`, the curl loop, the client.
The refinement has a lemma for each of them, too, and `DrainedAnswered` shows that
a drained pool leaves nobody unanswered unless something failed. The only
assumption is `PollerAssumption`: chains of requests do not join, and a request
continued from the worker is not also a root.

`UsesItsPool` rests on `TasksExact` again: the zero of the count that lets
`wait()` return is the state of `JobPool` in which nothing is promised, queued or
busy.

### HttpExchange

For the same constants and any moves among requests, `PollerProofs` also proves:

| theorem | statement |
|---|---|
| `ExchangeRefinesPoller` | `ExchangeSpec => Spec`: all of the above holds with the memory, too |
| `MemInvariance` | `ExchangeSpec => []MemInv` |
| `MemoryIsSafe` | `ExchangeSpec => []MemorySafe` |
| `NothingLeaks` | `ExchangeSpec => []NothingLeaked` |

The argument is one of ownership. `MemorySafe` says that what is in use is alive
and in one hand; that survives a step only if what is *made* is new
(`NamesFresh`: the name of a variable yet to be assigned is unused) and if what a
thread is about to free is its own (`InHands`: of the two threads that may be in
`performRequest()` at once, each has another request, one that was awaited).
Where a handle is in its transfer comes from `IInv`. There is a lemma for each
step that touches memory, and `QuietMem` covers all others. `ExchangeAssumption`
adds that `None` is not an `HttpRequest`.

That nothing leaks is the other half: what a transfer was given comes out of use
only by being freed (`FreedAfterUse`), for which the worker must have one message
in its hands at a time (`OneMessage`: reading the next one would forget the
first). When `~Poller` has returned without failures, `LinkedServed` and
`Whereabouts` leave no transfer that could still be in use.

### ThreadPool

For any number of workers, any graph, any tasks that tasks submit and any bound
on rounds and attempts, `ThreadPoolProofs` proves:

| theorem | statement |
|---|---|
| `Invariance` | `Spec => []IInv` |
| `TypeCorrect` | `Spec => []ThreadsTyped` |
| `CountIsExact` | `Spec => []CountExact` |
| `NoWakeupLost` | `Spec => []NoLostWakeup` |
| `Refinement` | `Spec => ImplementsJobPool` |

`CountExact` is a sum of three cardinalities: of the places in the queues, of the
threads that execute and of the threads that push. It needs to know who has a task
in its hands (`TaskHeld`), and that a thief which has seen a task at the front of
its victim's queue finds one there, unless it was told otherwise (`AimTrue`).
`OneMore`, `OneLess` and the lemmas beside them say how a step changes the
cardinalities; most steps are `Quiet`, and change none. `QuietPool` makes of each
such step a stutter of `JobPool`, and the others are mapped where they are proved:
the zero that `wait()` reads is the state in which all three are empty. No property
of the graph is used here: the predecessors decide which tasks become ready, not
whether the count is right.

### The task graph

For any number of workers, any graphs, any tasks that tasks submit and any number of
rounds, `TaskGraphProofs` proves, on top of `ThreadPoolProofs`:

| theorem | statement |
|---|---|
| `GraphInvariance` | `Spec => []GraphInv` |
| `GraphTypeCorrect` | `Spec => []TypeOK`: among the rest, no count of predecessors underflows |
| `GraphOrdered` | `Spec => []RunAfterPredecessors` |
| `GraphCompleted` | `Spec => []RoundsComplete` |
| `CancelledHolds` | `Spec => []CancelledOnce` |

None of the four properties is inductive: that a task has not started says nothing
of why it will not start too early. The invariant follows the tasks.

* *Spots.* A task is found at a spot of a thread: what it submits, its next task, its
  task, or a place of its queue (`What`). No task is at two spots (`Unique`). Every
  step moves at most one task from one spot to another (`OneMoveMoves`), takes one
  off (`LosesOneRound`) or brings one in (`ArrivesRound`); the positions in a queue
  that shift when a thief takes the front are one more move (`TakeFrontMoves`).
* *Rounds.* `RoundInv(n)` is about the n-th submission of the graph. Every task has
  started, and ended, n - 1 or n times (`Counts`), which of them its spot tells
  (`Stages`). An edge of the graph is done when the predecessor has ended in this
  round and the thread that visits its successors is past it; the others are `Open`.
  A task has arrived when no edge to it is open, the client has submitted it if it
  is a root, and the task that submits it, if there is one, has done so
  (`Arrivals`). `remaining` is the number of open edges, until the task starts and
  the number is set anew (`Remains`).
* *The last predecessor.* Two threads that end predecessors of one task take one edge
  each off it; the `fetch_sub` that finds 1 is the one that leaves no edge open
  (`VisitSuccessorRound`), so that the task arrives once. It was nowhere before, since
  what waits or has started has arrived (`NotArrivedNowhere`).
* *The next round.* When `wait()` has found the count at zero, no task is at any spot
  (`ZeroNoneAnywhere`, by `CountExact`). A nonempty set of tasks that have not run
  would have one that no other task of it precedes or submits, which has then arrived
  and so waits or has run (`FirstOf`, `AllDone`): all have run n times. By the same
  argument none has begun round n + 1 while no root of it was submitted (`NoneBegun`),
  and `RoundInv(n)` is `RoundInv(n + 1)` there (`NextRound`).
* *Cancelling.* What `Cancel()` held back keeps its flag until `Reset()`
  (`Verdicts`); its successors are not reached, since an edge is done only when the
  predecessor has ended. The second half is where one round is needed:
  `RoundInv` is stated for graphs that are submitted once or not cancelled, and the
  run `pool_cancel_again` shows why. A first answer that is false found the flag of
  an invocation that nothing had cancelled (`Told`).

The assumptions are `ThreadPoolAssumption` (types) and `GraphsAssumption`. The second
says that nothing precedes itself, in the form that each nonempty set of tasks has one
that no other of it precedes or submits: a cycle would never run. It also says that
what a function submits is submitted at one place and is not a successor: submitting a
function makes a `Task` of its own (threadpool.cpp:231-233), and a `Task` that is
submitted twice at once would share one count and one set of flags.

### The rings and the deque

`LockingQueueProofs` is about `LockingQueue` alone, for any threads and calls;
`ContainersProofs` is about what the run `containers` checks. The second takes the
first by `INSTANCE`, once for each of the three ways in which the run uses the
queue, so that each is proved once and applied three times.

| theorem | statement |
|---|---|
| `RingInvariance`, `SlotsApart` | `ContainersSpec => []NoSlotRace` |
| `SemaphoreInvariance`, `SlotsAccountedFor` | `ContainersSpec => []SlotsExact` |
| `LockingInvariance`, `SleepersRemembered` | `ContainersSpec => []NoSleeperForgotten` |
| `LoopNeverSleeps` | `ContainersSpec => []DrainerNeverSleeps` |
| `QueuesAreQueues` | `ContainersSpec => QueuesImplemented`: three refinements of `BoundedQueue` |
| `DequeInvariance`, `AssertionsHold` | `ContainersSpec => []PopAssertions` |
| `ArraysInvariance`, `DequeIsDeque` | `ContainersSpec => ImplementsDeque` |
| `EmptyHanded` | `ContainersSpec => EmptyPopIsTrue` |
| `ContainersTypes` | `ContainersSpec => []ContainersTypeOK` |

* *A ring is a queue.* The content of a ring is a function of its head and its
  fill. `RingAppend` and `RingTake` say that a store behind the last item appends
  it and that a step of the head takes the first off, round the end of the array;
  `GoesRound` is the arithmetic of the remainder that they need. All three rings
  use these lemmas; no induction over the fill is needed, since a content is
  written down as a function of its places.
* *The lock-free ring.* `NoSlotRace` speaks only of the moment when both threads
  are at a slot. `RInv` says what each has learnt from the other's index and that
  it stays true: the producer that saw room has room until it publishes, the
  consumer that saw an item has it until it does, and what was written or read is
  in the slot until the index moves.
* *The semaphores.* `SlotsExact` accounts for each slot; `SInv` adds that the
  indices are as far apart as there are items, which is what the two counts say
  of them. Producers store, and consumers load, one at a time under the mutex.
* *Sleepers.* `locking_queue` notifies after it has let the mutex go, and a newcomer
  may take what a sleeper was woken for. That one thread is awake which will look or
  notify is not enough for the next step; `Attended` counts them: beside sleepers
  there is one such thread at least for each free slot, or each item. The hypothesis
  that blocking producers and `try_pop()` are not used on one queue is what
  queue.cpp:103 makes necessary (see "What the violated runs show").
* *The loop's `pop()`.* What a single consumer read of `is_empty()` goes on to hold
  until it has taken the item (`DrainInv`), for any number of producers.
* *The deque.* `DInv` bounds `top_` and `bottom_` by what the owner and each thief
  have read of them, with `bottom_` one too low between the owner's announcement of
  a `Pop()` and its end. What the assertions at workstealingdeque.cpp:74 and 106
  compare are such bounds.
* *The items of the deque.* `AInv` says what the arrays hold. The indices from
  `top_` to the end are less than a capacity apart (`ItemsKept`), so the mask gives
  each a slot of its own (`MaskApart`); a `Put()` behind them leaves them alone
  (`PutKeeps`), and a `Resize()` carries them over (`ResizeKeeps`). A thief that
  reads an old array, or a slot about to be overwritten, has the first item in its
  hands if `top_` has not moved (`ThiefSees`), and its compare-and-swap fails if it
  has: `top_` only grows. Likewise for the owner in the race for the last item
  (`RacerSees`). With this `PushPublish` is the `PushBack` of `TaskDeque`, the load of
  `top_` that finds the claimed item behind it and the race that is won are
  `PopBack`s, a `StealTake` that finds `top_` unmoved is a `StealFront`, and every
  other step leaves the content as it is.
* *An empty `Pop()`.* A `Pop()` that receives nothing has missed an empty deque or
  lost the race for the last item. That it cannot have *won* an item it had received
  before, which would look the same, is `ItemsOnce`; the promise of `TaskDeque` alone
  keeps it (`ItemsOnceKept`).

All of this is for one owner, as `Push()` and `Pop()` are written, and any set of
thieves. The assumptions are `SpscAssumption` and `Deque!DequeParameters` (capacities
are powers of two, as queue.cpp:18-19 and workstealingdeque.cpp:30 ask for; the proofs
use of the deque's only that it is not zero), and that there are
finitely many threads, the loop not among the producers (`ContainersAssumption`).

### Coroutines

`ResetEventProofs` and `CoroutineTaskProofs` are about `ResetEvent` and
`CoroutineTask` alone; `CoroutinesProofs` takes them by `INSTANCE`, and proves what
the run `coroutines` checks, with the lemmas about `IoScheduler`:

| theorem | statement |
|---|---|
| `SchedulerInvariance`, `PayloadsLive` | `Spec => []PayloadAlive` |
| `JobsAreAnnounced` | `Spec => []NoJobUnannounced` |
| `PushFindsRoom` | `Spec => []PushBlocksOnlyCrowded`, for finitely many coroutines |
| `WaitersRemembered` | `CoroutinesSpec => []NobodyForgotten` |
| `EventImplemented` | `CoroutinesSpec => ImplementsEvent` |
| `FramesHaveOneOwner` | `CoroutinesSpec => []FramesOwned` |
| `CoroutinesTyped` | `CoroutinesSpec => []CoroutinesTypeOK` |

* *The scheduler.* A suspended coroutine is in one place: in the hands of a thread
  about to push it, in the queue, or the subject of an operation of libuv; the client
  and the loop never have the same one in their hands (`ThreadsApart`), and the
  callbacks collected for this turn are of operations that are due (`BatchDue`). A job is announced from the moment it is in the queue
  (`JobsAnnounced`), until the loop starts to drain it; that libuv merges two
  announcements does no harm because the drain goes on until the queue is empty.
  `PushFindsRoom` is a matter of counting: the queue holds a coroutine once, and
  not the one that pushes, and none whose operation has been started
  (`JobsOfOthers`).
* *The event.* The awaiters in `m_state` and those that each `set()` has taken form
  lists through `next_`. `NoCycle` and `NobodyForgotten` say that the lists are
  apart, that each ends, and that each suspended coroutine is in one. A list is
  described without induction, as the least set that holds its head and is closed
  under `next_` (`ListOf`). A coroutine that awaits again while its old list is being
  released runs inside one `set()` (`ResumedInside`), which has read the `next_` that
  it overwrites.
* *The tasks.* Objects that refer to frames are matched one to one with frames that
  live (`OwnedOnce`) through constructions, moves, assignments, `detach()` and
  `get()`; the worker is at one coroutine at a time.

The assumptions, `SchedulerAssumption` and `CoroutinesAssumption`, are that the names
of the parts are apart and that the bounds are numbers.

### Only model-checked

All liveness, which rests on fairness and `ENABLED` and is out of the provers' reach:
`ResponsiveAnswered` and `DestructorReturns` of `Poller`, `GraphCompletes` and
`WaitReturns` of `ThreadPool`, and `AwaitEnds`, `DestructorReturns`, `SetResumes`,
`StoredIsCalled` and `GetReturns` in the run `coroutines`. Every invariant and every
action or refinement property of a passing run is also a theorem.

## Abstractions and limits

* Memory is sequentially consistent. The orders written in workstealingdeque.cpp
  and queue.cpp are not weakened, so that a missing fence would not be seen.
* Counters are integers; `top_`, `bottom_` and `attempts` are `int`s that
  overflow after 2^31 operations.
* libcurl and libuv are modelled from how they are used. libuv's turn is: poll,
  closing handles, timers, is anything alive (the order since version 1.45).
  `uv_async_send` on a handle that is not initialised is undefined: `early`
  records it, and nothing is claimed from there on.
* After a destroyed frame is used, or a freed header list read, the model goes on
  with arbitrary values for what is read, and does not follow further corruption.
* The client of the pool submits a graph as a whole, and again only after
  `wait()`.
* A coroutine that awaits on the loop thread while the scheduler's queue is full
  blocks the only consumer, for ever (`LoopBlocked`). The queue has room for 127
  jobs in the code, and for one or two in the instance, so that this happens in the
  run: `PushBlocksOnlyCrowded` says when it may, and the liveness of the scheduler is
  claimed up to it. No line of the code says what should happen then.
* Nothing is claimed of header lists that are never cleaned: an assignment forgets
  the list of the request it replaces, and a request that is not performed keeps
  its own.

Not modelled: the values that the option setters of `HttpRequest` pass to the
easy handle (each is a step that changes nothing here), `clone()`, which nothing
calls, the bytes that libcurl's callbacks append to a payload, which one thread
owns, the moves, `detach()` and `scheduleDestroy()` of `io::Task<void>`, which
nothing calls, `list`, which nothing uses, logging and the debug trace, which are
output only, and the examples, from which the models take what clients do.

## What could follow

Weaker memory orders for the two lock-free containers; a
liveness argument by hand for what only TLC checks, since the provers reach none.
