-------------------------- MODULE CoroutinesProofs --------------------------
(***************************************************************************)
(* Proofs about what coroutines wait for.  Of io::Scheduler: the frames    *)
(* its jobs point into, the announcement of its jobs and the size of its   *)
(* queue, for any coroutines, any number of awaits and any room.  And of   *)
(* the three pieces together: what ResetEventProofs and CoroutineTaskProofs *)
(* show of any set of coroutines holds of the ones that are checked here.  *)
(***************************************************************************)
EXTENDS MCCoroutines, FiniteSetTheorems, FunctionTheorems, TLAPS

WaiterProofs == INSTANCE ResetEventProofs WITH pc <- epc, Coroutines <- Awaiting

ThenProofs ==
    INSTANCE CoroutineTaskProofs
    WITH co <- tco, Thenables <- TaskObjects, Blockings <- {}, Voids <- {Plain}

GetProofs ==
    INSTANCE CoroutineTaskProofs
    WITH co <- tco, Thenables <- {}, Blockings <- TaskObjects, Voids <- {Plain}

(***************************************************************************)
(* io::Scheduler.                                                          *)
(***************************************************************************)

\* The initial state satisfies the invariant.
LEMMA InitIInv == Init => IInv
  <1> SUFFICES ASSUME Init PROVE IInv
    OBVIOUS
  <1>1. jobs \in Seq(Coroutines) /\ Len(jobs) = 0 /\ DOMAIN jobs = {}
    BY DEF Init
  <1>2. TypeOK
    <2>1. pc \in [Threads -> {"idle", "running", "pushing", "sending", "stopping", "joining",
                           "closed", "starting", "phase", "draining", "finished"}]
      BY DEF Init, Threads
    <2>2. Len(jobs) <= room
      BY <1>1, SchedulerAssumption DEF Init
    <2>3. 0 \in 0 .. MaxAwaits
      BY SchedulerAssumption
    <2> QED BY <1>1, <2>1, <2>2, <2>3 DEF Init, TypeOK
  <1>3. ThreadsApart
    BY DEF Init, ThreadsApart, Threads
  <1>4. BatchDue /\ PayloadAlive /\ JobsAnnounced
    BY DEF Init, BatchDue, PayloadAlive, JobsAnnounced, Refers
  <1> QED BY <1>2, <1>3, <1>4 DEF IInv

\* A client starts a coroutine: it has no job and no operation yet.
LEMMA StartInv ==
  ASSUME IInv, NEW c \in Coroutines, StartCoroutine(c)
  PROVE  IInv'
  <1>1. TypeOK'
    BY DEF IInv, TypeOK, StartCoroutine, Goto, opVars, asyncVars
  <1>2. ThreadsApart'
    BY SchedulerAssumption
       DEF IInv, TypeOK, ThreadsApart, Refers, Threads, StartCoroutine, Goto, opVars
  <1>3. BatchDue'
    BY DEF IInv, BatchDue, StartCoroutine, opVars
  <1>4. PayloadAlive'
    BY DEF IInv, PayloadAlive, Refers, StartCoroutine, opVars
  <1>5. JobsAnnounced'
    BY DEF IInv, JobsAnnounced, StartCoroutine, Goto, asyncVars
  <1> QED BY <1>1, <1>2, <1>3, <1>4, <1>5 DEF IInv

\* The awaiting coroutine is suspended, and its frame with the payload stays where it is.
LEMMA AwaitInv ==
  ASSUME IInv, NEW t \in Threads, Await(t)
  PROVE  IInv'
  <1>1. TypeOK'
    BY SchedulerAssumption DEF IInv, TypeOK, ThreadsApart, Await, Goto, opVars, asyncVars
  <1>2. ThreadsApart'
    BY DEF IInv, TypeOK, ThreadsApart, PayloadAlive, Refers, Threads, Await, Goto, opVars
  <1>3. BatchDue'
    BY DEF IInv, BatchDue, Await, opVars
  <1>4. PayloadAlive'
    BY DEF IInv, PayloadAlive, Refers, Await, opVars
  <1>5. JobsAnnounced'
    BY DEF IInv, JobsAnnounced, Await, Goto, asyncVars
  <1> QED BY <1>1, <1>2, <1>3, <1>4, <1>5 DEF IInv

\* The job of a coroutine that is suspended and has no other goes to the end.
LEMMA PushInv ==
  ASSUME IInv, NEW t \in Threads, PushJob(t)
  PROVE  IInv'
  <1>1. TypeOK'
    BY SchedulerAssumption
       DEF IInv, TypeOK, ThreadsApart, PushJob, Pushed, Goto, coVars, opVars, asyncVars
  <1>2. ThreadsApart'
    BY DEF IInv, TypeOK, ThreadsApart, Refers, Threads, PushJob, Pushed, Goto, coVars, opVars
  <1>3. BatchDue'
    BY DEF IInv, BatchDue, PushJob, opVars
  <1>4. PayloadAlive'
    BY DEF IInv, ThreadsApart, PayloadAlive, Refers, PushJob, Pushed, coVars, opVars
  <1>5. JobsAnnounced'
    BY DEF IInv, TypeOK, JobsAnnounced, PushJob, Goto
  <1> QED BY <1>1, <1>2, <1>3, <1>4, <1>5 DEF IInv

\* The job was announced before the thread goes on.
LEMMA SendInv ==
  ASSUME IInv, NEW t \in Threads, Send(t)
  PROVE  IInv'
  <1>1. TypeOK'
    BY DEF IInv, TypeOK, Send, JobSignal, Signal, Caller, Goto, coVars, opVars
  <1>2. ThreadsApart'
    BY DEF IInv, ThreadsApart, Refers, Send, Caller, Goto, coVars, opVars
  <1>3. BatchDue'
    BY DEF IInv, BatchDue, Send, opVars
  <1>4. PayloadAlive'
    BY DEF IInv, PayloadAlive, Refers, Send, coVars, opVars
  <1>5. JobsAnnounced'
    BY DEF JobsAnnounced, Send, JobSignal, Signal
  <1> QED BY <1>1, <1>2, <1>3, <1>4, <1>5 DEF IInv

\* A coroutine that ends has no job and no operation.
LEMMA EndInv ==
  ASSUME IInv, NEW t \in Threads, End(t)
  PROVE  IInv'
  <1>1. TypeOK'
    BY DEF IInv, TypeOK, End, Caller, Goto, opVars, asyncVars
  <1>2. ThreadsApart'
    BY DEF IInv, TypeOK, ThreadsApart, Refers, Threads, End, Caller, Goto, opVars
  <1>3. BatchDue'
    BY DEF IInv, BatchDue, End, opVars
  <1>4. PayloadAlive'
    BY DEF IInv, ThreadsApart, PayloadAlive, Refers, End, opVars
  <1>5. JobsAnnounced'
    BY DEF IInv, JobsAnnounced, End, Goto, asyncVars
  <1> QED BY <1>1, <1>2, <1>3, <1>4, <1>5 DEF IInv

\* The loop starts with nothing to do.
LEMMA InitLoopInv ==
  ASSUME IInv, InitLoop
  PROVE  IInv'
  <1>1. TypeOK'
    BY DEF IInv, TypeOK, InitLoop, Goto, coVars, opVars
  <1>2. ThreadsApart'
    BY DEF IInv, ThreadsApart, Refers, InitLoop, Goto, coVars, opVars
  <1>3. BatchDue'
    BY DEF IInv, BatchDue, InitLoop, opVars
  <1>4. PayloadAlive'
    BY DEF IInv, PayloadAlive, Refers, InitLoop, coVars, opVars
  <1>5. JobsAnnounced'
    BY DEF IInv, JobsAnnounced, InitLoop, Goto
  <1> QED BY <1>1, <1>2, <1>3, <1>4, <1>5 DEF IInv

\* The loop goes on to the next phase only if it has nothing to announce.
LEMMA TurnInv ==
  ASSUME IInv, Turn
  PROVE  IInv'
  <1>1. TypeOK'
    BY DEF IInv, TypeOK, Turn, Enter, Goto, coVars, opVars, asyncVars
  <1>2. ThreadsApart'
    BY DEF IInv, TypeOK, ThreadsApart, Refers, Threads, Turn, InPhase, Enter, Goto, coVars,
           opVars
  <1>3. BatchDue'
    BY DEF IInv, BatchDue, Turn, opVars
  <1>4. PayloadAlive'
    BY DEF IInv, PayloadAlive, Refers, Turn, Enter, coVars, opVars
  <1>5. JobsAnnounced'
    BY DEF IInv, TypeOK, JobsAnnounced, Turn, InPhase, Enter, Goto, asyncVars
  <1> QED BY <1>1, <1>2, <1>3, <1>4, <1>5 DEF IInv

\* The operations that are due wait for their callbacks, in frames that exist.
LEMMA PollInv ==
  ASSUME IInv, Poll
  PROVE  IInv'
  <1>1. TypeOK'
    BY DEF IInv, TypeOK, Poll, Enter, Due, coVars, opVars, asyncVars
  <1>2. ThreadsApart'
    BY SchedulerAssumption
       DEF IInv, TypeOK, ThreadsApart, Refers, Poll, Enter, Due, coVars, opVars
  <1>3. BatchDue'
    BY SchedulerAssumption DEF BatchDue, Poll, Due, opVars
  <1>4. PayloadAlive'
    BY SchedulerAssumption DEF IInv, PayloadAlive, Refers, Poll, Enter, Due, coVars, opVars
  <1>5. JobsAnnounced'
    BY DEF IInv, JobsAnnounced, Poll, Enter, asyncVars
  <1> QED BY <1>1, <1>2, <1>3, <1>4, <1>5 DEF IInv

\* The loop drains the queue: every job that is in it is announced.
LEMMA AsyncInv ==
  ASSUME IInv, AsyncCallback
  PROVE  IInv'
  <1>1. TypeOK'
    BY DEF IInv, TypeOK, AsyncCallback, Goto, coVars, opVars
  <1>2. ThreadsApart'
    BY DEF IInv, ThreadsApart, Refers, AsyncCallback, InPhase, Goto, coVars, opVars
  <1>3. BatchDue'
    BY DEF IInv, BatchDue, AsyncCallback, opVars
  <1>4. PayloadAlive'
    BY DEF IInv, PayloadAlive, Refers, AsyncCallback, coVars, opVars
  <1>5. JobsAnnounced'
    BY DEF IInv, TypeOK, JobsAnnounced, Threads, AsyncCallback, Goto
  <1> QED BY <1>1, <1>2, <1>3, <1>4, <1>5 DEF IInv

\* A job that is taken out leaves the queue, and it was the only one of its
\* coroutine.
LEMMA RunJobInv ==
  ASSUME IInv, RunJob
  PROVE  IInv'
  <1>1. /\ jobs \in Seq(Coroutines) /\ Len(jobs) \in Nat \ {0}
        /\ Head(jobs) = jobs[1] /\ jobs[1] \in Coroutines
        /\ jobs' \in Seq(Coroutines) /\ Len(jobs') = Len(jobs) - 1
        /\ DOMAIN jobs = 1 .. Len(jobs) /\ DOMAIN jobs' = 1 .. Len(jobs')
        /\ \A i \in DOMAIN jobs' : jobs'[i] = jobs[i + 1]
    BY DEF IInv, TypeOK, RunJob
  <1>2. \A c \in Coroutines : (\E i \in DOMAIN jobs' : jobs'[i] = c) =>
           /\ \E i \in DOMAIN jobs : jobs[i] = c
           /\ c # Head(jobs)
    BY <1>1 DEF IInv, PayloadAlive
  <1>3. op[Head(jobs)] = "none" /\ co[Head(jobs)] = "suspended"
    BY <1>1 DEF IInv, PayloadAlive, Refers
  <1>4. TypeOK'
    <2>1. Len(jobs') <= room
      BY <1>1, SchedulerAssumption DEF IInv, TypeOK
    <2>2. op' \in [Coroutines -> {"none", "active", "due"}]
      BY DEF IInv, TypeOK, RunJob, SetOp
    <2>3. co' \in [Coroutines -> {"new", "running", "suspended", "refused", "ended"}]
      BY DEF IInv, TypeOK, RunJob
    <2> QED BY <1>1, <2>1, <2>2, <2>3 DEF IInv, TypeOK, RunJob, UntilEmpty, Goto, asyncVars
  <1>5. ThreadsApart'
    <2>1. /\ pc' \in [Threads -> {"idle", "running", "pushing", "sending", "stopping", "joining",
                          "closed", "starting", "phase", "draining", "finished"}]
          /\ pc["loop"] = "draining" /\ pc'["loop"] \in {"draining", "phase"}
          /\ pc'["client"] = pc["client"] /\ cur' = cur
      BY DEF IInv, TypeOK, Threads, RunJob, UntilEmpty, Goto
    <2>2. cur["loop"] = None
      BY <2>1 DEF IInv, ThreadsApart, Threads
    <2>3. pc["client"] \in {"running", "pushing"} =>
             /\ cur["client"] \in Coroutines
             /\ cur["client"] # Head(jobs)
             /\ pc["client"] = "running" => co'[cur["client"]] = co[cur["client"]]
             /\ pc["client"] = "pushing" => co'[cur["client"]] = co[cur["client"]] /\ ~ Refers(cur["client"])'
      BY <1>3 DEF IInv, TypeOK, ThreadsApart, Threads, Refers, RunJob, SetOp
    <2> QED BY <2>1, <2>3 DEF IInv, ThreadsApart, Threads
  <1>6. BatchDue'
    BY <1>3 DEF IInv, TypeOK, BatchDue, RunJob, SetOp
  <1>7. PayloadAlive'
    <2> SUFFICES ASSUME NEW c \in Coroutines
                 PROVE  /\ Refers(c)' => co'[c] = "suspended"
                        /\ \A i \in DOMAIN jobs' : jobs'[i] = c =>
                              op'[c] = "none" /\ \A j \in DOMAIN jobs' : jobs'[j] = c => i = j
      BY DEF PayloadAlive
    <2>1. CASE c = Head(jobs)
      <3>1. ~ \E i \in DOMAIN jobs' : jobs'[i] = c
        BY <1>2, <2>1
      <3>2. c \notin batch
        BY <1>3, <2>1 DEF IInv, BatchDue
      <3> QED BY <1>3, <2>1, <3>1, <3>2 DEF Refers, RunJob
    <2>2. CASE c # Head(jobs)
      <3>1. co'[c] = co[c] /\ op'[c] = op[c] /\ batch' = batch
        BY <2>2 DEF IInv, TypeOK, RunJob, SetOp
      <3>2. Refers(c)' => Refers(c)
        BY <1>2, <3>1 DEF Refers
      <3>3. \A i, j \in DOMAIN jobs' : jobs'[i] = c /\ jobs'[j] = c => i = j
        <4> SUFFICES ASSUME NEW i \in DOMAIN jobs', NEW j \in DOMAIN jobs', jobs'[i] = c, jobs'[j] = c
                     PROVE  i = j
          OBVIOUS
        <4>1. i + 1 \in DOMAIN jobs /\ j + 1 \in DOMAIN jobs /\ jobs[i + 1] = c /\ jobs[j + 1] = c
          BY <1>1
        <4>2. i + 1 = j + 1
          BY <4>1 DEF IInv, PayloadAlive
        <4> QED BY <1>1, <4>2
      <3>4. (\E i \in DOMAIN jobs' : jobs'[i] = c) => op[c] = "none"
        BY <1>2 DEF IInv, PayloadAlive
      <3> QED BY <3>1, <3>2, <3>3, <3>4 DEF IInv, PayloadAlive
    <2> QED BY <2>1, <2>2
  <1>8. JobsAnnounced'
    BY DEF JobsAnnounced, RunJob, UntilEmpty, Goto
  <1> QED BY <1>4, <1>5, <1>6, <1>7, <1>8 DEF IInv

\* The queue is empty when the loop leaves it.
LEMMA NoJobInv ==
  ASSUME IInv, NoJob
  PROVE  IInv'
  <1>1. TypeOK'
    BY DEF IInv, TypeOK, NoJob, Goto, coVars, opVars, asyncVars
  <1>2. ThreadsApart'
    BY DEF IInv, ThreadsApart, Refers, NoJob, Goto, coVars, opVars
  <1>3. BatchDue'
    BY DEF IInv, BatchDue, NoJob, opVars
  <1>4. PayloadAlive'
    BY DEF IInv, PayloadAlive, Refers, NoJob, coVars, opVars
  <1>5. JobsAnnounced'
    BY DEF JobsAnnounced, NoJob
  <1> QED BY <1>1, <1>2, <1>3, <1>4, <1>5 DEF IInv

\* An operation becomes due; its coroutine is suspended.
LEMMA HappensInv ==
  ASSUME IInv, NEW c \in Coroutines, Happens(c)
  PROVE  IInv'
  <1>1. TypeOK'
    BY DEF IInv, TypeOK, Happens, SetOp, coVars, asyncVars
  <1>2. ThreadsApart'
    BY DEF IInv, ThreadsApart, Refers, Happens, SetOp, coVars
  <1>3. BatchDue'
    BY DEF IInv, BatchDue, Happens, SetOp
  <1>4. PayloadAlive'
    BY DEF IInv, PayloadAlive, Refers, Happens, SetOp, coVars
  <1>5. JobsAnnounced'
    BY DEF IInv, JobsAnnounced, Happens, asyncVars
  <1> QED BY <1>1, <1>2, <1>3, <1>4, <1>5 DEF IInv

\* A callback resumes its coroutine, which nothing else refers to.
LEMMA CallbackInv ==
  ASSUME IInv, NEW c \in Coroutines, Callback(c)
  PROVE  IInv'
  <1>1. TypeOK'
    BY DEF IInv, TypeOK, Threads, Callback, SetOp, OpAfter, Goto, asyncVars
  <1>2. ThreadsApart'
    BY SchedulerAssumption
       DEF IInv, TypeOK, ThreadsApart, PayloadAlive, Refers, Threads, Callback, SetOp, Goto
  <1>3. BatchDue'
    BY DEF IInv, BatchDue, Callback, SetOp
  <1>4. PayloadAlive'
    BY DEF IInv, TypeOK, BatchDue, PayloadAlive, Refers, Callback, SetOp, OpAfter
  <1>5. JobsAnnounced'
    BY DEF IInv, JobsAnnounced, Callback, Goto, asyncVars
  <1> QED BY <1>1, <1>2, <1>3, <1>4, <1>5 DEF IInv

\* The loop closes a handle; no payload is about it.
LEMMA CloseInv ==
  ASSUME IInv, CloseHandles
  PROVE  IInv'
  <1>1. TypeOK'
    BY DEF IInv, TypeOK, CloseHandles, Enter, Due, coVars, asyncVars
  <1>2. ThreadsApart'
    BY DEF IInv, ThreadsApart, Refers, CloseHandles, Enter, Due, coVars
  <1>3. BatchDue'
    BY DEF BatchDue, CloseHandles, Due
  <1>4. PayloadAlive'
    BY DEF IInv, PayloadAlive, Refers, CloseHandles, Enter, Due, coVars
  <1>5. JobsAnnounced'
    BY DEF IInv, JobsAnnounced, CloseHandles, Enter, asyncVars
  <1> QED BY <1>1, <1>2, <1>3, <1>4, <1>5 DEF IInv

\* No callback of the turn is left.
LEMMA EndTurnInv ==
  ASSUME IInv, EndTurn
  PROVE  IInv'
  <1>1. TypeOK'
    BY DEF IInv, TypeOK, EndTurn, Enter, coVars, opVars, asyncVars
  <1>2. ThreadsApart'
    BY DEF IInv, ThreadsApart, Refers, EndTurn, Enter, coVars, opVars
  <1>3. BatchDue'
    BY DEF BatchDue, EndTurn
  <1>4. PayloadAlive'
    BY DEF IInv, PayloadAlive, Refers, EndTurn, Enter, coVars, opVars
  <1>5. JobsAnnounced'
    BY DEF IInv, JobsAnnounced, EndTurn, Enter, asyncVars
  <1> QED BY <1>1, <1>2, <1>3, <1>4, <1>5 DEF IInv

\* The stop signal lets go of the loop and of no job.
LEMMA UnrefInv ==
  ASSUME IInv, Unref
  PROVE  IInv'
  <1>1. TypeOK'
    BY DEF IInv, TypeOK, Unref, Goto, coVars, opVars
  <1>2. ThreadsApart'
    BY DEF IInv, ThreadsApart, Refers, Unref, Goto, coVars, opVars
  <1>3. BatchDue'
    BY DEF IInv, BatchDue, Unref, opVars
  <1>4. PayloadAlive'
    BY DEF IInv, PayloadAlive, Refers, Unref, coVars, opVars
  <1>5. JobsAnnounced'
    BY DEF IInv, TypeOK, JobsAnnounced, Unref, Goto
  <1> QED BY <1>1, <1>2, <1>3, <1>4, <1>5 DEF IInv

\* The stop signal announces the jobs that are there, too.
LEMMA StopSendInv ==
  ASSUME IInv, StopSend
  PROVE  IInv'
  <1>1. TypeOK'
    BY DEF IInv, TypeOK, StopSend, StopSignal, Signal, Goto, coVars, opVars
  <1>2. ThreadsApart'
    BY DEF IInv, ThreadsApart, Refers, StopSend, Goto, coVars, opVars
  <1>3. BatchDue'
    BY DEF IInv, BatchDue, StopSend, opVars
  <1>4. PayloadAlive'
    BY DEF IInv, PayloadAlive, Refers, StopSend, coVars, opVars
  <1>5. JobsAnnounced'
    BY DEF JobsAnnounced, StopSend, StopSignal, Signal
  <1> QED BY <1>1, <1>2, <1>3, <1>4, <1>5 DEF IInv

\* The destructor waits for the loop.
LEMMA JoinInv ==
  ASSUME IInv, Join
  PROVE  IInv'
  <1>1. TypeOK'
    BY DEF IInv, TypeOK, Join, Goto, coVars, opVars, asyncVars
  <1>2. ThreadsApart'
    BY DEF IInv, ThreadsApart, Threads, Join, Goto
  <1>3. BatchDue'
    BY DEF IInv, BatchDue, Join, opVars
  <1>4. PayloadAlive'
    BY DEF IInv, PayloadAlive, Refers, Join, coVars, opVars
  <1>5. JobsAnnounced'
    BY DEF IInv, JobsAnnounced, Join, Goto, asyncVars
  <1> QED BY <1>1, <1>2, <1>3, <1>4, <1>5 DEF IInv

\* Every step of the scheduler keeps the invariant.
LEMMA NextIInv == IInv /\ [Next]_vars => IInv'
  <1> SUFFICES ASSUME IInv, [Next]_vars
               PROVE  IInv'
    OBVIOUS
  <1>1. ASSUME NEW t \in Threads, CoroutineStep(t)
        PROVE  IInv'
    BY <1>1, AwaitInv, PushInv, SendInv, EndInv DEF CoroutineStep
  <1>2. CASE \E c \in Coroutines : StartCoroutine(c) \/ Happens(c)
    BY <1>2, StartInv, HappensInv
  <1>3. CASE LoopStep
    BY <1>1, <1>3, InitLoopInv, TurnInv, PollInv, AsyncInv, RunJobInv, NoJobInv, CallbackInv,
       CloseInv, EndTurnInv
       DEF LoopStep, Threads
  <1>4. CASE ClientStep
    BY <1>1, <1>4, StopSendInv, JoinInv DEF ClientStep, Threads
  <1>5. CASE Unref
    BY <1>5, UnrefInv
  <1>6. CASE UNCHANGED vars
    BY <1>6
       DEF vars, asyncVars, opVars, coVars, IInv, TypeOK, ThreadsApart, BatchDue, PayloadAlive,
           JobsAnnounced, Refers
  <1> QED BY <1>2, <1>3, <1>4, <1>5, <1>6 DEF Next, Stopped

\* The queue holds one job at most of a coroutine whose operation has not been
\* started, and none of the one that is about to push.
LEMMA JobsOfOthers ==
  ASSUME IInv, IsFiniteSet(Coroutines), NEW t \in Threads, pc[t] = "pushing"
  PROVE  Len(jobs) < Cardinality(Unstarted)
  <1> DEFINE others == Unstarted \ {cur[t]}
  <1>1. cur[t] \in Unstarted /\ Len(jobs) \in Nat /\ jobs \in Seq(Coroutines)
    BY DEF IInv, TypeOK, ThreadsApart, Refers, Unstarted
  <1>2. \A i \in 1 .. Len(jobs) : jobs[i] \in others
    BY <1>1 DEF IInv, ThreadsApart, PayloadAlive, Refers, Unstarted
  <1>3. \A i, j \in 1 .. Len(jobs) : jobs[i] = jobs[j] => i = j
    BY <1>1 DEF IInv, PayloadAlive
  <1>4. IsFiniteSet(Unstarted)
    BY FS_Subset DEF Unstarted
  <1>5. IsFiniteSet(others) /\ Cardinality(others) = Cardinality(Unstarted) - 1
    BY <1>1, <1>4, FS_RemoveElement
  <1> DEFINE whose == [i \in 1 .. Len(jobs) |-> jobs[i]]
  <1>6. whose \in Injection(1 .. Len(jobs), others)
    BY <1>2, <1>3 DEF Injection, IsInjective
  <1> HIDE DEF whose, others
  <1>7. Cardinality(1 .. Len(jobs)) <= Cardinality(others)
    BY <1>5, <1>6, FS_Injection
  <1>8. Cardinality(1 .. Len(jobs)) = Len(jobs)
    <2>1. Len(jobs) \in Nat /\ 1 \in Int
      BY <1>1
    <2>2. Cardinality(1 .. Len(jobs)) = IF 1 > Len(jobs) THEN 0 ELSE Len(jobs) - 1 + 1
      BY <2>1, FS_Interval
    <2> QED BY <2>1, <2>2
  <1>9. Cardinality(Unstarted) \in Nat
    BY <1>4, FS_CardinalityType
  <1> QED BY <1>1, <1>5, <1>7, <1>8, <1>9

(***************************************************************************)
(* ResetEvent.                                                             *)
(***************************************************************************)

LEMMA WaitersParameters == WaiterProofs!EventParameters
BY CoroutinesAssumption DEF WaiterProofs!EventParameters, Event!EventParameters,
   WaiterProofs!Awaiters, Event!Awaiters

\* The instances speak of the same steps and of the same lists.
LEMMA EventSteps == Event!Next => WaiterProofs!Next
BY DEF
   Event!Next, Event!Step, Event!Await, Event!LoadState, Event!FindSet, Event!Enqueue,
   Event!Retry, Event!Set, Event!ResumeWaiter, Event!SetReturns, Event!Reset, Event!End,
   Event!Idle, Event!Call, Event!Goto, Event!HandBack, Event!Onward, Event!Unmoved,
   Event!Cleared, Event!vars, WaiterProofs!Next, WaiterProofs!Step, WaiterProofs!Await,
   WaiterProofs!LoadState, WaiterProofs!FindSet, WaiterProofs!Enqueue, WaiterProofs!Retry,
   WaiterProofs!Set, WaiterProofs!ResumeWaiter, WaiterProofs!SetReturns, WaiterProofs!Reset,
   WaiterProofs!End, WaiterProofs!Idle, WaiterProofs!Call, WaiterProofs!Goto,
   WaiterProofs!HandBack, WaiterProofs!Onward, WaiterProofs!Unmoved, WaiterProofs!Cleared,
   WaiterProofs!vars

LEMMA SameLists ==
    /\ Event!Waiting = WaiterProofs!Waiting /\ Event!Released = WaiterProofs!Released
    /\ \A c : Event!Rest(c) = WaiterProofs!Rest(c)
BY DEF
   Event!Waiting, Event!Released, Event!Rest, Event!Ahead, Event!List, Event!ListOf, Event!Holds,
   WaiterProofs!Waiting, WaiterProofs!Released, WaiterProofs!Rest, WaiterProofs!Ahead,
   WaiterProofs!List, WaiterProofs!ListOf, WaiterProofs!Holds

LEMMA SameListsNext ==
    Event!Waiting' = WaiterProofs!Waiting' /\ Event!Released' = WaiterProofs!Released'
BY DEF
   Event!Waiting, Event!Released, Event!Rest, Event!Ahead, Event!List, Event!ListOf, Event!Holds,
   WaiterProofs!Waiting, WaiterProofs!Released, WaiterProofs!Rest, WaiterProofs!Ahead,
   WaiterProofs!List, WaiterProofs!ListOf, WaiterProofs!Holds

LEMMA EventKept ==
    ASSUME WaiterProofs!IInv, [CoroutinesNext]_all
    PROVE  /\ WaiterProofs!IInv'
           /\ [WaiterProofs!Event!EventNext]_(WaiterProofs!Event!eventVars)
<1>1. [WaiterProofs!Next]_(WaiterProofs!vars)
  <2>1. Event!Next \/ UNCHANGED eventVars
    BY DEF CoroutinesNext, all
  <2>2. UNCHANGED eventVars => UNCHANGED WaiterProofs!vars
    BY DEF eventVars, WaiterProofs!vars
  <2> QED
    BY <2>1, <2>2, EventSteps
<1> QED
  BY <1>1, WaitersParameters, WaiterProofs!NextIInv

LEMMA EventBegins ==
    ASSUME CoroutinesInit
    PROVE  WaiterProofs!IInv /\ WaiterProofs!Event!EventInit
<1>1. WaiterProofs!Init
  BY DEF CoroutinesInit, Event!Init, WaiterProofs!Init
<1> QED
  BY <1>1, WaitersParameters, WaiterProofs!InitIInv

(***************************************************************************)
(* The tasks.                                                              *)
(***************************************************************************)

LEMMA TasksParameters == ThenProofs!TaskParameters /\ GetProofs!TaskParameters
BY CoroutinesAssumption DEF ThenProofs!TaskParameters, Thens!TaskParameters,
   GetProofs!TaskParameters, Gets!TaskParameters

LEMMA ThenSteps == Thens!Next => ThenProofs!Next
BY DEF
   Thens!Next, Thens!WorkerStep, Thens!ResumeCoroutine, Thens!WorkerFree, Thens!Return,
   Thens!LookForCallback, Thens!CallCallback, Thens!Suspends, Thens!DecideSuspend, Thens!End,
   Thens!SetReady, Thens!Notified, Thens!Notify, Thens!Suspend, Thens!Done, Thens!Holds,
   Thens!ThenLooks, Thens!ThenStores, Thens!DestroyAndForget, Thens!ThenCalls, Thens!Get,
   Thens!CheckReady, Thens!WakeUp, Thens!DetachFrame, Thens!GetReturn, Thens!LeftIn,
   Thens!MoveTo, Thens!Detach, Thens!DropTask, Thens!ClientStep, Thens!ClientCall,
   Thens!Finished, Thens!CoGoto, Thens!ClientGoto, Thens!Destroy, Thens!Tasks, Thens!Frames,
   Thens!promise, Thens!object, Thens!vars, ThenProofs!Next, ThenProofs!WorkerStep,
   ThenProofs!ResumeCoroutine, ThenProofs!WorkerFree, ThenProofs!Return,
   ThenProofs!LookForCallback, ThenProofs!CallCallback, ThenProofs!Suspends,
   ThenProofs!DecideSuspend, ThenProofs!End, ThenProofs!SetReady, ThenProofs!Notified,
   ThenProofs!Notify, ThenProofs!Suspend, ThenProofs!Done, ThenProofs!Holds,
   ThenProofs!ThenLooks, ThenProofs!ThenStores, ThenProofs!DestroyAndForget,
   ThenProofs!ThenCalls, ThenProofs!Get, ThenProofs!CheckReady, ThenProofs!WakeUp,
   ThenProofs!DetachFrame, ThenProofs!GetReturn, ThenProofs!LeftIn, ThenProofs!MoveTo,
   ThenProofs!Detach, ThenProofs!DropTask, ThenProofs!ClientStep, ThenProofs!ClientCall,
   ThenProofs!Finished, ThenProofs!CoGoto, ThenProofs!ClientGoto, ThenProofs!Destroy,
   ThenProofs!Tasks, ThenProofs!Frames, ThenProofs!promise, ThenProofs!object, ThenProofs!vars

LEMMA GetSteps == Gets!Next => GetProofs!Next
BY DEF
   Gets!Next, Gets!WorkerStep, Gets!ResumeCoroutine, Gets!WorkerFree, Gets!Return,
   Gets!LookForCallback, Gets!CallCallback, Gets!Suspends, Gets!DecideSuspend, Gets!End,
   Gets!SetReady, Gets!Notified, Gets!Notify, Gets!Suspend, Gets!Done, Gets!Holds,
   Gets!ThenLooks, Gets!ThenStores, Gets!DestroyAndForget, Gets!ThenCalls, Gets!Get,
   Gets!CheckReady, Gets!WakeUp, Gets!DetachFrame, Gets!GetReturn, Gets!LeftIn, Gets!MoveTo,
   Gets!Detach, Gets!DropTask, Gets!ClientStep, Gets!ClientCall, Gets!Finished, Gets!CoGoto,
   Gets!ClientGoto, Gets!Destroy, Gets!Tasks, Gets!Frames, Gets!promise, Gets!object, Gets!vars,
   GetProofs!Next, GetProofs!WorkerStep, GetProofs!ResumeCoroutine, GetProofs!WorkerFree,
   GetProofs!Return, GetProofs!LookForCallback, GetProofs!CallCallback, GetProofs!Suspends,
   GetProofs!DecideSuspend, GetProofs!End, GetProofs!SetReady, GetProofs!Notified,
   GetProofs!Notify, GetProofs!Suspend, GetProofs!Done, GetProofs!Holds, GetProofs!ThenLooks,
   GetProofs!ThenStores, GetProofs!DestroyAndForget, GetProofs!ThenCalls, GetProofs!Get,
   GetProofs!CheckReady, GetProofs!WakeUp, GetProofs!DetachFrame, GetProofs!GetReturn,
   GetProofs!LeftIn, GetProofs!MoveTo, GetProofs!Detach, GetProofs!DropTask,
   GetProofs!ClientStep, GetProofs!ClientCall, GetProofs!Finished, GetProofs!CoGoto,
   GetProofs!ClientGoto, GetProofs!Destroy, GetProofs!Tasks, GetProofs!Frames, GetProofs!promise,
   GetProofs!object, GetProofs!vars

\* What is proved of tasks holds of the kind that the behaviour is about.
TInv == IF piece = "then" THEN ThenProofs!IInv ELSE GetProofs!IInv

LEMMA InitTInv == CoroutinesInit => TInv
<1> SUFFICES ASSUME CoroutinesInit
             PROVE  TInv
  OBVIOUS
<1>1. ThenProofs!Init /\ GetProofs!Init
  BY DEF CoroutinesInit, Thens!Init, ThenProofs!Init, GetProofs!Init, Thens!Tasks,
     ThenProofs!Tasks, GetProofs!Tasks, Thens!Frames, ThenProofs!Frames, GetProofs!Frames
<1> QED
  BY <1>1, TasksParameters, ThenProofs!InitIInv, GetProofs!InitIInv DEF TInv

LEMMA NextTInv == TInv /\ [CoroutinesNext]_all => TInv'
<1> SUFFICES ASSUME TInv, [CoroutinesNext]_all
             PROVE  TInv'
  OBVIOUS
<1>1. /\ piece' = piece
      /\ piece = "then" => [ThenProofs!Next]_(ThenProofs!vars)
      /\ piece # "then" => [GetProofs!Next]_(GetProofs!vars)
  <2>1. UNCHANGED taskVars => UNCHANGED ThenProofs!vars /\ UNCHANGED GetProofs!vars
    BY DEF taskVars, ThenProofs!vars, ThenProofs!object, ThenProofs!promise, GetProofs!vars,
       GetProofs!object, GetProofs!promise
  <2>2. /\ piece' = piece
        /\ \/ piece = "then" /\ Thens!Next
           \/ piece = "get" /\ Gets!Next
           \/ UNCHANGED taskVars
    BY DEF CoroutinesNext, all
  <2> QED
    BY <2>1, <2>2, ThenSteps, GetSteps
<1> QED
  BY <1>1, TasksParameters, ThenProofs!NextIInv, GetProofs!NextIInv DEF TInv

(***************************************************************************)
(* The theorems.                                                           *)
(***************************************************************************)

\* IInv is an invariant of the scheduler.
THEOREM SchedulerInvariance == Spec => []IInv
  <1> QED BY InitIInv, NextIInv, PTL DEF Spec

\* As long as a job or an operation holds a pointer into a coroutine's frame,
\* the coroutine is suspended where it made it (timer.cpp:64).
THEOREM PayloadsLive == Spec => []PayloadAlive
  <1>1. IInv => PayloadAlive
    BY DEF IInv
  <1> QED BY <1>1, SchedulerInvariance, PTL

\* The loop never sleeps on a job that nobody has announced or is about to
\* (schedulerbase.cpp:73).
THEOREM JobsAreAnnounced == Spec => []NoJobUnannounced
  <1>1. IInv => NoJobUnannounced
    BY DEF IInv, JobsAnnounced, NoJobUnannounced, InPhase
  <1> QED BY <1>1, SchedulerInvariance, PTL

\* Whatever the room, push() blocks only when more coroutines than that wait for
\* their operations to be started: with fewer, the loop's thread, which alone
\* makes room, never stops over a push() of its own (scheduler.cpp:50).
THEOREM PushFindsRoom ==
  ASSUME IsFiniteSet(Coroutines)
  PROVE  Spec => []PushBlocksOnlyCrowded
  <1>1. IInv => PushBlocksOnlyCrowded
    BY JobsOfOthers DEF PushBlocksOnlyCrowded
  <1> QED BY <1>1, SchedulerInvariance, PTL

\* A waiting coroutine is in the event's list or in that of one set() under way,
\* once: ResetEvent neither forgets a coroutine nor resumes it twice.
THEOREM WaitersRemembered == CoroutinesSpec => []NobodyForgotten
<1>1. CoroutinesInit => WaiterProofs!IInv
  BY EventBegins
<1>2. WaiterProofs!IInv /\ [CoroutinesNext]_all => WaiterProofs!IInv'
  BY EventKept
<1>3. WaiterProofs!IInv => NobodyForgotten
  BY SameLists DEF WaiterProofs!IInv, WaiterProofs!NobodyForgotten, NobodyForgotten,
     Event!NobodyForgotten
<1> QED
  BY <1>1, <1>2, <1>3, PTL DEF CoroutinesSpec

\* The lists of ResetEvent implement the promise of ManualResetEvent.
THEOREM EventImplemented == CoroutinesSpec => ImplementsEvent
<1>1. CoroutinesInit => WaiterProofs!IInv /\ Event!Event!EventInit
  <2>1. WaiterProofs!Event!EventInit => Event!Event!EventInit
    BY SameLists DEF WaiterProofs!Event!EventInit, Event!Event!EventInit
  <2> QED
    BY <2>1, EventBegins
<1>2. WaiterProofs!IInv /\ [CoroutinesNext]_all => WaiterProofs!IInv'
  BY EventKept
<1>3. WaiterProofs!IInv /\ [CoroutinesNext]_all => [Event!Event!EventNext]_(Event!Event!eventVars)
  <2> SUFFICES ASSUME WaiterProofs!IInv, [CoroutinesNext]_all
               PROVE  [Event!Event!EventNext]_(Event!Event!eventVars)
    OBVIOUS
  <2>1. [WaiterProofs!Event!EventNext]_(WaiterProofs!Event!eventVars)
    BY EventKept
  <2>2. /\ Event!Waiting = WaiterProofs!Waiting /\ Event!Released = WaiterProofs!Released
        /\ Event!Waiting' = WaiterProofs!Waiting' /\ Event!Released' = WaiterProofs!Released'
    BY SameLists, SameListsNext
  <2> QED
    BY <2>1, <2>2 DEF WaiterProofs!Event!EventNext, WaiterProofs!Event!eventVars,
       WaiterProofs!Event!Wait, WaiterProofs!Event!Signal, WaiterProofs!Event!Unset,
       WaiterProofs!Event!Resume, Event!Event!EventNext, Event!Event!eventVars,
       Event!Event!Wait, Event!Event!Signal, Event!Event!Unset, Event!Event!Resume
<1> QED
  BY <1>1, <1>2, <1>3, PTL DEF CoroutinesSpec, ImplementsEvent, Event!ImplementsEvent,
     Event!Event!EventSpec

\* The frame of a BlockingTask has one owner as long as it exists, and none
\* afterwards (task.cpp:262, 276-290, 315).
THEOREM FramesHaveOneOwner == CoroutinesSpec => []FramesOwned
<1>1. TInv => FramesOwned
  <2>1. ASSUME piece # "then", TInv
        PROVE  Gets!FramesOwned
    <3>1. GetProofs!FramesOwned
      BY <2>1, GetProofs!OwnersCounted DEF TInv, GetProofs!IInv, GetProofs!TypeOK, GetProofs!Frames, GetProofs!Tasks
    <3>2. \A S : Gets!Cardinality(S) = GetProofs!Cardinality(S)
      BY DEF Gets!Cardinality, GetProofs!Cardinality
    <3> QED
      BY <3>1, <3>2 DEF Gets!FramesOwned, GetProofs!FramesOwned, Gets!Tasks, GetProofs!Tasks
  <2> QED
    BY <2>1 DEF FramesOwned
<1> QED
  BY <1>1, InitTInv, NextTInv, PTL DEF CoroutinesSpec

\* Every piece keeps its types, whichever runs.
THEOREM CoroutinesTyped == CoroutinesSpec => []CoroutinesTypeOK
<1> DEFINE CInv == IInv /\ WaiterProofs!IInv /\ TInv
<1>1. CoroutinesInit => CInv
  BY InitIInv, EventBegins, InitTInv DEF CoroutinesInit
<1>2. CInv /\ [CoroutinesNext]_all => CInv'
  <2>1. [CoroutinesNext]_all => [Next]_vars
    BY DEF CoroutinesNext, all
  <2> QED
    BY <2>1, NextIInv, EventKept, NextTInv
<1>3. CInv => CoroutinesTypeOK
  <2>1. WaiterProofs!IInv => Event!TypeOK
    BY DEF WaiterProofs!IInv, WaiterProofs!TypeOK, Event!TypeOK, WaiterProofs!Awaiters,
       Event!Awaiters, WaiterProofs!Points, Event!Points
  <2>2. ThenProofs!IInv => Thens!TypeOK
    BY DEF ThenProofs!IInv, ThenProofs!TypeOK, Thens!TypeOK, ThenProofs!Points, Thens!Points,
       ThenProofs!OneAtATime, Thens!OneAtATime, ThenProofs!Tasks, Thens!Tasks,
       ThenProofs!Frames, Thens!Frames
  <2>3. GetProofs!IInv => Thens!TypeOK
    BY DEF GetProofs!IInv, GetProofs!TypeOK, Thens!TypeOK, GetProofs!Points, Thens!Points,
       GetProofs!OneAtATime, Thens!OneAtATime, GetProofs!Tasks, Thens!Tasks,
       GetProofs!Frames, Thens!Frames
  <2> QED
    BY <2>1, <2>2, <2>3 DEF IInv, TInv, CoroutinesTypeOK
<1> HIDE DEF CInv
<1> QED
  BY <1>1, <1>2, <1>3, PTL DEF CoroutinesSpec
=============================================================================
