---------------------------- MODULE PollerProofs ----------------------------
(***************************************************************************)
(* Safety of the curl worker and of its memory, for any set of requests,   *)
(* any program of coroutines over them and any number of failures.  The    *)
(* inductive invariant IInv of module Poller joins three facts:            *)
(* tasks_count_ is exact, a linked handle has somebody who will yet look   *)
(* at it, and the handle of every suspended coroutine is where the code    *)
(* expects it.  HttpExchange is Poller with its memory, so that IInv holds *)
(* of it; MemInv adds that each live easy handle and header list has one   *)
(* holder: an HttpRequest that a coroutine still has, a transfer, or       *)
(* performRequest().                                                       *)
(***************************************************************************)
EXTENDS HttpExchange, TLAPS

\* The initial state satisfies the inductive invariant: nothing is linked,
\* queued or awaited when the Poller has been constructed.
LEMMA InitIInv == Init => IInv
  <1> SUFFICES ASSUME Init PROVE IInv
    OBVIOUS
  <1> USE PollerAssumption DEF Init, Threads, Submitting
  <1>1. TypeOK
    <2>1. failures \in 0 .. MaxFailures /\ tasks \in Nat /\ queued \in Nat
      BY SMT
    <2>2. still \in BOOLEAN
      OBVIOUS
    <2>3. pc \in [Threads -> MainPoints \cup WorkerPoints]
      BY DEF MainPoints, WorkerPoints
    <2>4. pc["main"] \in MainPoints /\ pc["worker"] \in WorkerPoints
      BY DEF MainPoints, WorkerPoints
    <2>5. cur \in [Threads -> Requests \cup {None}] /\ clash \subseteq Threads
      OBVIOUS
    <2> QED BY <2>1, <2>2, <2>3, <2>4, <2>5 DEF TypeOK
  <1>2. TasksExact /\ ClosedAfterLoop
    BY DEF TasksExact, ClosedAfterLoop
  <1>3. LinkedServed /\ Whereabouts
    BY DEF LinkedServed, Linked, Whereabouts
  <1> QED BY <1>1, <1>2, <1>3 DEF IInv

\* Issuing a request keeps the invariant, from the client's thread or from a
\* coroutine resumed on the worker (performRequest, both branches).
LEMMA IssueIInv ==
  ASSUME IInv, NEW t \in Threads, NEW r \in Requests,
         IF t = "main" THEN pc[t] = "idle" ELSE pc[t] = "resumed",
         PerformRequest(t, r) \/ RefuseRequest(t, r), TrackOverlap
  PROVE  IInv'
  <1> USE PollerAssumption DEF Threads, Submitting
  <1>1. CASE PerformRequest(t, r)
    <2> USE <1>1 DEF PerformRequest, Goto, After
    <2>1. TypeOK'
      BY DEF IInv, TypeOK, TrackOverlap, MainPoints, WorkerPoints
    <2>2. TasksExact'
      BY DEF IInv, TypeOK, TasksExact
    <2>3. LinkedServed'
      BY DEF IInv, TypeOK, LinkedServed, Linked, Served, InPass
    <2>4. ClosedAfterLoop'
      BY DEF IInv, TypeOK, ClosedAfterLoop
    <2>5. Whereabouts'
      BY DEF IInv, TypeOK, Whereabouts, Linked
    <2> QED BY <2>1, <2>2, <2>3, <2>4, <2>5 DEF IInv
  <1>2. CASE RefuseRequest(t, r)
    <2> USE <1>2 DEF RefuseRequest, Goto, Caller, CanFail, CountFailure
    <2>1. TypeOK'
      BY DEF IInv, TypeOK, TrackOverlap, MainPoints, WorkerPoints
    <2>2. TasksExact'
      BY DEF IInv, TypeOK, TasksExact
    <2>3. LinkedServed'
      BY DEF IInv, TypeOK, LinkedServed
    <2>4. ClosedAfterLoop'
      BY DEF IInv, TypeOK, ClosedAfterLoop
    <2>5. Whereabouts'
      BY DEF IInv, TypeOK, Whereabouts, Linked
    <2> QED BY <2>1, <2>2, <2>3, <2>4, <2>5 DEF IInv
  <1> QED BY <1>1, <1>2

\* Every step of performRequest() after its first keeps the invariant.
LEMMA SubmitIInv ==
  ASSUME IInv, NEW t \in Threads, SubmitStep(t), TrackOverlap
  PROVE  IInv'
  <1> USE PollerAssumption
      DEF Threads, Submitting, Advance, Goto, After, Caller
  <1>1. CASE AddHandle(t)
    <2> USE <1>1 DEF AddHandle
    <2>1. TypeOK'
      <3>1. multi' \in [Requests -> {"out", "running", "lost", "ready", "done", "read"}]
        <4>1. PICK outcome \in {"running", "lost"} :
                     multi' = [multi EXCEPT ![cur[t]] = outcome]
          OBVIOUS
        <4> QED BY <4>1 DEF IInv, TypeOK
      <3>2. pc' \in [Threads -> MainPoints \cup WorkerPoints]
            /\ pc'["main"] \in MainPoints /\ pc'["worker"] \in WorkerPoints
        BY DEF IInv, TypeOK, MainPoints, WorkerPoints
      <3>3. cur' \in [Threads -> Requests \cup {None}] /\ clash' \subseteq Threads
        BY DEF IInv, TypeOK, TrackOverlap
      <3> QED BY <3>1, <3>2, <3>3 DEF IInv, TypeOK
    <2>2. TasksExact'
      BY DEF IInv, TypeOK, TasksExact
    <2>3. LinkedServed'
      BY DEF IInv, TypeOK, LinkedServed, Linked, Served, InPass
    <2>4. ClosedAfterLoop'
      BY DEF IInv, TypeOK, TasksExact, ClosedAfterLoop
    <2>5. Whereabouts'
      BY DEF IInv, TypeOK, Whereabouts, Linked
    <2> QED BY <2>1, <2>2, <2>3, <2>4, <2>5 DEF IInv
  <1>2. CASE AddFails(t)
    <2> USE <1>2 DEF AddFails, CanFail, CountFailure
    <2>1. TypeOK'
      <3>1. multi' \in [Requests -> {"out", "running", "lost", "ready", "done", "read"}]
            /\ failures' \in 0 .. MaxFailures
        <4>1. failures' \in 0 .. MaxFailures
          BY SMT DEF IInv, TypeOK
        <4> QED BY <4>1 DEF IInv, TypeOK
      <3>2. pc' \in [Threads -> MainPoints \cup WorkerPoints]
            /\ pc'["main"] \in MainPoints /\ pc'["worker"] \in WorkerPoints
        BY DEF IInv, TypeOK, MainPoints, WorkerPoints
      <3>3. cur' \in [Threads -> Requests \cup {None}] /\ clash' \subseteq Threads
        BY DEF IInv, TypeOK, TrackOverlap
      <3> QED BY <3>1, <3>2, <3>3 DEF IInv, TypeOK
    <2>2. TasksExact'
      BY DEF IInv, TypeOK, TasksExact
    <2>3. LinkedServed'
      BY DEF IInv, TypeOK, LinkedServed, Linked, Served, InPass
    <2>4. ClosedAfterLoop'
      BY DEF IInv, TypeOK, TasksExact, ClosedAfterLoop
    <2>5. Whereabouts'
      BY DEF IInv, TypeOK, Whereabouts, Linked
    <2> QED BY <2>1, <2>2, <2>3, <2>4, <2>5 DEF IInv
  <1>3. CASE CleanRequest(t)
    <2> USE <1>3 DEF CleanRequest
    <2>1. TypeOK'
      BY DEF IInv, TypeOK, TasksExact, TrackOverlap, MainPoints, WorkerPoints
    <2>2. TasksExact'
      BY DEF IInv, TypeOK, TasksExact
    <2>3. LinkedServed'
      BY DEF IInv, TypeOK, LinkedServed, Linked, Served, InPass
    <2>4. ClosedAfterLoop'
      BY DEF IInv, TypeOK, TasksExact, ClosedAfterLoop
    <2>5. Whereabouts'
      BY DEF IInv, TypeOK, Whereabouts, Linked
    <2> QED BY <2>1, <2>2, <2>3, <2>4, <2>5 DEF IInv
  <1>4. CASE CountJob(t)
    <2> USE <1>4 DEF CountJob
    <2>1. TypeOK'
      BY DEF IInv, TypeOK, TasksExact, TrackOverlap, MainPoints, WorkerPoints
    <2>2. TasksExact'
      BY DEF IInv, TypeOK, TasksExact
    <2>3. LinkedServed'
      BY DEF IInv, TypeOK, LinkedServed, Linked, Served, InPass
    <2>4. ClosedAfterLoop'
      BY DEF IInv, TypeOK, TasksExact, ClosedAfterLoop
    <2>5. Whereabouts'
      BY DEF IInv, TypeOK, Whereabouts, Linked
    <2> QED BY <2>1, <2>2, <2>3, <2>4, <2>5 DEF IInv
  <1>5. CASE PushJob(t)
    <2> USE <1>5 DEF PushJob
    <2>1. TypeOK'
      BY DEF IInv, TypeOK, TasksExact, TrackOverlap, MainPoints, WorkerPoints
    <2>2. TasksExact'
      BY DEF IInv, TypeOK, TasksExact
    <2>3. LinkedServed'
      BY DEF IInv, TypeOK, LinkedServed, Linked, Served, InPass
    <2>4. ClosedAfterLoop'
      BY DEF IInv, TypeOK, TasksExact, ClosedAfterLoop
    <2>5. Whereabouts'
      BY DEF IInv, TypeOK, Whereabouts, Linked
    <2> QED BY <2>1, <2>2, <2>3, <2>4, <2>5 DEF IInv
  <1> QED BY <1>1, <1>2, <1>3, <1>4, <1>5 DEF SubmitStep

\* The steps of the job on the worker keep the invariant, those apart in which
\* the resumed coroutine issues its next request.
LoopStep ==
    \/ TakeJob \/ Perform \/ Poll \/ LoopFails \/ ReadMessage \/ NoMessage
    \/ HandResult \/ ResumedEnds \/ RemoveHandle \/ FinishJob

LEMMA LoopIInv ==
  ASSUME IInv, LoopStep, TrackOverlap
  PROVE  IInv'
  <1> USE PollerAssumption DEF Threads, Submitting, Goto
  <1>1. CASE TakeJob
    <2> USE <1>1 DEF TakeJob
    <2>1. TypeOK'
      <3>1. queued' \in Nat /\ still' \in BOOLEAN
        <4>1. queued' \in Nat
          BY SMT DEF IInv, TypeOK
        <4> QED BY <4>1
      <3>2. pc' \in [Threads -> MainPoints \cup WorkerPoints]
            /\ pc'["main"] \in MainPoints /\ pc'["worker"] \in WorkerPoints
        BY DEF IInv, TypeOK, MainPoints, WorkerPoints
      <3>3. cur' \in [Threads -> Requests \cup {None}] /\ clash' \subseteq Threads
        BY DEF IInv, TypeOK, TrackOverlap
      <3> QED BY <3>1, <3>2, <3>3 DEF IInv, TypeOK
    <2>2. TasksExact'
      BY DEF IInv, TypeOK, TasksExact
    <2>3. LinkedServed'
      BY DEF IInv, TypeOK, LinkedServed, Linked, Served, InPass
    <2>4. ClosedAfterLoop'
      BY DEF IInv, TypeOK, TasksExact, ClosedAfterLoop
    <2>5. Whereabouts'
      BY DEF IInv, TypeOK, Whereabouts, Linked
    <2> QED BY <2>1, <2>2, <2>3, <2>4, <2>5 DEF IInv
  <1>2. CASE Perform
    <2> USE <1>2 DEF Perform
    <2>1. TypeOK'
      BY DEF IInv, TypeOK, TasksExact, TrackOverlap, MainPoints, WorkerPoints
    <2>2. TasksExact'
      BY DEF IInv, TypeOK, TasksExact
    <2>3. LinkedServed'
      BY DEF IInv, TypeOK, LinkedServed, Linked, Served, InPass
    <2>4. ClosedAfterLoop'
      BY DEF IInv, TypeOK, TasksExact, ClosedAfterLoop
    <2>5. Whereabouts'
      BY DEF IInv, TypeOK, Whereabouts, Linked
    <2> QED BY <2>1, <2>2, <2>3, <2>4, <2>5 DEF IInv
  <1>3. CASE Poll
    <2> USE <1>3 DEF Poll
    <2>1. TypeOK'
      BY DEF IInv, TypeOK, TasksExact, TrackOverlap, MainPoints, WorkerPoints
    <2>2. TasksExact'
      BY DEF IInv, TypeOK, TasksExact
    <2>3. LinkedServed'
      BY DEF IInv, TypeOK, LinkedServed, Linked, Served, InPass
    <2>4. ClosedAfterLoop'
      BY DEF IInv, TypeOK, TasksExact, ClosedAfterLoop
    <2>5. Whereabouts'
      BY DEF IInv, TypeOK, Whereabouts, Linked
    <2> QED BY <2>1, <2>2, <2>3, <2>4, <2>5 DEF IInv
  <1>4. CASE LoopFails
    <2> USE <1>4 DEF LoopFails, CanFail, CountFailure
    <2>1. TypeOK'
      BY DEF IInv, TypeOK, TasksExact, TrackOverlap, MainPoints, WorkerPoints
    <2>2. TasksExact'
      BY DEF IInv, TypeOK, TasksExact
    <2>3. LinkedServed'
      BY DEF IInv, TypeOK, LinkedServed, Linked, Served, InPass
    <2>4. ClosedAfterLoop'
      BY DEF IInv, TypeOK, TasksExact, ClosedAfterLoop
    <2>5. Whereabouts'
      BY DEF IInv, TypeOK, Whereabouts, Linked
    <2> QED BY <2>1, <2>2, <2>3, <2>4, <2>5 DEF IInv
  <1>5. CASE ReadMessage
    <2> USE <1>5 DEF ReadMessage
    <2>1. TypeOK'
      BY DEF IInv, TypeOK, TasksExact, TrackOverlap, MainPoints, WorkerPoints
    <2>2. TasksExact'
      BY DEF IInv, TypeOK, TasksExact
    <2>3. LinkedServed'
      BY DEF IInv, TypeOK, LinkedServed, Linked, Served, InPass
    <2>4. ClosedAfterLoop'
      BY DEF IInv, TypeOK, TasksExact, ClosedAfterLoop
    <2>5. Whereabouts'
      BY DEF IInv, TypeOK, Whereabouts, Linked
    <2> QED BY <2>1, <2>2, <2>3, <2>4, <2>5 DEF IInv
  <1>6. CASE NoMessage
    <2> USE <1>6 DEF NoMessage, GoesOn
    <2>1. TypeOK'
      BY DEF IInv, TypeOK, TasksExact, TrackOverlap, MainPoints, WorkerPoints
    <2>2. TasksExact'
      BY DEF IInv, TypeOK, TasksExact
    <2>3. LinkedServed'
      BY DEF IInv, TypeOK, LinkedServed, Linked, Served, InPass
    <2>4. ClosedAfterLoop'
      BY DEF IInv, TypeOK, TasksExact, ClosedAfterLoop
    <2>5. Whereabouts'
      BY DEF IInv, TypeOK, Whereabouts, Linked
    <2> QED BY <2>1, <2>2, <2>3, <2>4, <2>5 DEF IInv
  <1>7. CASE HandResult
    <2> USE <1>7 DEF HandResult
    <2>1. TypeOK'
      BY DEF IInv, TypeOK, TasksExact, TrackOverlap, MainPoints, WorkerPoints
    <2>2. TasksExact'
      BY DEF IInv, TypeOK, TasksExact
    <2>3. LinkedServed'
      BY DEF IInv, TypeOK, LinkedServed, Linked, Served, InPass
    <2>4. ClosedAfterLoop'
      BY DEF IInv, TypeOK, TasksExact, ClosedAfterLoop
    <2>5. Whereabouts'
      BY DEF IInv, TypeOK, Whereabouts, Linked
    <2> QED BY <2>1, <2>2, <2>3, <2>4, <2>5 DEF IInv
  <1>8. CASE ResumedEnds
    <2> USE <1>8 DEF ResumedEnds
    <2>1. TypeOK'
      BY DEF IInv, TypeOK, TasksExact, TrackOverlap, MainPoints, WorkerPoints
    <2>2. TasksExact'
      BY DEF IInv, TypeOK, TasksExact
    <2>3. LinkedServed'
      BY DEF IInv, TypeOK, LinkedServed, Linked, Served, InPass
    <2>4. ClosedAfterLoop'
      BY DEF IInv, TypeOK, TasksExact, ClosedAfterLoop
    <2>5. Whereabouts'
      BY DEF IInv, TypeOK, Whereabouts, Linked
    <2> QED BY <2>1, <2>2, <2>3, <2>4, <2>5 DEF IInv
  <1>9. CASE RemoveHandle
    <2> USE <1>9 DEF RemoveHandle
    <2>1. TypeOK'
      BY DEF IInv, TypeOK, TasksExact, TrackOverlap, MainPoints, WorkerPoints
    <2>2. TasksExact'
      BY DEF IInv, TypeOK, TasksExact
    <2>3. LinkedServed'
      BY DEF IInv, TypeOK, LinkedServed, Linked, Served, InPass
    <2>4. ClosedAfterLoop'
      BY DEF IInv, TypeOK, TasksExact, ClosedAfterLoop
    <2>5. Whereabouts'
      BY DEF IInv, TypeOK, Whereabouts, Linked
    <2> QED BY <2>1, <2>2, <2>3, <2>4, <2>5 DEF IInv
  <1>10. CASE FinishJob
    <2> USE <1>10 DEF FinishJob
    <2>1. TypeOK'
      BY DEF IInv, TypeOK, TasksExact, TrackOverlap, MainPoints, WorkerPoints
    <2>2. TasksExact'
      BY DEF IInv, TypeOK, TasksExact
    <2>3. LinkedServed'
      BY DEF IInv, TypeOK, LinkedServed, Linked, Served, InPass
    <2>4. ClosedAfterLoop'
      BY DEF IInv, TypeOK, TasksExact, ClosedAfterLoop
    <2>5. Whereabouts'
      BY DEF IInv, TypeOK, Whereabouts, Linked
    <2> QED BY <2>1, <2>2, <2>3, <2>4, <2>5 DEF IInv
  <1> QED BY <1>1, <1>2, <1>3, <1>4, <1>5, <1>6, <1>7, <1>8, <1>9, <1>10 DEF LoopStep

\* The client's own steps and the network keep the invariant.
LEMMA ClientIInv ==
  ASSUME IInv,
         Destroy \/ WaitReturns \/ (\E r \in Requests : NetworkDone(r)),
         TrackOverlap
  PROVE  IInv'
  <1> USE PollerAssumption DEF Threads, Submitting, Goto
  <1>1. CASE Destroy
    <2> USE <1>1 DEF Destroy
    <2>1. TypeOK'
      BY DEF IInv, TypeOK, TasksExact, TrackOverlap, MainPoints, WorkerPoints
    <2>2. TasksExact'
      BY DEF IInv, TypeOK, TasksExact
    <2>3. LinkedServed'
      BY DEF IInv, TypeOK, LinkedServed, Linked, Served, InPass
    <2>4. ClosedAfterLoop'
      BY DEF IInv, TypeOK, TasksExact, ClosedAfterLoop
    <2>5. Whereabouts'
      BY DEF IInv, TypeOK, Whereabouts, Linked
    <2> QED BY <2>1, <2>2, <2>3, <2>4, <2>5 DEF IInv
  <1>2. CASE WaitReturns
    <2> USE <1>2 DEF WaitReturns, Drained
    <2>1. TypeOK'
      BY DEF IInv, TypeOK, TasksExact, TrackOverlap, MainPoints, WorkerPoints
    <2>2. TasksExact'
      BY DEF IInv, TypeOK, TasksExact
    <2>3. LinkedServed'
      BY DEF IInv, TypeOK, LinkedServed, Linked, Served, InPass
    <2>4. ClosedAfterLoop'
      BY DEF IInv, TypeOK, TasksExact, ClosedAfterLoop
    <2>5. Whereabouts'
      BY DEF IInv, TypeOK, Whereabouts, Linked
    <2> QED BY <2>1, <2>2, <2>3, <2>4, <2>5 DEF IInv
  <1>3. CASE \E r \in Requests : NetworkDone(r)
    <2> USE <1>3 DEF NetworkDone
    <2>1. TypeOK'
      BY DEF IInv, TypeOK, TasksExact, TrackOverlap, MainPoints, WorkerPoints
    <2>2. TasksExact'
      BY DEF IInv, TypeOK, TasksExact
    <2>3. LinkedServed'
      BY DEF IInv, TypeOK, LinkedServed, Linked, Served, InPass
    <2>4. ClosedAfterLoop'
      BY DEF IInv, TypeOK, TasksExact, ClosedAfterLoop
    <2>5. Whereabouts'
      BY DEF IInv, TypeOK, Whereabouts, Linked
    <2> QED BY <2>1, <2>2, <2>3, <2>4, <2>5 DEF IInv
  <1> QED BY <1>1, <1>2, <1>3 DEF TypeOK

\* Every step of the poller keeps the inductive invariant.
LEMMA NextIInv == IInv /\ [Next]_vars => IInv'
  <1> SUFFICES ASSUME IInv, [Next]_vars PROVE IInv'
    OBVIOUS
  <1>1. CASE UNCHANGED vars
    BY <1>1 DEF vars, IInv, TypeOK, TasksExact, LinkedServed, Linked, Served,
                ClosedAfterLoop, Whereabouts
  <1>2. ASSUME NEW r \in Roots, Start(r), TrackOverlap PROVE IInv'
    BY <1>2, IssueIInv, PollerAssumption DEF Start, Threads
  <1>3. ASSUME ResumedIssues, TrackOverlap PROVE IInv'
    <2>1. Then[msg] \in Requests /\ pc["worker"] = "resumed"
      BY <1>3, PollerAssumption DEF ResumedIssues, IInv, Whereabouts, Threads
    <2> QED BY <1>3, <2>1, IssueIInv DEF ResumedIssues, Threads
  <1>4. ASSUME NEW t \in Threads, SubmitStep(t), TrackOverlap PROVE IInv'
    BY <1>4, SubmitIInv
  <1>5. ASSUME LoopStep, TrackOverlap PROVE IInv'
    BY <1>5, LoopIInv
  <1>6. ASSUME Destroy \/ WaitReturns \/ (\E r \in Requests : NetworkDone(r)),
               TrackOverlap
        PROVE  IInv'
    BY <1>6, ClientIInv
  <1>7. CASE Terminating
    BY <1>1, <1>7 DEF Terminating
  <1> QED
    BY <1>1, <1>2, <1>3, <1>4, <1>5, <1>6, <1>7
       DEF Next, WorkerStep, LoopStep, Threads

\* The inductive invariant holds throughout.
THEOREM Invariance == Spec => []IInv
  <1> QED BY InitIInv, NextIInv, PTL DEF Spec

\* tasks_count_ never wraps below zero, and every other variable keeps its type.
THEOREM TypeCorrect == Spec => []TypeOK
  <1>1. IInv => TypeOK
    BY DEF IInv
  <1> QED BY <1>1, Invariance, PTL

\* ~Poller never frees the multi handle under a running or queued job
\* (poller.cpp:54-60).
THEOREM ClosesAfterLoop == Spec => []ClosedAfterLoop
  <1>1. IInv => ClosedAfterLoop
    BY DEF IInv
  <1> QED BY <1>1, Invariance, PTL

\* No linked transfer is left without a job, however the links race with the
\* loop's exit (poller.cpp:82-140, 198-204).
THEOREM NothingAbandoned == Spec => []NoAbandonedTransfer
  <1>1. IInv => NoAbandonedTransfer
    <2> SUFFICES ASSUME IInv, failures = 0, pc["worker"] = "idle", queued = 0,
                        pc["main"] \notin Submitting,
                        NEW r \in Requests, Linked(r)
                 PROVE  FALSE
      BY DEF NoAbandonedTransfer
    <2>1. Served(r)
      BY DEF IInv, LinkedServed
    <2> QED BY <2>1 DEF Served, InPass, Threads, Submitting
  <1> QED BY <1>1, Invariance, PTL

-----------------------------------------------------------------------------
(* The poller implements the promise made to the coroutines.               *)

Phase == [r \in Requests |->
            IF coro[r] \in {"awaiting", "refused"} THEN "issued" ELSE coro[r]]
Open == pc["main"] # "closed"
Faulty == failures > 0 \/ \E r \in Requests : multi[r] = "lost"

\* A request that was not answered keeps the client open, unless a call failed:
\* the count is zero only when no job is left that would answer it.
LEMMA DrainedAnswered ==
  ASSUME IInv, pc["main"] = "waiting", tasks = 0
  PROVE  Faulty \/ \A r \in Requests : Phase[r] # "issued"
  <1> SUFFICES ASSUME ~ Faulty, NEW r \in Requests, Phase[r] = "issued"
               PROVE  FALSE
    OBVIOUS
  <1>1. pc["worker"] = "idle" /\ queued = 0
    BY DEF IInv, TypeOK, TasksExact
  <1>2. failures = 0
    BY SMT DEF Faulty, IInv, TypeOK
  <1>3. coro[r] = "awaiting"
    BY <1>2 DEF Phase, IInv, TypeOK, Whereabouts
  <1>4. Linked(r)
    BY <1>1, <1>3 DEF IInv, Whereabouts, Faulty, Threads
  <1>5. Served(r)
    BY <1>2, <1>4 DEF IInv, LinkedServed
  <1> QED BY <1>1, <1>5 DEF Served, InPass, Threads

\* Issuing a request is a step of the promise.
LEMMA IssueMaps ==
  ASSUME IInv, NEW t \in Threads, NEW r \in Requests,
         IF t = "main" THEN pc[t] = "idle" ELSE pc[t] = "resumed",
         PerformRequest(t, r) \/ RefuseRequest(t, r)
  PROVE  Service!Issue(r)
  <1>1. Open
    BY DEF IInv, ClosedAfterLoop, Open, Threads
  <1>2. Open'
    BY <1>1 DEF Open, PerformRequest, RefuseRequest, Goto, After, Caller, IInv, TypeOK, Threads
  <1>3. Phase[r] = "idle" /\ Phase' = [Phase EXCEPT ![r] = "issued"]
    BY DEF Phase, PerformRequest, RefuseRequest, IInv, TypeOK
  <1>4. Faulty' \in {Faulty, TRUE}
    <2>1. CASE PerformRequest(t, r)
      BY <2>1 DEF Faulty, PerformRequest
    <2>2. CASE RefuseRequest(t, r)
      <3>1. failures' > 0
        BY <2>2, SMT DEF RefuseRequest, CountFailure, IInv, TypeOK
      <3> QED BY <3>1 DEF Faulty
    <2> QED BY <2>1, <2>2
  <1> QED BY <1>1, <1>2, <1>3, <1>4 DEF Service!Issue, Phase, Open, Faulty

\* Inside performRequest() a step changes nothing the promise speaks of, except
\* that a handle may turn out not to be linked.
LEMMA SubmitMaps ==
  ASSUME IInv, NEW t \in Threads, SubmitStep(t)
  PROVE  Service!Fail \/ UNCHANGED Service!serviceVars
  <1>1. UNCHANGED coro
    BY DEF SubmitStep, AddHandle, AddFails, CleanRequest, CountJob, PushJob
  <1>2. UNCHANGED Open
    BY DEF SubmitStep, AddHandle, AddFails, CleanRequest, CountJob, PushJob, Open,
           Advance, Goto, After, Caller, Threads, IInv, TypeOK
  <1>3. Faulty' \in {Faulty, TRUE}
    <2>1. CASE AddHandle(t)
      <3>1. PICK outcome : multi' = [multi EXCEPT ![cur[t]] = outcome]
        BY <2>1 DEF AddHandle
      <3>2. cur[t] \in Requests /\ multi[cur[t]] = "out" /\ UNCHANGED failures
        BY <2>1 DEF AddHandle, IInv, Whereabouts
      <3>3. \A r \in Requests : multi[r] = "lost" => multi'[r] = "lost"
        BY <3>1, <3>2 DEF IInv, TypeOK
      <3> QED BY <3>2, <3>3 DEF Faulty
    <2>2. CASE AddFails(t)
      <3>1. failures' > 0
        BY <2>2, SMT DEF AddFails, CountFailure, IInv, TypeOK
      <3> QED BY <3>1 DEF Faulty
    <2>3. CASE CleanRequest(t) \/ CountJob(t) \/ PushJob(t)
      BY <2>3 DEF Faulty, CleanRequest, CountJob, PushJob
    <2> QED BY <2>1, <2>2, <2>3 DEF SubmitStep
  <1> QED BY <1>1, <1>2, <1>3
          DEF Service!Fail, Service!serviceVars, Open, Faulty

\* In the job, handing over a result answers one request that was waiting for
\* it; a failing call is a failure; every other step is invisible.
LEMMA LoopMaps ==
  ASSUME IInv, LoopStep
  PROVE  [Service!ServiceNext]_(Service!serviceVars)
  <1>1. UNCHANGED Open
    BY DEF LoopStep, TakeJob, Perform, Poll, LoopFails, ReadMessage, NoMessage,
           HandResult, ResumedEnds, RemoveHandle, FinishJob, Goto, Open,
           IInv, TypeOK, Threads
  <1>2. CASE HandResult
    <2>0. PICK r \in Requests : r = msg
      BY <1>2 DEF HandResult, IInv, Whereabouts
    <2>1. Open /\ Phase[r] = "issued"
      BY <1>2, <2>0 DEF HandResult, IInv, Whereabouts, ClosedAfterLoop, Phase, Open
    <2>2. Phase' = [Phase EXCEPT ![r] = "answered"]
      BY <2>0, <1>2, <2>1 DEF HandResult, Phase, IInv, TypeOK
    <2>3. UNCHANGED Faulty
      BY <1>2 DEF HandResult, Faulty
    <2>4. Service!Answer(r)
      BY <1>1, <2>1, <2>2, <2>3 DEF Service!Answer, Phase, Open, Faulty
    <2> QED BY <2>4 DEF Service!ServiceNext
  <1>3. CASE LoopFails
    <2>1. failures' = failures + 1 /\ UNCHANGED coro
      BY <1>3 DEF LoopFails, CountFailure
    <2>2. failures' > 0
      BY <2>1, PollerAssumption DEF IInv, TypeOK
    <2>3. Service!Fail
      BY <1>1, <2>1, <2>2 DEF Service!Fail, Open
    <2> QED BY <2>3 DEF Service!ServiceNext
  <1>4. CASE LoopStep /\ ~ HandResult /\ ~ LoopFails
    <2>1. UNCHANGED <<coro, failures>>
      BY <1>4 DEF LoopStep, TakeJob, Perform, Poll, ReadMessage, NoMessage,
                  ResumedEnds, RemoveHandle, FinishJob
    <2>2. \A r \in Requests : multi'[r] = "lost" <=> multi[r] = "lost"
      <3>1. CASE Perform
        BY <3>1 DEF Perform
      <3>2. CASE ReadMessage
        <4>1. PICK s \in Requests : /\ multi[s] = "done"
                                    /\ multi' = [multi EXCEPT ![s] = "read"]
          BY <3>2 DEF ReadMessage
        <4> QED BY <4>1 DEF IInv, TypeOK
      <3>3. CASE RemoveHandle
        BY <3>3 DEF RemoveHandle, IInv, TypeOK, Whereabouts
      <3>4. CASE UNCHANGED multi
        BY <3>4
      <3> QED BY <1>4, <3>1, <3>2, <3>3, <3>4
              DEF LoopStep, TakeJob, Poll, NoMessage, ResumedEnds, FinishJob
    <2>3. UNCHANGED Faulty
      BY <2>1, <2>2 DEF Faulty
    <2> QED BY <1>1, <2>1, <2>3 DEF Service!serviceVars, Open, Faulty
  <1> QED BY <1>2, <1>3, <1>4

\* Every step of the poller is a step of the promise, or invisible to it.
LEMMA StepMaps ==
  IInv /\ [Next]_vars => [Service!ServiceNext]_(Service!serviceVars)
  <1> SUFFICES ASSUME IInv, [Next]_vars
               PROVE  [Service!ServiceNext]_(Service!serviceVars)
    OBVIOUS
  <1>1. CASE UNCHANGED vars
    BY <1>1 DEF vars, Service!serviceVars
  <1>2. ASSUME NEW r \in Roots, Start(r)
        PROVE  Service!ServiceNext
    BY <1>2, IssueMaps, PollerAssumption DEF Start, Threads, Service!ServiceNext
  <1>3. ASSUME ResumedIssues
        PROVE  Service!ServiceNext
    <2>1. Then[msg] \in Requests /\ pc["worker"] = "resumed"
      BY <1>3, PollerAssumption DEF ResumedIssues, IInv, Whereabouts, Threads
    <2> QED BY <1>3, <2>1, IssueMaps DEF ResumedIssues, Threads, Service!ServiceNext
  <1>4. ASSUME NEW t \in Threads, SubmitStep(t)
        PROVE  [Service!ServiceNext]_(Service!serviceVars)
    BY <1>4, SubmitMaps DEF Service!ServiceNext
  <1>5. ASSUME LoopStep
        PROVE  [Service!ServiceNext]_(Service!serviceVars)
    BY <1>5, LoopMaps
  <1>6. ASSUME WaitReturns
        PROVE  Service!ServiceNext
    <2>1. Open /\ ~ Open' /\ UNCHANGED <<coro, multi, failures>>
      BY <1>6 DEF WaitReturns, Goto, Open, IInv, TypeOK, Threads
    <2>2. Faulty \/ \A r \in Requests : Phase[r] # "issued"
      BY <1>6, DrainedAnswered DEF WaitReturns, Drained
    <2>3. Service!Close
      BY <2>1, <2>2 DEF Service!Close, Open, Phase, Faulty
    <2> QED BY <2>3 DEF Service!ServiceNext
  <1>7. ASSUME Destroy \/ (\E r \in Requests : NetworkDone(r))
        PROVE  UNCHANGED Service!serviceVars
    <2>1. UNCHANGED <<coro, failures>> /\ UNCHANGED Open
      BY <1>7 DEF Destroy, NetworkDone, Goto, Open, IInv, TypeOK, Threads
    <2>2. \A r \in Requests : multi'[r] = "lost" <=> multi[r] = "lost"
      BY <1>7 DEF Destroy, NetworkDone, IInv, TypeOK
    <2> QED BY <2>1, <2>2 DEF Service!serviceVars, Open
  <1>8. CASE Terminating
    BY <1>1, <1>8 DEF Terminating
  <1> QED
    BY <1>1, <1>2, <1>3, <1>4, <1>5, <1>6, <1>7, <1>8
       DEF Next, WorkerStep, LoopStep, Threads

\* The curl loop implements the promise made to the coroutines: one answer for
\* each request, none after ~Poller has returned from wait(), and no request
\* left without an answer then, unless a call failed or a handle was lost.
THEOREM Implements == Spec => ImplementsService
  <1>1. Init => Service!ServiceInit
    BY DEF Init, Service!ServiceInit, Threads
  <1>2. IInv /\ [Next]_vars => [Service!ServiceNext]_(Service!serviceVars)
    BY StepMaps
  <1> QED BY <1>1, <1>2, Invariance, PTL
          DEF Spec, ImplementsService, Service!ServiceSpec

-----------------------------------------------------------------------------
(* The poller's view of its pool is a use of JobPool.                      *)

PoolBusy == IF pc["worker"] = "idle" THEN 0 ELSE 1

\* A step that moves neither thread into or out of submit(), the job or wait()
\* is invisible to the pool.
LEMMA PoolUnchanged ==
  ASSUME UNCHANGED queued,
         \A t \in Threads : pc'[t] = "pushing" <=> pc[t] = "pushing",
         pc'["worker"] = "idle" <=> pc["worker"] = "idle",
         pc'["main"] = "waiting" <=> pc["main"] = "waiting"
  PROVE  UNCHANGED Pool!poolVars
  BY DEF Pool!poolVars, InPush, Threads

\* Counting a job, pushing it, and the rest of performRequest().
LEMMA SubmitPools ==
  ASSUME IInv, NEW t \in Threads, SubmitStep(t)
  PROVE  [Pool!PoolNext]_(Pool!poolVars)
  <1>1. pc[t] \in Submitting /\ pc' = [pc EXCEPT ![t] = pc'[t]]
    BY DEF SubmitStep, AddHandle, AddFails, CleanRequest, CountJob, PushJob,
           Advance, Goto, Submitting, Threads, IInv, TypeOK
  <1>2. CASE CountJob(t)
    <2>1. pc[t] = "counting" /\ pc'[t] = "pushing" /\ UNCHANGED queued
      BY <1>2 DEF CountJob, Advance, After, Goto, Threads, IInv, TypeOK
    <2>2. InPush(t)' = InPush(t) + 1 /\ InPush(Other(t))' = InPush(Other(t))
      BY <1>1, <2>1 DEF InPush, Other, Threads, IInv, TypeOK
    <2>3. InPush("main")' + InPush("worker")' = InPush("main") + InPush("worker") + 1
      BY <2>2 DEF InPush, Other, Threads
    <2>4. PoolBusy > 0 \/ pc["main"] # "waiting"
      BY <2>1 DEF PoolBusy, Threads
    <2>5. PoolBusy' = PoolBusy /\ (pc'["main"] = "waiting" <=> pc["main"] = "waiting")
      BY <1>1, <2>1 DEF PoolBusy, Threads, IInv, TypeOK
    <2>6. Pool!Promise
      BY <2>1, <2>3, <2>4, <2>5 DEF Pool!Promise, PoolBusy
    <2> QED BY <2>6 DEF Pool!PoolNext
  <1>3. CASE PushJob(t)
    <2>1. pc[t] = "pushing" /\ pc'[t] = Caller(t) /\ queued' = queued + 1
      BY <1>3 DEF PushJob, Advance, After, Goto, Threads, IInv, TypeOK
    <2>2. InPush(t) = 1 /\ InPush(t)' = 0 /\ InPush(Other(t))' = InPush(Other(t))
      BY <1>1, <2>1 DEF InPush, Other, Caller, Threads, IInv, TypeOK
    <2>3. /\ InPush("main") + InPush("worker") > 0
          /\ InPush("main")' + InPush("worker")' = InPush("main") + InPush("worker") - 1
      BY <2>2 DEF InPush, Other, Threads
    <2>4. PoolBusy' = PoolBusy /\ (pc'["main"] = "waiting" <=> pc["main"] = "waiting")
      BY <1>1, <2>1 DEF PoolBusy, Caller, Threads, IInv, TypeOK
    <2>5. queued' = queued + 1
      BY <2>1
    <2>6. Pool!Push
      BY <2>3, <2>4, <2>5 DEF Pool!Push, PoolBusy, InPush
    <2> QED BY <2>6 DEF Pool!PoolNext
  <1>4. CASE AddHandle(t) \/ AddFails(t) \/ CleanRequest(t)
    <2>1. pc[t] \in {"adding", "cleaning"} /\ UNCHANGED queued
      BY <1>4 DEF AddHandle, AddFails, CleanRequest
    <2>2. pc'[t] \in {"cleaning", "counting"}
      BY <1>4 DEF AddHandle, AddFails, CleanRequest, Advance, After, Goto, Threads, IInv, TypeOK
    <2>3. UNCHANGED Pool!poolVars
      BY <1>1, <2>1, <2>2, PoolUnchanged DEF Threads, IInv, TypeOK
    <2> QED BY <2>3
  <1> QED BY <1>2, <1>3, <1>4 DEF SubmitStep

\* Taking a job and finishing it; the rest of the loop is inside the job.
LEMMA LoopPools ==
  ASSUME IInv, LoopStep
  PROVE  [Pool!PoolNext]_(Pool!poolVars)
  <1>1. pc' = [pc EXCEPT !["worker"] = pc'["worker"]]
    BY DEF LoopStep, TakeJob, Perform, Poll, LoopFails, ReadMessage, NoMessage,
           HandResult, ResumedEnds, RemoveHandle, FinishJob, Goto, Threads, IInv, TypeOK
  <1>2. pc["worker"] \notin Submitting /\ pc'["worker"] \notin Submitting
    BY ZenonT(60) DEF LoopStep, TakeJob, Perform, Poll, LoopFails, ReadMessage, NoMessage,
           HandResult, ResumedEnds, RemoveHandle, FinishJob, Goto, Submitting,
           Threads, IInv, TypeOK
  <1>3. UNCHANGED <<InPush("main"), InPush("worker")>>
        /\ (pc'["main"] = "waiting" <=> pc["main"] = "waiting")
    BY <1>1, <1>2 DEF InPush, Submitting, Threads, IInv, TypeOK
  <1>4. CASE TakeJob
    <2>1. queued > 0 /\ queued' = queued - 1 /\ PoolBusy = 0 /\ PoolBusy' = 1
      BY <1>4 DEF TakeJob, Goto, PoolBusy, Threads, IInv, TypeOK
    <2>2. Pool!Take
      BY <1>3, <2>1 DEF Pool!Take, PoolBusy
    <2> QED BY <2>2 DEF Pool!PoolNext
  <1>5. CASE FinishJob
    <2>1. UNCHANGED queued /\ PoolBusy = 1 /\ PoolBusy' = 0
      BY <1>5 DEF FinishJob, Goto, PoolBusy, Threads, IInv, TypeOK
    <2>2. Pool!Finish
      BY <1>3, <2>1 DEF Pool!Finish, PoolBusy
    <2> QED BY <2>2 DEF Pool!PoolNext
  <1>6. CASE LoopStep /\ ~ TakeJob /\ ~ FinishJob
    <2>1. UNCHANGED queued /\ pc["worker"] # "idle" /\ pc'["worker"] # "idle"
      BY <1>6 DEF LoopStep, Perform, Poll, LoopFails, ReadMessage, NoMessage,
                  HandResult, ResumedEnds, RemoveHandle, Goto, Threads, IInv, TypeOK
    <2>2. UNCHANGED Pool!poolVars
      BY <1>1, <1>2, <2>1, PoolUnchanged DEF Submitting, Threads, IInv, TypeOK
    <2> QED BY <2>2
  <1> QED BY <1>4, <1>5, <1>6

\* Issuing a request does not reach submit() yet.
LEMMA IssuePools ==
  ASSUME IInv, NEW t \in Threads, NEW r \in Requests,
         IF t = "main" THEN pc[t] = "idle" ELSE pc[t] = "resumed",
         PerformRequest(t, r) \/ RefuseRequest(t, r)
  PROVE  UNCHANGED Pool!poolVars
  <1>1. /\ UNCHANGED queued
        /\ pc' = [pc EXCEPT ![t] = pc'[t]]
        /\ pc'[t] \in {"adding", Caller(t)}
    BY DEF PerformRequest, RefuseRequest, Goto, After, Threads, IInv, TypeOK
  <1> QED BY <1>1, PoolUnchanged DEF Caller, Threads, IInv, TypeOK

\* Every step of the poller is a step of the pool, or invisible to it.
LEMMA StepPools == IInv /\ [Next]_vars => [Pool!PoolNext]_(Pool!poolVars)
  <1> SUFFICES ASSUME IInv, [Next]_vars
               PROVE  [Pool!PoolNext]_(Pool!poolVars)
    OBVIOUS
  <1>1. CASE UNCHANGED vars
    BY <1>1 DEF vars, Pool!poolVars, InPush
  <1>2. ASSUME NEW r \in Roots, Start(r)
        PROVE  UNCHANGED Pool!poolVars
    BY <1>2, IssuePools, PollerAssumption DEF Start, Threads
  <1>3. ASSUME ResumedIssues
        PROVE  UNCHANGED Pool!poolVars
    <2>1. Then[msg] \in Requests /\ pc["worker"] = "resumed"
      BY <1>3, PollerAssumption DEF ResumedIssues, IInv, Whereabouts, Threads
    <2> QED BY <1>3, <2>1, IssuePools DEF ResumedIssues, Threads
  <1>4. ASSUME NEW t \in Threads, SubmitStep(t)
        PROVE  [Pool!PoolNext]_(Pool!poolVars)
    BY <1>4, SubmitPools
  <1>5. ASSUME LoopStep
        PROVE  [Pool!PoolNext]_(Pool!poolVars)
    BY <1>5, LoopPools
  <1>6. CASE Destroy
    <2>1. UNCHANGED <<queued, InPush("main"), InPush("worker"), PoolBusy>>
      BY <1>6 DEF Destroy, Goto, InPush, PoolBusy, Threads, IInv, TypeOK
    <2>2. pc["main"] # "waiting" /\ pc'["main"] = "waiting"
      BY <1>6 DEF Destroy, Goto, Threads, IInv, TypeOK
    <2>3. Pool!Wait
      BY <2>1, <2>2 DEF Pool!Wait, PoolBusy
    <2> QED BY <2>3 DEF Pool!PoolNext
  <1>7. CASE WaitReturns
    <2>1. /\ UNCHANGED <<queued, InPush("main"), InPush("worker"), PoolBusy>>
          /\ pc["main"] = "waiting" /\ pc'["main"] # "waiting"
      BY <1>7 DEF WaitReturns, Goto, InPush, PoolBusy, Threads, IInv, TypeOK
    <2>2. queued = 0 /\ PoolBusy = 0 /\ pc["worker"] # "pushing"
      BY <1>7 DEF WaitReturns, Drained, PoolBusy, IInv, TypeOK, TasksExact
    <2>3. InPush("main") + InPush("worker") = 0
      BY <2>1, <2>2 DEF InPush
    <2>4. Pool!Return
      BY <2>1, <2>2, <2>3 DEF Pool!Return, PoolBusy
    <2> QED BY <2>4 DEF Pool!PoolNext
  <1>8. CASE \E r \in Requests : NetworkDone(r)
    BY <1>8 DEF NetworkDone, Pool!poolVars, InPush
  <1>9. CASE Terminating
    BY <1>1, <1>9 DEF Terminating
  <1> QED
    BY <1>1, <1>2, <1>3, <1>4, <1>5, <1>6, <1>7, <1>8, <1>9
       DEF Next, WorkerStep, LoopStep, Threads

\* The poller uses its pool as JobPool lets it: ~Poller's wait() returns, and
\* the multi handle is freed, only when no job is left, however many jobs the
\* resumed coroutines submit meanwhile.
THEOREM UsesItsPool == Spec => UsesPool
  <1>1. Init => Pool!PoolInit
    BY DEF Init, Pool!PoolInit, InPush, Threads
  <1>2. IInv /\ [Next]_vars => [Pool!PoolNext]_(Pool!poolVars)
    BY StepPools
  <1> QED BY <1>1, <1>2, Invariance, PTL DEF Spec, UsesPool, Pool!PoolSpec

-----------------------------------------------------------------------------
(* Memory                                                                  *)

\* The memory's part of the invariant.
MemPart == MemTypeOK /\ NamesFresh /\ InHands /\ MemorySafe

\* The initial state satisfies it: nothing has been made yet.
LEMMA InitMem == ExchangeInit => MemPart
  <1> SUFFICES ASSUME ExchangeInit PROVE MemPart
    OBVIOUS
  <1> USE PollerAssumption DEF ExchangeInit, Init, Threads
  <1>1. MemTypeOK /\ NamesFresh /\ InHands
    BY DEF MemTypeOK, NamesFresh, InHands
  <1>2. TransferMemoryLives
    BY DEF TransferMemoryLives, InUse
  <1>3. LocalMemoryLives
    BY DEF LocalMemoryLives, HoldsHandle, HoldsHeaders
  <1>4. ListsFreedOnce
    BY DEF ListsFreedOnce, InPerform
  <1> QED BY <1>1, <1>2, <1>3, <1>4 DEF MemPart, MemorySafe

\* HttpExchange adds memory to the poller and takes no step the poller does not
\* take.
LEMMA ExchangeIsPoller == ExchangeNext => [Next]_vars
  <1> SUFFICES ASSUME ExchangeNext PROVE [Next]_vars
    OBVIOUS
  <1>1. CASE Build
    BY <1>1 DEF Build, Construct, SetHeader, Bake, MoveAssign
  <1>2. CASE PollerStep /\ TrackOverlap
    BY <1>2 DEF PollerStep, OtherStep, Next, WorkerStep, SubmitStep, Threads
  <1>3. CASE Terminating
    BY <1>3 DEF Terminating
  <1> QED BY <1>1, <1>2, <1>3 DEF ExchangeNext

-----------------------------------------------------------------------------
(* Building requests.                                                      *)

\* A new HttpRequest has a handle of its own.
LEMMA ConstructMem ==
  ASSUME IInv, MemPart, NEW r \in Requests, Construct(r)
  PROVE  MemPart'
  <1> USE PollerAssumption, ExchangeAssumption DEF Construct, MemPart
  <1>1. MemTypeOK'
    BY DEF MemTypeOK, Empty, HttpRequests
  <1>2. NamesFresh'
    BY DEF MemTypeOK, NamesFresh, Empty, HttpRequests
  <1>3. InHands'
    BY DEF InHands, vars
  <1>4. easy[r] = "unused" /\ local[r] = None
    BY DEF NamesFresh
  <1>5. \A h \in Requests : easy[h] = "live" => easy'[h] = "live"
    BY DEF MemTypeOK
  <1>6. TransferMemoryLives'
    BY <1>5 DEF MemorySafe, TransferMemoryLives, InUse, vars, MemTypeOK
  <1>7. \A s \in Requests : s # r => local'[s] = local[s]
    BY DEF MemTypeOK
  <1>8. /\ HoldsHandle(r)' => local'[r].handle = r /\ easy'[r] = "live"
        /\ ~ HoldsHeaders(r)'
    BY DEF MemTypeOK, HoldsHandle, HoldsHeaders, Empty
  <1>9. \A s \in Requests : InUse(s)' => easyOf'[s] # r
    BY <1>4 DEF MemorySafe, TransferMemoryLives, InUse, vars
  <1>10. LocalMemoryLives'
    <2>1. ASSUME NEW q \in Requests, HoldsHandle(q)'
          PROVE  /\ easy'[local'[q].handle] = "live"
                 /\ \A s \in Requests :
                       /\ InUse(s)' => easyOf'[s] # local'[q].handle
                       /\ HoldsHandle(s)' /\ local'[s].handle = local'[q].handle => s = q
      <3>1. CASE q = r
        BY <2>1, <3>1, <1>4, <1>7, <1>8, <1>9
           DEF MemorySafe, LocalMemoryLives, HoldsHandle
      <3>2. CASE q # r
        <4>1. HoldsHandle(q) /\ local'[q] = local[q] /\ local[q].handle \in Requests
          BY <2>1, <3>2, <1>7 DEF HoldsHandle, MemTypeOK, HttpRequests
        <4>2. easy[local[q].handle] = "live" /\ local[q].handle # r
          BY <4>1, <1>4 DEF MemorySafe, LocalMemoryLives
        <4> QED
          BY <3>2, <4>1, <4>2, <1>5, <1>7, <1>8
             DEF MemorySafe, LocalMemoryLives, HoldsHandle, InUse, vars
      <3> QED BY <3>1, <3>2
    <2>2. ASSUME NEW q \in Requests, HoldsHeaders(q)'
          PROVE  /\ list'[local'[q].headers] = "live"
                 /\ \A s \in Requests :
                       HoldsHeaders(s)' /\ local'[s].headers = local'[q].headers => s = q
      BY <2>2, <1>7, <1>8 DEF MemorySafe, LocalMemoryLives, HoldsHeaders
    <2> QED BY <2>1, <2>2 DEF LocalMemoryLives
  <1>11. ListsFreedOnce'
    BY <1>7, <1>8 DEF MemorySafe, ListsFreedOnce, InPerform, HoldsHeaders, vars
  <1> QED BY <1>1, <1>2, <1>3, <1>6, <1>10, <1>11 DEF MemorySafe

\* A first header makes a list that nobody else has.
LEMMA SetHeaderMem ==
  ASSUME IInv, MemPart, NEW r \in Requests, SetHeader(r)
  PROVE  MemPart'
  <1> USE PollerAssumption, ExchangeAssumption DEF SetHeader, MemPart
  <1>1. /\ \A s \in Requests : s # r => local'[s] = local[s]
        /\ local'[r] = [handle |-> local[r].handle, headers |-> r]
        /\ local[r] \in HttpRequests
    BY DEF MemTypeOK, HttpRequests
  <1>2. MemTypeOK'
    BY <1>1 DEF MemTypeOK, HttpRequests
  <1>3. NamesFresh'
    <2>1. local'[r] # None
      BY <1>1 DEF HttpRequests
    <2> QED BY <1>1, <2>1 DEF NamesFresh
  <1>4. InHands' /\ TransferMemoryLives'
    BY DEF InHands, MemorySafe, TransferMemoryLives, InUse, vars
  <1>5. \A s \in Requests : HoldsHandle(s)' <=> HoldsHandle(s)
    BY <1>1 DEF HoldsHandle, HttpRequests
  <1>6. \A s \in Requests : HoldsHandle(s)' => local'[s].handle = local[s].handle
    BY <1>1 DEF HttpRequests
  <1>7. \A s \in Requests : HoldsHeaders(s)' /\ s # r =>
           HoldsHeaders(s) /\ local'[s].headers = local[s].headers
                           /\ local[s].headers # r /\ local[s].headers \in Requests
    BY <1>1 DEF MemorySafe, LocalMemoryLives, HoldsHeaders, MemTypeOK, HttpRequests
  <1>8. list'[r] = "live" /\ \A h \in Requests : h # r => list'[h] = list[h]
    BY DEF MemTypeOK
  <1>9. LocalMemoryLives'
    <2>1. ASSUME NEW q \in Requests, HoldsHandle(q)'
          PROVE  /\ easy'[local'[q].handle] = "live"
                 /\ \A s \in Requests :
                       /\ InUse(s)' => easyOf'[s] # local'[q].handle
                       /\ HoldsHandle(s)' /\ local'[s].handle = local'[q].handle => s = q
      BY <2>1, <1>5, <1>6 DEF MemorySafe, LocalMemoryLives, InUse, vars
    <2>2. ASSUME NEW q \in Requests, HoldsHeaders(q)'
          PROVE  /\ list'[local'[q].headers] = "live"
                 /\ \A s \in Requests :
                       HoldsHeaders(s)' /\ local'[s].headers = local'[q].headers => s = q
      BY <2>2, <1>1, <1>7, <1>8 DEF MemorySafe, LocalMemoryLives
    <2> QED BY <2>1, <2>2 DEF LocalMemoryLives
  <1>10. ListsFreedOnce'
    <2> SUFFICES ASSUME NEW q \in Requests, InPerform(q), passed[q].headers # None
                 PROVE  /\ list'[passed[q].headers] = "live"
                        /\ \A s \in Requests :
                              /\ HoldsHeaders(s)' => local'[s].headers # passed[q].headers
                              /\ InPerform(s) /\ passed[s].headers = passed[q].headers => s = q
      BY DEF ListsFreedOnce, InPerform, vars
    <2>1. passed[q].headers # r /\ passed[q].headers \in Requests
      BY DEF MemorySafe, ListsFreedOnce, InHands, InPerform, MemTypeOK, HttpRequests
    <2> QED BY <2>1, <1>1, <1>7, <1>8 DEF MemorySafe, ListsFreedOnce
  <1> QED BY <1>2, <1>3, <1>4, <1>9, <1>10 DEF MemorySafe

\* bake() touches neither the handle's life nor the list's.
LEMMA BakeMem ==
  ASSUME IInv, MemPart, NEW r \in Requests, Bake(r)
  PROVE  MemPart'
  <1> USE PollerAssumption, ExchangeAssumption DEF Bake, MemPart
  <1>1. MemTypeOK' /\ NamesFresh'
    BY DEF MemTypeOK, HttpRequests, NamesFresh
  <1>2. InHands' /\ TransferMemoryLives'
    BY DEF InHands, MemorySafe, TransferMemoryLives, InUse, vars
  <1>3. LocalMemoryLives' /\ ListsFreedOnce'
    BY DEF MemorySafe, LocalMemoryLives, ListsFreedOnce, HoldsHandle, HoldsHeaders,
           InUse, InPerform, vars
  <1> QED BY <1>1, <1>2, <1>3 DEF MemorySafe

\* An assignment frees the handle it replaces, which nobody else has, and hands
\* on the source's.
LEMMA MoveAssignMem ==
  ASSUME IInv, MemPart, NEW r \in Requests, NEW s \in Requests, MoveAssign(r, s)
  PROVE  MemPart'
  <1> USE PollerAssumption, ExchangeAssumption DEF MoveAssign, MovedFrom, MemPart
  <1>1. /\ local'[r] = local[s] /\ local'[s] = Empty
        /\ \A q \in Requests \ {r, s} : local'[q] = local[q]
        /\ local[r] \in HttpRequests /\ local[s] \in HttpRequests
    BY DEF MemTypeOK
  <1>2. Empty \in HttpRequests /\ Empty # None /\ Empty.handle = None /\ Empty.headers = None
    BY DEF Empty, HttpRequests
  <1>3. \A h \in Requests : h # local[r].handle => easy'[h] = easy[h]
    BY DEF FreeEasy, MemTypeOK
  <1>4. MemTypeOK'
    <2>1. easy' \in [Requests -> {"unused", "live", "freed"}]
      BY <1>1 DEF FreeEasy, MemTypeOK, HttpRequests
    <2>2. local' \in [Requests -> HttpRequests \cup {None}]
      BY <1>1, <1>2 DEF MemTypeOK
    <2> QED BY <2>1, <2>2 DEF MemTypeOK
  <1>5. NamesFresh'
    <2> SUFFICES ASSUME NEW q \in Requests, local'[q] = None PROVE easy'[q] = "unused"
      BY DEF NamesFresh
    <2>1. q # r /\ q # s /\ local[q] = None
      BY <1>1, <1>2
    <2>2. easy[q] = "unused" /\ q # local[r].handle
      BY <2>1, <1>1 DEF NamesFresh, MemorySafe, LocalMemoryLives, HoldsHandle
    <2> QED BY <2>2, <1>3
  <1>6. InHands'
    BY DEF InHands, vars
  <1>7. TransferMemoryLives'
    <2>1. \A q \in Requests : InUse(q) => easyOf[q] # local[r].handle
      BY DEF MemorySafe, TransferMemoryLives, LocalMemoryLives, HoldsHandle
    <2> QED BY <2>1, <1>3 DEF MemorySafe, TransferMemoryLives, InUse, MemTypeOK, vars
  \* Who held what before the assignment.
  <1> DEFINE from(q) == IF q = r THEN s ELSE q
  <1>8. \A q \in Requests :
           /\ HoldsHandle(q)' \/ HoldsHeaders(q)' =>
                 q # s /\ local'[q] = local[from(q)] /\ from(q) \in Requests \ {r}
           /\ HoldsHandle(q)' => HoldsHandle(from(q))
           /\ HoldsHeaders(q)' => HoldsHeaders(from(q))
    BY <1>1, <1>2 DEF HoldsHandle, HoldsHeaders
  <1>9. \A q \in Requests, u \in Requests :
           q # s /\ u # s /\ from(q) = from(u) => q = u
    OBVIOUS
  <1> HIDE DEF from
  <1>10. LocalMemoryLives'
    <2>1. ASSUME NEW q \in Requests, HoldsHandle(q)'
          PROVE  /\ easy'[local'[q].handle] = "live"
                 /\ \A u \in Requests :
                       /\ InUse(u)' => easyOf'[u] # local'[q].handle
                       /\ HoldsHandle(u)' /\ local'[u].handle = local'[q].handle => u = q
      <3>1. /\ q # s /\ local'[q] = local[from(q)] /\ from(q) \in Requests \ {r}
            /\ HoldsHandle(from(q)) /\ local[from(q)].handle \in Requests
        BY <2>1, <1>8 DEF MemTypeOK, HttpRequests, HoldsHandle
      <3>2. /\ easy[local[from(q)].handle] = "live"
            /\ local[from(q)].handle # local[r].handle
        BY <3>1 DEF MemorySafe, LocalMemoryLives, HoldsHandle
      <3>3. easy'[local'[q].handle] = "live"
        BY <3>1, <3>2, <1>3
      <3>4. \A u \in Requests : InUse(u)' => easyOf'[u] # local'[q].handle
        BY <3>1 DEF MemorySafe, LocalMemoryLives, InUse, vars
      <3>5. ASSUME NEW u \in Requests, HoldsHandle(u)', local'[u].handle = local'[q].handle
            PROVE  u = q
        <4>1. /\ u # s /\ from(u) \in Requests /\ HoldsHandle(from(u))
              /\ local[from(u)].handle = local[from(q)].handle
          BY <3>1, <3>5, <1>8
        <4>2. from(u) = from(q)
          BY <3>1, <4>1 DEF MemorySafe, LocalMemoryLives
        <4> QED BY <3>1, <4>1, <4>2, <1>9
      <3> QED BY <3>3, <3>4, <3>5
    <2>2. ASSUME NEW q \in Requests, HoldsHeaders(q)'
          PROVE  /\ list'[local'[q].headers] = "live"
                 /\ \A u \in Requests :
                       HoldsHeaders(u)' /\ local'[u].headers = local'[q].headers => u = q
      <3>1. /\ q # s /\ local'[q] = local[from(q)] /\ from(q) \in Requests
            /\ HoldsHeaders(from(q))
        BY <2>2, <1>8
      <3>2. ASSUME NEW u \in Requests, HoldsHeaders(u)', local'[u].headers = local'[q].headers
            PROVE  u = q
        <4>1. /\ u # s /\ from(u) \in Requests /\ HoldsHeaders(from(u))
              /\ local[from(u)].headers = local[from(q)].headers
          BY <3>1, <3>2, <1>8
        <4>2. from(u) = from(q)
          BY <3>1, <4>1 DEF MemorySafe, LocalMemoryLives
        <4> QED BY <3>1, <4>1, <4>2, <1>9
      <3> QED BY <3>1, <3>2 DEF MemorySafe, LocalMemoryLives
    <2> QED BY <2>1, <2>2 DEF LocalMemoryLives
  <1>11. ListsFreedOnce'
    <2>1. \A q \in Requests : HoldsHeaders(q)' =>
             \E u \in Requests : HoldsHeaders(u) /\ local'[q].headers = local[u].headers
      BY <1>8
    <2>2. ASSUME NEW p \in Requests, InPerform(p), passed[p].headers # None
          PROVE  /\ list[passed[p].headers] = "live"
                 /\ \A q \in Requests :
                       /\ HoldsHeaders(q)' => local'[q].headers # passed[p].headers
                       /\ InPerform(q) /\ passed[q].headers = passed[p].headers => q = p
      <3>1. /\ list[passed[p].headers] = "live"
            /\ \A u \in Requests : HoldsHeaders(u) => local[u].headers # passed[p].headers
            /\ \A q \in Requests :
                  InPerform(q) /\ passed[q].headers = passed[p].headers => q = p
        BY <2>2 DEF MemorySafe, ListsFreedOnce
      <3>2. ASSUME NEW q \in Requests, HoldsHeaders(q)'
            PROVE  local'[q].headers # passed[p].headers
        <4>1. PICK u \in Requests : HoldsHeaders(u) /\ local'[q].headers = local[u].headers
          BY <2>1, <3>2
        <4> QED BY <3>1, <4>1
      <3> QED BY <3>1, <3>2
    <2>3. UNCHANGED <<pc, cur, passed, list>>
      BY DEF vars
    <2>4. \A p \in Requests : InPerform(p)' <=> InPerform(p)
      BY <2>3 DEF InPerform
    <2> HIDE DEF MoveAssign, MovedFrom, MemPart
    <2> SUFFICES ASSUME NEW p \in Requests, InPerform(p)', passed'[p].headers # None
                 PROVE  /\ list'[passed'[p].headers] = "live"
                        /\ \A q \in Requests :
                              /\ HoldsHeaders(q)' => local'[q].headers # passed'[p].headers
                              /\ InPerform(q)' /\ passed'[q].headers = passed'[p].headers
                                 => q = p
      BY DEF ListsFreedOnce
    <2>5. InPerform(p) /\ passed' = passed /\ list' = list
      BY <2>3, <2>4
    <2> QED BY <2>2, <2>4, <2>5
  <1> QED BY <1>4, <1>5, <1>6, <1>7, <1>10, <1>11 DEF MemorySafe

-----------------------------------------------------------------------------
(* The steps of the poller.                                                *)

\* The request moves from the coroutine to its transfer.
LEMMA AwaitMem ==
  ASSUME IInv, MemPart, NEW t \in Threads, NEW r \in Requests,
         IF t = "main" THEN pc[t] = "idle" ELSE pc[t] = "resumed",
         PerformRequest(t, r) \/ RefuseRequest(t, r), Await(r)
  PROVE  MemPart'
  <1> USE PollerAssumption, ExchangeAssumption DEF Await, MovedFrom, MemPart
  <1> DEFINE h == local[r].handle
  <1>1. /\ local[r] \in HttpRequests
        /\ Empty \in HttpRequests /\ Empty # None /\ Empty.handle = None /\ Empty.headers = None
    BY DEF MemTypeOK, Empty, HttpRequests
  <1>2. /\ local'[r] = Empty /\ passed'[r] = local[r] /\ easyOf'[r] = h
        /\ \A s \in Requests : s # r =>
              local'[s] = local[s] /\ passed'[s] = passed[s] /\ easyOf'[s] = easyOf[s]
    BY DEF MemTypeOK
  <1>3. MemTypeOK'
    <2>1. payload' \in [Requests -> {"unused", "live", "freed"}]
      BY <1>1 DEF MemTypeOK, HttpRequests
    <2>2. /\ local' \in [Requests -> HttpRequests \cup {None}]
          /\ passed' \in [Requests -> HttpRequests \cup {None}]
          /\ easyOf' \in [Requests -> Requests \cup {None}]
      BY <1>1 DEF MemTypeOK, HttpRequests
    <2> QED BY <2>1, <2>2 DEF MemTypeOK
  <1>4. NamesFresh'
    BY <1>1, <1>2 DEF NamesFresh
  <1>5. /\ coro[r] = "idle" /\ coro'[r] # "idle"
        /\ coro' = [coro EXCEPT ![r] = coro'[r]] /\ coro \in [Requests -> {"idle", "awaiting", "refused", "answered"}]
        /\ msg' = msg
        /\ coro'[r] = "awaiting" => h # None
    BY DEF PerformRequest, RefuseRequest, IInv, TypeOK
  <1>6. InHands'
    <2>1. CASE PerformRequest(t, r)
      BY <2>1, <1>1, <1>2, <1>5
         DEF PerformRequest, Goto, After, InHands, IInv, TypeOK, Threads, Other
    <2>2. CASE RefuseRequest(t, r)
      BY <2>2, <1>1, <1>2, <1>5
         DEF RefuseRequest, Goto, Caller, InHands, IInv, TypeOK, Threads, Other
    <2> QED BY <2>1, <2>2
  <1>7. ~ InUse(r)
    BY <1>5 DEF InUse, InHands
  <1>8. \A s \in Requests : s # r => (InUse(s)' <=> InUse(s))
    BY <1>5 DEF InUse
  <1>9. TransferMemoryLives'
    <2>1. ASSUME NEW q \in Requests, InUse(q)'
          PROVE  /\ easyOf'[q] # None
                 /\ easy'[easyOf'[q]] = "live"
                 /\ payload'[easyOf'[q]] = "live"
                 /\ \A s \in Requests : InUse(s)' /\ easyOf'[s] = easyOf'[q] => s = q
      <3>1. CASE q = r
        <4>1. h # None /\ h \in Requests
          BY <2>1, <3>1, <1>1, <1>5, <1>7 DEF InUse, HttpRequests
        <4>2. easy[h] = "live" /\ \A s \in Requests : InUse(s) => easyOf[s] # h
          BY <4>1 DEF MemorySafe, LocalMemoryLives, HoldsHandle
        <4> QED BY <3>1, <4>1, <4>2, <1>2, <1>8 DEF MemTypeOK
      <3>2. CASE q # r
        <4>1. InUse(q) /\ easyOf'[q] = easyOf[q] /\ easyOf[q] \in Requests
          BY <2>1, <3>2, <1>2, <1>8 DEF MemorySafe, TransferMemoryLives, MemTypeOK
        <4>2. h # None => easyOf[q] # h
          BY <4>1 DEF MemorySafe, LocalMemoryLives, HoldsHandle
        <4>3. InUse(r)' => h # None
          BY <1>5, <1>7 DEF InUse
        <4>4. payload'[easyOf[q]] = "live"
          BY <4>1, <4>2 DEF MemorySafe, TransferMemoryLives, MemTypeOK
        <4> QED
          BY <3>2, <4>1, <4>2, <4>3, <4>4, <1>2, <1>8 DEF MemorySafe, TransferMemoryLives
      <3> QED BY <3>1, <3>2
    <2> QED BY <2>1 DEF TransferMemoryLives
  <1>10. \A s \in Requests :
            /\ HoldsHandle(s)' => s # r /\ HoldsHandle(s) /\ local'[s] = local[s]
            /\ HoldsHeaders(s)' => s # r /\ HoldsHeaders(s) /\ local'[s] = local[s]
    BY <1>1, <1>2 DEF HoldsHandle, HoldsHeaders
  <1>11. LocalMemoryLives'
    <2>1. ASSUME NEW q \in Requests, HoldsHandle(q)'
          PROVE  /\ easy'[local'[q].handle] = "live"
                 /\ \A s \in Requests :
                       /\ InUse(s)' => easyOf'[s] # local'[q].handle
                       /\ HoldsHandle(s)' /\ local'[s].handle = local'[q].handle => s = q
      <3>1. q # r /\ HoldsHandle(q) /\ local'[q] = local[q]
        BY <2>1, <1>10
      <3>2. local[q].handle # h
        BY <3>1 DEF MemorySafe, LocalMemoryLives, HoldsHandle
      <3> QED
        BY <3>1, <3>2, <1>2, <1>8, <1>10 DEF MemorySafe, LocalMemoryLives
    <2>2. ASSUME NEW q \in Requests, HoldsHeaders(q)'
          PROVE  /\ list'[local'[q].headers] = "live"
                 /\ \A s \in Requests :
                       HoldsHeaders(s)' /\ local'[s].headers = local'[q].headers => s = q
      BY <2>2, <1>10 DEF MemorySafe, LocalMemoryLives
    <2> QED BY <2>1, <2>2 DEF LocalMemoryLives
  <1>12. ~ InPerform(r) /\ \A s \in Requests : s # r => (InPerform(s)' => InPerform(s))
    <2>1. ~ InPerform(r)
      BY <1>5 DEF InPerform, InHands
    <2>2. CASE PerformRequest(t, r)
      BY <2>1, <2>2 DEF PerformRequest, Goto, After, InPerform, IInv, TypeOK, Threads
    <2>3. CASE RefuseRequest(t, r)
      BY <2>1, <2>3 DEF RefuseRequest, Goto, Caller, InPerform, IInv, TypeOK, Threads
    <2> QED BY <2>1, <2>2, <2>3
  <1>13. ListsFreedOnce'
    <2> SUFFICES ASSUME NEW q \in Requests, InPerform(q)', passed'[q].headers # None
                 PROVE  /\ list'[passed'[q].headers] = "live"
                        /\ \A s \in Requests :
                              /\ HoldsHeaders(s)' => local'[s].headers # passed'[q].headers
                              /\ InPerform(s)' /\ passed'[s].headers = passed'[q].headers => s = q
      BY DEF ListsFreedOnce
    <2>1. CASE q = r
      <3>1. HoldsHeaders(r) /\ passed'[q].headers = local[r].headers
        BY <2>1, <1>1, <1>2 DEF HoldsHeaders
      <3>2. \A s \in Requests : s # r /\ InPerform(s) => passed[s].headers # local[r].headers
        BY <3>1 DEF MemorySafe, ListsFreedOnce, HoldsHeaders
      <3> QED
        BY <2>1, <3>1, <3>2, <1>2, <1>10, <1>12 DEF MemorySafe, LocalMemoryLives
    <2>2. CASE q # r
      <3>1. InPerform(q) /\ passed'[q] = passed[q]
        BY <2>2, <1>2, <1>12
      <3>2. passed'[r].headers # passed[q].headers
        BY <3>1, <2>2, <1>2 DEF MemorySafe, ListsFreedOnce, HoldsHeaders
      <3> QED
        BY <2>2, <3>1, <3>2, <1>2, <1>10, <1>12 DEF MemorySafe, ListsFreedOnce
    <2> QED BY <2>1, <2>2
  <1> QED BY <1>3, <1>4, <1>6, <1>9, <1>11, <1>13 DEF MemorySafe

\* clean() frees a list that nobody else would free.
LEMMA CleanMem ==
  ASSUME IInv, MemPart, NEW t \in Threads, CleanRequest(t), FreeHeaders(cur[t])
  PROVE  MemPart'
  <1> USE PollerAssumption, ExchangeAssumption DEF FreeHeaders, MemPart
  <1> DEFINE r == cur[t]
  <1>1. /\ UNCHANGED <<msg, coro, cur>> /\ pc[t] = "cleaning" /\ pc' = [pc EXCEPT ![t] = "counting"]
        /\ UNCHANGED <<local, passed, easyOf, easy, payload, httpheader>>
    BY DEF CleanRequest, Advance, Goto, After
  <1>2. /\ r \in Requests /\ InPerform(r) /\ passed[r] \in HttpRequests
        /\ pc \in [Threads -> MainPoints \cup WorkerPoints]
    BY <1>1 DEF InHands, InPerform, IInv, TypeOK, MemTypeOK
  <1>3. /\ ~ InPerform(r)'
        /\ \A s \in Requests : InPerform(s)' => InPerform(s) /\ s # r
    BY <1>1, <1>2 DEF InPerform, InHands, Threads, Other
  <1>4. \A l \in Requests : passed[r].headers = None \/ l # passed[r].headers => list'[l] = list[l]
    BY DEF MemTypeOK
  <1>5. MemTypeOK' /\ NamesFresh'
    BY <1>1, <1>2 DEF MemTypeOK, NamesFresh
  <1>6. InHands'
    BY <1>1, <1>2 DEF InHands, Threads, Other
  <1>7. TransferMemoryLives'
    BY <1>1 DEF MemorySafe, TransferMemoryLives, InUse
  <1>8. LocalMemoryLives'
    <2>1. ASSUME NEW q \in Requests, HoldsHandle(q)'
          PROVE  /\ easy'[local'[q].handle] = "live"
                 /\ \A s \in Requests :
                       /\ InUse(s)' => easyOf'[s] # local'[q].handle
                       /\ HoldsHandle(s)' /\ local'[s].handle = local'[q].handle => s = q
      BY <2>1, <1>1 DEF MemorySafe, LocalMemoryLives, HoldsHandle, InUse
    <2>2. ASSUME NEW q \in Requests, HoldsHeaders(q)'
          PROVE  /\ list'[local'[q].headers] = "live"
                 /\ \A s \in Requests :
                       HoldsHeaders(s)' /\ local'[s].headers = local'[q].headers => s = q
      <3>1. HoldsHeaders(q) /\ local[q].headers \in Requests
        BY <2>2, <1>1 DEF HoldsHeaders, MemTypeOK, HttpRequests
      <3>2. passed[r].headers # None => local[q].headers # passed[r].headers
        BY <3>1, <1>2 DEF MemorySafe, ListsFreedOnce
      <3> QED
        BY <3>1, <3>2, <1>1, <1>4 DEF MemorySafe, LocalMemoryLives, HoldsHeaders
    <2> QED BY <2>1, <2>2 DEF LocalMemoryLives
  <1>9. ListsFreedOnce'
    <2> SUFFICES ASSUME NEW q \in Requests, InPerform(q)', passed[q].headers # None
                 PROVE  /\ list'[passed[q].headers] = "live"
                        /\ \A s \in Requests :
                              /\ HoldsHeaders(s) => local[s].headers # passed[q].headers
                              /\ InPerform(s)' /\ passed[s].headers = passed[q].headers => s = q
      BY <1>1 DEF ListsFreedOnce, HoldsHeaders
    <2>1. InPerform(q) /\ q # r
      BY <1>3
    <2>2. passed[q].headers # passed[r].headers /\ passed[q].headers \in Requests
      BY <2>1, <1>2 DEF MemorySafe, ListsFreedOnce, InPerform, InHands, MemTypeOK, HttpRequests
    <2> QED
      BY <2>1, <2>2, <1>3, <1>4 DEF MemorySafe, ListsFreedOnce
  <1> QED BY <1>5, <1>6, <1>7, <1>8, <1>9 DEF MemorySafe

\* The worker frees the handle and the Payload of a transfer that has ended.
LEMMA ReleaseMem ==
  ASSUME IInv, MemPart, RemoveHandle, Release(msg)
  PROVE  MemPart'
  <1> USE PollerAssumption, ExchangeAssumption DEF Release, RemoveHandle, MemPart
  <1> DEFINE h == easyOf[msg]
  <1>1. msg \in Requests /\ coro[msg] = "answered" /\ msg' = None /\ UNCHANGED <<coro, cur>>
    BY DEF IInv, Whereabouts
  <1>2. InUse(msg) /\ h \in Requests /\ h # None
    BY <1>1 DEF InUse, MemorySafe, TransferMemoryLives, MemTypeOK
  <1>3. \A s \in Requests : InUse(s)' => InUse(s) /\ s # msg
    BY <1>1 DEF InUse
  <1>4. \A k \in Requests : k # h => easy'[k] = easy[k] /\ payload'[k] = payload[k]
    BY <1>2 DEF FreeEasy, MemTypeOK
  <1>5. MemTypeOK'
    BY <1>2 DEF FreeEasy, MemTypeOK
  <1>6. NamesFresh'
    <2>1. \A q \in Requests : local[q] = None => q # h
      BY <1>1, <1>2 DEF NamesFresh, MemorySafe, TransferMemoryLives
    <2> QED BY <2>1, <1>4 DEF NamesFresh
  <1>7. /\ pc \in [Threads -> MainPoints \cup WorkerPoints]
        /\ pc' = [pc EXCEPT !["worker"] = "reading"] /\ pc["worker"] = "removing"
    BY DEF IInv, TypeOK, Goto
  <1>8. InHands'
    BY <1>1, <1>7 DEF InHands, Threads, Other
  <1>9. TransferMemoryLives'
    <2> SUFFICES ASSUME NEW q \in Requests, InUse(q)'
                 PROVE  /\ easyOf[q] # None
                        /\ easy'[easyOf[q]] = "live"
                        /\ payload'[easyOf[q]] = "live"
                        /\ \A s \in Requests : InUse(s)' /\ easyOf[s] = easyOf[q] => s = q
      BY DEF TransferMemoryLives
    <2>1. InUse(q) /\ q # msg
      BY <1>3
    <2>2. easyOf[q] # h /\ easyOf[q] \in Requests
      BY <2>1, <1>1, <1>2 DEF MemorySafe, TransferMemoryLives, MemTypeOK
    <2> QED BY <2>1, <2>2, <1>3, <1>4 DEF MemorySafe, TransferMemoryLives
  <1>10. LocalMemoryLives'
    <2>1. \A q \in Requests : HoldsHandle(q) => local[q].handle # h /\ local[q].handle \in Requests
      BY <1>1, <1>2 DEF MemorySafe, LocalMemoryLives, HoldsHandle, MemTypeOK, HttpRequests
    <2> QED
      BY <2>1, <1>3, <1>4 DEF MemorySafe, LocalMemoryLives, HoldsHandle, HoldsHeaders
  <1>11. ListsFreedOnce'
    <2>1. \A s \in Requests : InPerform(s)' => InPerform(s)
      BY <1>1, <1>7 DEF InPerform, Threads
    <2> QED BY <2>1 DEF MemorySafe, ListsFreedOnce, HoldsHeaders
  <1> QED BY <1>5, <1>6, <1>8, <1>9, <1>10, <1>11 DEF MemorySafe

\* A step that leaves the memory alone keeps it safe, if it puts nothing new to
\* use.
LEMMA QuietMem ==
  ASSUME MemPart, UNCHANGED memVars, InHands',
         \A r \in Requests : (InUse(r)' => InUse(r)) /\ (InPerform(r)' => InPerform(r))
  PROVE  MemPart'
  <1> USE DEF MemPart, memVars
  <1>1. MemTypeOK' /\ NamesFresh'
    BY DEF MemTypeOK, NamesFresh
  <1>2. TransferMemoryLives'
    BY DEF MemorySafe, TransferMemoryLives
  <1>3. LocalMemoryLives'
    BY DEF MemorySafe, LocalMemoryLives, HoldsHandle, HoldsHeaders
  <1>4. ListsFreedOnce'
    BY DEF MemorySafe, ListsFreedOnce, HoldsHeaders
  <1> QED BY <1>1, <1>2, <1>3, <1>4 DEF MemorySafe

\* Every other step of the poller is such a step.
LEMMA OtherMem ==
  ASSUME IInv, MemPart, OtherStep \/ UNCHANGED vars, UNCHANGED memVars
  PROVE  MemPart'
  <1> USE PollerAssumption DEF Threads, Goto, IInv, TypeOK, Other, memVars
  <1> SUFFICES /\ InHands'
               /\ \A r \in Requests : (InUse(r)' => InUse(r)) /\ (InPerform(r)' => InPerform(r))
    BY QuietMem
  <1>0. InHands
    BY DEF MemPart
  <1>1. ASSUME NEW t \in Threads, AddHandle(t) \/ AddFails(t) \/ CountJob(t) \/ PushJob(t)
        PROVE  /\ InHands'
               /\ \A r \in Requests : (InUse(r)' => InUse(r)) /\ (InPerform(r)' => InPerform(r))
    <2>1. /\ UNCHANGED <<msg, coro>>
          /\ pc' = [pc EXCEPT ![t] = pc'[t]]
          /\ cur' = [cur EXCEPT ![t] = cur'[t]]
          /\ pc'[t] \in {"adding", "cleaning"} => pc[t] = "adding" /\ cur'[t] = cur[t]
      BY <1>1 DEF AddHandle, AddFails, CountJob, PushJob, Advance, After, Caller
    <2> QED BY <2>1, <1>0 DEF InHands, InUse, InPerform
  <1>2. ASSUME Destroy \/ WaitReturns \/ TakeJob \/ Perform \/ Poll \/ LoopFails \/ NoMessage
               \/ ResumedEnds \/ FinishJob \/ (\E r \in Requests : NetworkDone(r)) \/ UNCHANGED vars
        PROVE  /\ InHands'
               /\ \A r \in Requests : (InUse(r)' => InUse(r)) /\ (InPerform(r)' => InPerform(r))
    <2>1. UNCHANGED <<msg, coro, cur>>
      BY <1>2 DEF Destroy, WaitReturns, TakeJob, Perform, Poll, LoopFails, NoMessage,
                  ResumedEnds, FinishJob, NetworkDone, vars
    <2>2. \/ UNCHANGED pc
          \/ \E u \in Threads, p \in {"waiting", "closed", "performing", "polling", "reading",
                                      "finishing", "removing", "idle"} :
                pc' = [pc EXCEPT ![u] = p]
      BY <1>2 DEF Destroy, WaitReturns, TakeJob, Perform, Poll, LoopFails, NoMessage,
                  ResumedEnds, FinishJob, NetworkDone, vars
    <2>3. \A t \in Threads : pc'[t] \in {"adding", "cleaning"} => pc'[t] = pc[t]
      BY <2>2
    <2> QED BY <2>1, <2>3, <1>0 DEF InHands, InUse, InPerform
  <1>3. ASSUME ReadMessage
        PROVE  /\ InHands'
               /\ \A r \in Requests : (InUse(r)' => InUse(r)) /\ (InPerform(r)' => InPerform(r))
    <2>1. /\ UNCHANGED <<coro, cur>> /\ coro[msg'] = "awaiting"
          /\ \A t \in Threads : pc'[t] \in {"adding", "cleaning"} => pc'[t] = pc[t]
      BY <1>3 DEF ReadMessage, Whereabouts, Linked
    <2> QED BY <2>1, <1>0 DEF InHands, InUse, InPerform
  <1>4. ASSUME HandResult
        PROVE  /\ InHands'
               /\ \A r \in Requests : (InUse(r)' => InUse(r)) /\ (InPerform(r)' => InPerform(r))
    <2>1. /\ UNCHANGED <<msg, cur>> /\ coro' = [coro EXCEPT ![msg] = "answered"]
          /\ \A t \in Threads : pc'[t] \in {"adding", "cleaning"} => pc'[t] = pc[t]
      BY <1>4 DEF HandResult
    <2> QED BY <2>1, <1>0 DEF InHands, InUse, InPerform
  <1> QED BY <1>1, <1>2, <1>3, <1>4 DEF OtherStep

-----------------------------------------------------------------------------
\* Every step keeps the memory's part of the invariant.
LEMMA NextMem == IInv /\ MemPart /\ [ExchangeNext]_exchangeVars => MemPart'
  <1> SUFFICES ASSUME IInv, MemPart, [ExchangeNext]_exchangeVars PROVE MemPart'
    OBVIOUS
  <1>1. CASE Build
    BY <1>1, ConstructMem, SetHeaderMem, BakeMem, MoveAssignMem DEF Build
  <1>2. ASSUME NEW r \in Roots, Start(r), Await(r) PROVE MemPart'
    BY <1>2, AwaitMem, PollerAssumption DEF Start, Threads
  <1>3. ASSUME ResumedIssues, Await(Then[msg]) PROVE MemPart'
    <2>1. Then[msg] \in Requests /\ pc["worker"] = "resumed"
      BY <1>3, PollerAssumption DEF ResumedIssues, IInv, Whereabouts, Threads
    <2> QED BY <1>3, <2>1, AwaitMem DEF ResumedIssues, Threads
  <1>4. ASSUME NEW t \in Threads, CleanRequest(t), FreeHeaders(cur[t]) PROVE MemPart'
    BY <1>4, CleanMem
  <1>5. ASSUME RemoveHandle, Release(msg) PROVE MemPart'
    BY <1>5, ReleaseMem
  <1>6. ASSUME OtherStep \/ UNCHANGED vars, UNCHANGED memVars PROVE MemPart'
    BY <1>6, OtherMem
  <1> QED
    BY <1>1, <1>2, <1>3, <1>4, <1>5, <1>6
       DEF ExchangeNext, PollerStep, Terminating, exchangeVars

-----------------------------------------------------------------------------
(* What a transfer was given is freed when it ends.                        *)

\* The part of the invariant that says so.
ReturnPart == OneMessage /\ FreedAfterUse

\* Once freed, a handle and its Payload are never used for another transfer,
\* and one that is in use comes out of use only by being freed.
LEMMA FreedStaysFreed ==
  ASSUME FreedAfterUse, UNCHANGED easyOf,
         \A r \in Requests : InUse(r) => InUse(r)',
         \A r \in Requests : easyOf[r] # None =>
            /\ easy[easyOf[r]] = "freed" => easy'[easyOf[r]] = "freed"
            /\ payload[easyOf[r]] = "freed" => payload'[easyOf[r]] = "freed"
  PROVE  FreedAfterUse'
  BY DEF FreedAfterUse

\* Building requests frees a handle or makes one of a new name.
LEMMA BuildReturns ==
  ASSUME IInv, MemPart, ReturnPart, Build
  PROVE  ReturnPart'
  <1> USE PollerAssumption, ExchangeAssumption DEF MemPart, ReturnPart
  <1>1. UNCHANGED <<vars, easyOf, payload>>
    BY DEF Build, Construct, SetHeader, Bake, MoveAssign
  <1>2. \A r \in Requests : InUse(r) => InUse(r)'
    BY <1>1 DEF InUse, vars
  <1>3. \A h \in Requests : easy[h] = "freed" => easy'[h] = "freed"
    <2>1. ASSUME NEW r \in Requests, Construct(r)
          PROVE  \A h \in Requests : easy[h] = "freed" => easy'[h] = "freed"
      BY <2>1 DEF Construct, NamesFresh, MemTypeOK
    <2>2. ASSUME NEW r \in Requests, NEW s \in Requests, MoveAssign(r, s)
          PROVE  \A h \in Requests : easy[h] = "freed" => easy'[h] = "freed"
      BY <2>2 DEF MoveAssign, FreeEasy, MemTypeOK
    <2> QED BY <2>1, <2>2 DEF Build, SetHeader, Bake
  <1>4. FreedAfterUse'
    BY <1>1, <1>2, <1>3, FreedStaysFreed DEF MemTypeOK
  <1> QED BY <1>1, <1>4 DEF OneMessage, vars

\* A request is given a handle that lives, and is then in use.
LEMMA AwaitReturns ==
  ASSUME IInv, MemPart, ReturnPart, NEW t \in Threads, NEW r \in Requests,
         IF t = "main" THEN pc[t] = "idle" ELSE pc[t] = "resumed",
         PerformRequest(t, r) \/ RefuseRequest(t, r), Await(r)
  PROVE  ReturnPart'
  <1> USE PollerAssumption, ExchangeAssumption DEF MemPart, ReturnPart
  <1> DEFINE h == local[r].handle
  <1>1. /\ h \in Requests \cup {None} /\ easy' = easy
        /\ easyOf' = [easyOf EXCEPT ![r] = h] /\ easyOf \in [Requests -> Requests \cup {None}]
        /\ payload' = IF h = None THEN payload ELSE [payload EXCEPT ![h] = "live"]
        /\ payload \in [Requests -> {"unused", "live", "freed"}]
    BY DEF Await, MemTypeOK, HttpRequests
  <1>2. /\ msg' = msg
        /\ \A s \in Requests : s # r => coro'[s] = coro[s]
        /\ h # None => coro'[r] = "awaiting"
    BY DEF Await, PerformRequest, RefuseRequest, IInv, TypeOK
  <1>3. h # None => easy[h] = "live"
    BY DEF Await, MemorySafe, LocalMemoryLives, HoldsHandle
  <1>4. FreedAfterUse'
    <2> SUFFICES ASSUME NEW s \in Requests, easyOf'[s] # None, ~ InUse(s)'
                 PROVE  easy'[easyOf'[s]] = "freed" /\ payload'[easyOf'[s]] = "freed"
      BY Zenon DEF FreedAfterUse
    <2>1. s # r /\ easyOf'[s] = easyOf[s] /\ ~ InUse(s)
      BY <1>1, <1>2 DEF InUse
    <2>2. easyOf[s] # h
      BY <2>1, <1>1, <1>3 DEF FreedAfterUse
    <2> QED BY <2>1, <2>2, <1>1 DEF FreedAfterUse
  <1>5. OneMessage'
    BY <1>2 DEF OneMessage, IInv, TypeOK, PerformRequest, RefuseRequest, Goto, After, Caller,
                Submitting, Threads
  <1> QED BY <1>4, <1>5

\* The worker frees what the transfer was given.
LEMMA ReleaseReturns ==
  ASSUME IInv, MemPart, ReturnPart, RemoveHandle, Release(msg)
  PROVE  ReturnPart'
  <1> USE PollerAssumption, ExchangeAssumption DEF MemPart, ReturnPart
  <1>1. msg \in Requests /\ msg' = None /\ UNCHANGED <<coro, easyOf>>
    BY DEF IInv, Whereabouts, RemoveHandle, Release
  <1>2. easyOf[msg] \in Requests
    BY <1>1 DEF InUse, MemorySafe, TransferMemoryLives, MemTypeOK
  <1>3. \A h \in Requests :
           /\ h = easyOf[msg] \/ easy[h] = "freed" => easy'[h] = "freed"
           /\ h = easyOf[msg] \/ payload[h] = "freed" => payload'[h] = "freed"
    BY <1>2 DEF Release, FreeEasy, MemTypeOK
  <1>4. \A s \in Requests : s # msg /\ InUse(s) => InUse(s)'
    BY <1>1 DEF InUse
  <1>5. FreedAfterUse'
    BY <1>1, <1>3, <1>4 DEF FreedAfterUse, MemTypeOK
  <1> QED BY <1>1, <1>5 DEF OneMessage

\* The other steps free nothing and take nothing out of use.
LEMMA OtherReturns ==
  ASSUME IInv, MemPart, ReturnPart, UNCHANGED <<easyOf, easy, payload>>,
         OtherStep \/ (\E t \in Threads : CleanRequest(t)) \/ UNCHANGED vars
  PROVE  ReturnPart'
  <1> USE PollerAssumption DEF Threads, Goto, IInv, TypeOK, ReturnPart
  <1>1. ASSUME NEW t \in Threads,
               AddHandle(t) \/ AddFails(t) \/ CleanRequest(t) \/ CountJob(t) \/ PushJob(t)
        PROVE  UNCHANGED <<msg, coro>> /\ OneMessage'
    BY <1>1 DEF AddHandle, AddFails, CleanRequest, CountJob, PushJob, Advance, After, Caller,
                Submitting, OneMessage
  <1>2. ASSUME \/ Destroy \/ WaitReturns \/ TakeJob \/ Perform \/ Poll \/ LoopFails
               \/ NoMessage \/ ResumedEnds \/ FinishJob
               \/ (\E r \in Requests : NetworkDone(r)) \/ UNCHANGED vars
        PROVE  UNCHANGED <<msg, coro>> /\ OneMessage'
    BY ZenonT(60), <1>2 DEF Destroy, WaitReturns, TakeJob, Perform, Poll, LoopFails, NoMessage, ResumedEnds,
                FinishJob, NetworkDone, vars, Submitting, OneMessage
  <1>3. ASSUME ReadMessage
        PROVE  /\ \A r \in Requests : InUse(r) => InUse(r)'
               /\ OneMessage'
    BY <1>3 DEF ReadMessage, InUse, Submitting, OneMessage
  <1>4. ASSUME HandResult
        PROVE  /\ \A r \in Requests : InUse(r) => InUse(r)'
               /\ OneMessage'
    BY <1>4 DEF HandResult, InUse, Submitting, OneMessage
  <1>5. \A r \in Requests : InUse(r) => InUse(r)'
    BY <1>1, <1>2, <1>3, <1>4 DEF OtherStep, InUse
  <1>6. FreedAfterUse'
    BY <1>5, FreedStaysFreed
  <1> QED BY <1>1, <1>2, <1>3, <1>4, <1>6 DEF OtherStep

LEMMA NextReturns ==
  IInv /\ MemPart /\ ReturnPart /\ [ExchangeNext]_exchangeVars => ReturnPart'
  <1> SUFFICES ASSUME IInv, MemPart, ReturnPart, [ExchangeNext]_exchangeVars PROVE ReturnPart'
    OBVIOUS
  <1>1. CASE Build
    BY <1>1, BuildReturns
  <1>2. ASSUME NEW r \in Roots, Start(r), Await(r) PROVE ReturnPart'
    BY <1>2, AwaitReturns, PollerAssumption DEF Start, Threads
  <1>3. ASSUME ResumedIssues, Await(Then[msg]) PROVE ReturnPart'
    <2>1. Then[msg] \in Requests /\ pc["worker"] = "resumed"
      BY <1>3, PollerAssumption DEF ResumedIssues, IInv, Whereabouts, Threads
    <2> QED BY <1>3, <2>1, AwaitReturns DEF ResumedIssues, Threads
  <1>4. ASSUME NEW t \in Threads, CleanRequest(t), FreeHeaders(cur[t]) PROVE ReturnPart'
    BY <1>4, OtherReturns DEF FreeHeaders
  <1>5. ASSUME RemoveHandle, Release(msg) PROVE ReturnPart'
    BY <1>5, ReleaseReturns
  <1>6. ASSUME OtherStep \/ UNCHANGED vars, UNCHANGED memVars PROVE ReturnPart'
    BY <1>6, OtherReturns DEF memVars
  <1> QED
    BY <1>1, <1>2, <1>3, <1>4, <1>5, <1>6
       DEF ExchangeNext, PollerStep, Terminating, exchangeVars

-----------------------------------------------------------------------------
\* What HttpExchange adds to Poller restricts it and changes none of its steps:
\* all that is proved of Poller holds with the memory, too.
THEOREM ExchangeRefinesPoller == ExchangeSpec => Spec
  <1>1. ExchangeInit => Init
    BY DEF ExchangeInit
  <1>2. [ExchangeNext]_exchangeVars => [Next]_vars
    BY ExchangeIsPoller DEF exchangeVars
  <1> QED BY <1>1, <1>2, PTL DEF ExchangeSpec, Spec

\* The inductive invariant holds throughout.
THEOREM MemInvariance == ExchangeSpec => []MemInv
  <1>1. ExchangeInit => MemPart /\ ReturnPart
    BY InitMem DEF ExchangeInit, Init, ReturnPart, OneMessage, FreedAfterUse
  <1>2. IInv /\ MemPart /\ ReturnPart /\ [ExchangeNext]_exchangeVars
        => MemPart' /\ ReturnPart'
    BY NextMem, NextReturns
  <1>3. IInv /\ MemPart /\ ReturnPart => MemInv
    BY DEF MemPart, ReturnPart, MemInv
  <1> QED
    BY <1>1, <1>2, <1>3, ExchangeRefinesPoller, Invariance, PTL DEF ExchangeSpec

\* No easy handle, Payload or header list is freed twice, or while its holder will
\* yet use it (request.cpp:55-62, handle.cpp:74-81, poller.cpp:136-138, 201).
THEOREM MemoryIsSafe == ExchangeSpec => []MemorySafe
  <1>1. MemInv => MemorySafe
    BY DEF MemInv
  <1> QED BY <1>1, MemInvariance, PTL

\* A closed Poller, none of whose libcurl calls failed, has freed the easy handle
\* and the Payload of every request it performed (poller.cpp:54-60, 136-141): the
\* worker has ended every transfer, so that nothing is in use any more.
THEOREM NothingLeaks == ExchangeSpec => []NothingLeaked
  <1>1. MemInv => NothingLeaked
    <2> SUFFICES ASSUME MemInv, pc["main"] = "closed", failures = 0,
                        \A r \in Requests : multi[r] # "lost"
                 PROVE  \A r \in Requests : ~ InUse(r)
      BY DEF NothingLeaked, MemInv, FreedAfterUse
    <2>1. pc["worker"] = "idle" /\ queued = 0
      BY DEF MemInv, IInv, ClosedAfterLoop
    <2>2. msg = None
      BY <2>1 DEF MemInv, OneMessage, Submitting
    <2>3. \A r \in Requests : ~ Served(r)
      <3>1. \A t \in Threads : pc[t] \in {"closed", "idle"}
        BY <2>1 DEF Threads
      <3>2. ~ (queued > 0)
        BY <2>1
      <3>3. pc["worker"] # "performing" /\ pc["worker"] \notin InPass
        BY <2>1 DEF InPass
      <3>4. \A t \in Threads : pc[t] \notin {"cleaning", "counting", "pushing"}
        BY <3>1
      <3> QED BY <3>2, <3>3, <3>4, Zenon DEF Served
    <2>5. \A r \in Requests : ~ Linked(r)
      BY <2>3 DEF MemInv, IInv, LinkedServed
    <2>6. \A r \in Requests : coro[r] # "awaiting"
      BY <2>1, <2>5 DEF MemInv, IInv, Whereabouts, Threads
    <2> QED BY <2>2, <2>6, PollerAssumption DEF InUse
  <1> QED BY <1>1, MemInvariance, PTL
=============================================================================
