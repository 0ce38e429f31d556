------------------------ MODULE CoroutineTaskProofs -------------------------
(***************************************************************************)
(* Proofs about CoroutineTask for any tasks of the three kinds: whatever   *)
(* is moved, assigned, detached, read and dropped while the worker runs    *)
(* the coroutines, the frame of a BlockingTask has one owner as long as it *)
(* exists, and none afterwards.                                            *)
(***************************************************************************)
EXTENDS CoroutineTask, FiniteSetTheorems, TLAPS

\* Counting the owners of a frame says what OwnedOnce says.
LEMMA OwnersCounted ==
    ASSUME OwnedOnce, \A t \in Blockings : alive[t] \in BOOLEAN
    PROVE  FramesOwned
<1> SUFFICES ASSUME NEW t \in Blockings
             PROVE  Cardinality({o \in Tasks : handle[o] = t}) = IF alive[t] THEN 1 ELSE 0
  BY DEF FramesOwned
<1>1. CASE alive[t]
  <2>1. PICK o \in Tasks : handle[o] = t
    BY <1>1 DEF OwnedOnce
  <2>2. {p \in Tasks : handle[p] = t} = {o}
    BY <2>1 DEF OwnedOnce
  <2> QED
    BY <1>1, <2>2, FS_Singleton
<1>2. CASE ~ alive[t]
  <2>1. {p \in Tasks : handle[p] = t} = {}
    BY <1>2 DEF OwnedOnce
  <2> QED
    BY <1>2, <2>1, FS_EmptySet
<1> QED
  BY <1>1, <1>2

\* An object gives up its frame, which is destroyed with it.
LEMMA GivenUp ==
    ASSUME TaskParameters, IInv, NEW o \in Tasks, handle[o] # None, DestroyAndForget(o)
    PROVE  /\ alive' \in [Frames -> BOOLEAN]
           /\ handle' \in [Tasks -> Tasks \cup {None}]
           /\ handle'[o] = None
           /\ \A p \in Tasks \ {o} : handle'[p] = handle[p]
           /\ OwnedOnce'
<1>1. alive' = [alive EXCEPT ![handle[o]] = FALSE] /\ handle' = [handle EXCEPT ![o] = None]
  BY DEF DestroyAndForget, Destroy
<1>2. /\ handle[o] \in Tasks /\ handle'[o] = None
      /\ \A p \in Tasks \ {o} : handle'[p] = handle[p]
      /\ ~ alive'[handle[o]]
      /\ \A t \in Frames \ {handle[o]} : alive'[t] = alive[t]
  BY <1>1 DEF IInv, TypeOK, Frames, Tasks
<1>3. alive' \in [Frames -> BOOLEAN] /\ handle' \in [Tasks -> Tasks \cup {None}]
  BY <1>1 DEF IInv, TypeOK
<1>4. OwnedOnce'
  BY <1>2 DEF IInv, OwnedOnce, Tasks, Frames, TaskParameters
<1> QED
  BY <1>2, <1>3, <1>4

(***************************************************************************)
(* The worker.                                                             *)
(***************************************************************************)

LEMMA ResumeCoroutineInv ==
    ASSUME TaskParameters, IInv, NEW t \in Frames, ResumeCoroutine(t)
    PROVE  IInv'
<1>1. /\ co[t] = "awaiting" /\ co'[t] \in {"running"} 
      /\ co' \in [Frames -> Points]
      /\ \A u \in Frames \ {t} : co'[u] = co[u]
      /\ worker' = t /\ worker = None
  BY DEF IInv, TypeOK, Points, CoGoto, TaskParameters, Frames, Tasks, WorkerFree, Destroy, ResumeCoroutine
<1>2. OneAtATime'
  BY <1>1 DEF IInv, TypeOK, OneAtATime, TaskParameters, Frames, Tasks
<1>3. TypeOK'
  BY <1>1, <1>2 DEF IInv, TypeOK, ResumeCoroutine, promise, object
<1>4. CallsTyped'
  BY <1>1 DEF IInv, TypeOK, CallsTyped, Frames, Tasks, ResumeCoroutine, promise, object
<1>5. OwnedOnce'
  BY <1>1 DEF IInv, OwnedOnce, CallsTyped, Frames, Tasks, ResumeCoroutine, promise, object
<1> QED
  BY <1>3, <1>4, <1>5 DEF IInv

LEMMA ReturnInv ==
    ASSUME TaskParameters, IInv, NEW t \in Frames, Return(t)
    PROVE  IInv'
<1>1. /\ co[t] = "running" /\ co'[t] \in {"finishing", "readying", "ending"}
      /\ t \in Blockings => co'[t] = "readying" 
      /\ co' \in [Frames -> Points]
      /\ \A u \in Frames \ {t} : co'[u] = co[u]
      /\ worker' = worker
  BY DEF IInv, TypeOK, Points, CoGoto, TaskParameters, Frames, Tasks, WorkerFree, Destroy, Return
<1>2. OneAtATime'
  BY <1>1 DEF IInv, TypeOK, OneAtATime, TaskParameters, Frames, Tasks
<1>3. TypeOK'
  BY <1>1, <1>2 DEF IInv, TypeOK, Return, object
<1>4. CallsTyped'
  BY <1>1 DEF IInv, TypeOK, CallsTyped, Frames, Tasks, Return, object
<1>5. OwnedOnce'
  BY <1>1 DEF IInv, OwnedOnce, CallsTyped, Frames, Tasks, Return, object
<1> QED
  BY <1>3, <1>4, <1>5 DEF IInv

LEMMA LookForCallbackInv ==
    ASSUME TaskParameters, IInv, NEW t \in Frames, LookForCallback(t)
    PROVE  IInv'
<1>1. /\ co[t] = "finishing" /\ co'[t] \in {"calling", "deciding"} 
      /\ co' \in [Frames -> Points]
      /\ \A u \in Frames \ {t} : co'[u] = co[u]
      /\ worker' = worker
  BY DEF IInv, TypeOK, Points, CoGoto, TaskParameters, Frames, Tasks, WorkerFree, Destroy, LookForCallback
<1>2. OneAtATime'
  BY <1>1 DEF IInv, TypeOK, OneAtATime, TaskParameters, Frames, Tasks
<1>3. TypeOK'
  BY <1>1, <1>2 DEF IInv, TypeOK, LookForCallback, promise, object
<1>4. CallsTyped'
  BY <1>1 DEF IInv, TypeOK, CallsTyped, Frames, Tasks, LookForCallback, promise, object
<1>5. OwnedOnce'
  BY <1>1 DEF IInv, OwnedOnce, CallsTyped, Frames, Tasks, LookForCallback, promise, object
<1> QED
  BY <1>3, <1>4, <1>5 DEF IInv

LEMMA CallCallbackInv ==
    ASSUME TaskParameters, IInv, NEW t \in Frames, CallCallback(t)
    PROVE  IInv'
<1>1. /\ co[t] = "calling" /\ co'[t] \in {"deciding"} 
      /\ co' \in [Frames -> Points]
      /\ \A u \in Frames \ {t} : co'[u] = co[u]
      /\ worker' = worker
  BY DEF IInv, TypeOK, Points, CoGoto, TaskParameters, Frames, Tasks, WorkerFree, Destroy, CallCallback
<1>2. OneAtATime'
  BY <1>1 DEF IInv, TypeOK, OneAtATime, TaskParameters, Frames, Tasks
<1>3. TypeOK'
  <2>1. called' \in [Frames -> BOOLEAN] /\ needToSuspend' \in [Frames -> BOOLEAN]
    BY DEF IInv, TypeOK, CallCallback
  <2> QED
    BY <1>1, <1>2, <2>1 DEF IInv, TypeOK, CallCallback, object
<1>4. CallsTyped'
  BY <1>1 DEF IInv, TypeOK, CallsTyped, Frames, Tasks, CallCallback, object
<1>5. OwnedOnce'
  BY <1>1 DEF IInv, OwnedOnce, CallsTyped, Frames, Tasks, CallCallback, object
<1> QED
  BY <1>3, <1>4, <1>5 DEF IInv

LEMMA DecideSuspendInv ==
    ASSUME TaskParameters, IInv, NEW t \in Frames, DecideSuspend(t)
    PROVE  IInv'
<1>1. /\ co[t] = "deciding" /\ co'[t] \in {"done", "gone"} 
      /\ co' \in [Frames -> Points]
      /\ \A u \in Frames \ {t} : co'[u] = co[u]
      /\ worker' = None
      /\ alive' \in [Frames -> BOOLEAN] /\ \A u \in Frames \ {t} : alive'[u] = alive[u]
  BY ZenonT(60) DEF IInv, TypeOK, Points, CoGoto, TaskParameters, Frames, Tasks, WorkerFree, Destroy, DecideSuspend
<1>2. OneAtATime'
  BY <1>1 DEF IInv, TypeOK, OneAtATime, TaskParameters, Frames, Tasks
<1>3. TypeOK'
  BY <1>1, <1>2 DEF IInv, TypeOK, DecideSuspend, promise, object
<1>4. CallsTyped'
  BY <1>1 DEF IInv, TypeOK, CallsTyped, Frames, Tasks, DecideSuspend, promise, object
<1>5. OwnedOnce'
  BY <1>1 DEF IInv, OwnedOnce, CallsTyped, Frames, Tasks, DecideSuspend, promise, object
<1> QED
  BY <1>3, <1>4, <1>5 DEF IInv

LEMMA EndInv ==
    ASSUME TaskParameters, IInv, NEW t \in Frames, End(t)
    PROVE  IInv'
<1>1. /\ co[t] = "ending" /\ co'[t] \in {"gone"} 
      /\ co' \in [Frames -> Points]
      /\ \A u \in Frames \ {t} : co'[u] = co[u]
      /\ worker' = None
      /\ alive' \in [Frames -> BOOLEAN] /\ \A u \in Frames \ {t} : alive'[u] = alive[u]
  BY DEF IInv, TypeOK, Points, CoGoto, TaskParameters, Frames, Tasks, WorkerFree, Destroy, End
<1>2. OneAtATime'
  BY <1>1 DEF IInv, TypeOK, OneAtATime, TaskParameters, Frames, Tasks
<1>3. TypeOK'
  BY <1>1, <1>2 DEF IInv, TypeOK, End, promise, object
<1>4. CallsTyped'
  BY <1>1 DEF IInv, TypeOK, CallsTyped, Frames, Tasks, End, promise, object
<1>5. OwnedOnce'
  BY <1>1 DEF IInv, OwnedOnce, CallsTyped, Frames, Tasks, End, promise, object
<1> QED
  BY <1>3, <1>4, <1>5 DEF IInv

LEMMA SetReadyInv ==
    ASSUME TaskParameters, IInv, NEW t \in Frames, SetReady(t)
    PROVE  IInv'
<1>1. /\ co[t] = "readying" /\ co'[t] \in {"notifying"} 
      /\ co' \in [Frames -> Points]
      /\ \A u \in Frames \ {t} : co'[u] = co[u]
      /\ worker' = worker
  BY DEF IInv, TypeOK, Points, CoGoto, TaskParameters, Frames, Tasks, WorkerFree, Destroy, SetReady
<1>2. OneAtATime'
  BY <1>1 DEF IInv, TypeOK, OneAtATime, TaskParameters, Frames, Tasks
<1>3. TypeOK'
  BY ZenonT(60), <1>1, <1>2 DEF IInv, TypeOK, SetReady, object
<1>4. CallsTyped'
  BY <1>1 DEF IInv, TypeOK, CallsTyped, Frames, Tasks, SetReady, object
<1>5. OwnedOnce'
  BY <1>1 DEF IInv, OwnedOnce, CallsTyped, Frames, Tasks, SetReady, object
<1> QED
  BY <1>3, <1>4, <1>5 DEF IInv

LEMMA NotifyInv ==
    ASSUME TaskParameters, IInv, NEW t \in Frames, Notify(t)
    PROVE  IInv'
<1>1. /\ co[t] = "notifying" /\ co'[t] \in {"suspending"} 
      /\ co' \in [Frames -> Points]
      /\ \A u \in Frames \ {t} : co'[u] = co[u]
      /\ worker' = worker
  BY DEF IInv, TypeOK, Points, CoGoto, TaskParameters, Frames, Tasks, WorkerFree, Destroy, Notify
<1>2. OneAtATime'
  BY <1>1 DEF IInv, TypeOK, OneAtATime, TaskParameters, Frames, Tasks
<1>3. TypeOK'
  BY <1>1, <1>2 DEF IInv, TypeOK, Notify, Notified, promise
<1>4. CallsTyped'
  BY <1>1 DEF IInv, TypeOK, CallsTyped, Frames, Tasks, Notify, Notified, promise
<1>5. OwnedOnce'
  BY <1>1 DEF IInv, OwnedOnce, CallsTyped, Frames, Tasks, Notify, Notified, promise
<1> QED
  BY <1>3, <1>4, <1>5 DEF IInv

LEMMA SuspendInv ==
    ASSUME TaskParameters, IInv, NEW t \in Frames, Suspend(t)
    PROVE  IInv'
<1>1. /\ co[t] = "suspending" /\ co'[t] \in {"done"} 
      /\ co' \in [Frames -> Points]
      /\ \A u \in Frames \ {t} : co'[u] = co[u]
      /\ worker' = None
  BY DEF IInv, TypeOK, Points, CoGoto, TaskParameters, Frames, Tasks, WorkerFree, Destroy, Suspend
<1>2. OneAtATime'
  BY <1>1 DEF IInv, TypeOK, OneAtATime, TaskParameters, Frames, Tasks
<1>3. TypeOK'
  BY <1>1, <1>2 DEF IInv, TypeOK, Suspend, promise, object
<1>4. CallsTyped'
  BY <1>1 DEF IInv, TypeOK, CallsTyped, Frames, Tasks, Suspend, promise, object
<1>5. OwnedOnce'
  BY <1>1 DEF IInv, OwnedOnce, CallsTyped, Frames, Tasks, Suspend, promise, object
<1> QED
  BY <1>3, <1>4, <1>5 DEF IInv

(***************************************************************************)
(* The client.                                                             *)
(***************************************************************************)

LEMMA ThenLooksInv ==
    ASSUME TaskParameters, IInv, NEW o \in Tasks, ThenLooks(o)
    PROVE  IInv'
<1>1. TypeOK'
  BY DEF IInv, TypeOK, OneAtATime, ThenLooks, Holds, ClientGoto, promise, TaskParameters
<1>2. CallsTyped'
  BY DEF IInv, TypeOK, CallsTyped, ThenLooks, Holds, ClientGoto, promise, TaskParameters
<1>3. OwnedOnce'
  BY DEF IInv, OwnedOnce, ThenLooks, Holds, ClientGoto, promise, TaskParameters
<1> QED
  BY <1>1, <1>2, <1>3 DEF IInv

LEMMA ThenStoresInv ==
    ASSUME TaskParameters, IInv, NEW o \in Tasks, ThenStores(o)
    PROVE  IInv'
<1>1. TypeOK'
  BY ZenonT(60) DEF IInv, TypeOK, OneAtATime, ThenStores, ClientGoto
<1>2. CallsTyped'
  BY DEF IInv, TypeOK, CallsTyped, ThenStores, ClientGoto
<1>3. OwnedOnce'
  BY DEF IInv, OwnedOnce, ThenStores, ClientGoto
<1> QED
  BY <1>1, <1>2, <1>3 DEF IInv

LEMMA GetInv ==
    ASSUME TaskParameters, IInv, NEW o \in Tasks, Get(o)
    PROVE  IInv'
<1>1. TypeOK'
  BY DEF IInv, TypeOK, OneAtATime, Get, Holds, ClientGoto, promise
<1>2. CallsTyped'
  BY DEF IInv, TypeOK, CallsTyped, Get, Holds, ClientGoto, promise
<1>3. OwnedOnce'
  BY DEF IInv, OwnedOnce, Get, Holds, ClientGoto, promise
<1> QED
  BY <1>1, <1>2, <1>3 DEF IInv

LEMMA CheckReadyInv ==
    ASSUME TaskParameters, IInv, NEW o \in Tasks, CheckReady(o)
    PROVE  IInv'
<1>1. TypeOK'
  BY DEF IInv, TypeOK, OneAtATime, CheckReady, ClientGoto, promise
<1>2. CallsTyped'
  BY DEF IInv, TypeOK, CallsTyped, CheckReady, ClientGoto, promise
<1>3. OwnedOnce'
  BY DEF IInv, OwnedOnce, CheckReady, ClientGoto, promise
<1> QED
  BY <1>1, <1>2, <1>3 DEF IInv

LEMMA WakeUpInv ==
    ASSUME TaskParameters, IInv, NEW o \in Tasks, WakeUp(o)
    PROVE  IInv'
<1>1. TypeOK'
  BY DEF IInv, TypeOK, OneAtATime, WakeUp, ClientGoto, promise
<1>2. CallsTyped'
  BY DEF IInv, TypeOK, CallsTyped, WakeUp, ClientGoto, promise
<1>3. OwnedOnce'
  BY DEF IInv, OwnedOnce, WakeUp, ClientGoto, promise
<1> QED
  BY <1>1, <1>2, <1>3 DEF IInv

LEMMA GetReturnInv ==
    ASSUME TaskParameters, IInv, NEW o \in Tasks, GetReturn(o)
    PROVE  IInv'
<1>1. TypeOK'
  <2>1. payload[o] \in Frames
    BY DEF IInv, CallsTyped, GetReturn, Tasks, Frames
  <2>2. /\ outcome[payload[o]] \in {"none", "settled"}
        /\ \E v \in {outcome[payload[o]], "garbage"} : result' = [result EXCEPT ![payload[o]] = v]
    BY <2>1 DEF IInv, TypeOK, GetReturn
  <2>3. result' \in [Frames -> {"none", "settled", "garbage"}]
    BY <2>1, <2>2 DEF IInv, TypeOK
  <2>4. payload' \in [Tasks -> Tasks \cup {None}]
    BY DEF IInv, TypeOK, GetReturn
  <2> QED
    BY <2>3, <2>4 DEF IInv, TypeOK, OneAtATime, GetReturn, ClientGoto, promise
<1>2. CallsTyped'
  BY DEF IInv, TypeOK, CallsTyped, GetReturn, ClientGoto, promise, Tasks, Frames
<1>3. OwnedOnce'
  BY DEF IInv, OwnedOnce, GetReturn, ClientGoto, promise, Tasks, Frames
<1> QED
  BY <1>1, <1>2, <1>3 DEF IInv

LEMMA ThenCallsInv ==
    ASSUME TaskParameters, IInv, NEW o \in Tasks, ThenCalls(o)
    PROVE  IInv'
<1>1. /\ client[o] = "calling" /\ handle[o] # None
      /\ DestroyAndForget(o)
  BY DEF IInv, CallsTyped, TaskParameters, ThenCalls, Holds
<1>2. /\ alive' \in [Frames -> BOOLEAN]
      /\ handle' \in [Tasks -> Tasks \cup {None}]
      /\ handle'[o] = None
      /\ \A p \in Tasks \ {o} : handle'[p] = handle[p]
      /\ OwnedOnce'
  BY <1>1, GivenUp
<1>3. TypeOK'
  <2>1. called' \in [Frames -> BOOLEAN]
    BY DEF IInv, TypeOK, ThenCalls
  <2>2. client' \in [Tasks -> {"holding", "storing", "calling", "checking", "asleep", "moving",
                                "returning", "left"}]
    BY DEF IInv, TypeOK, ThenCalls, ClientGoto
  <2>3. UNCHANGED <<co, payload, worker, promise, result>>
    BY DEF ThenCalls
  <2> QED
    BY <1>2, <2>1, <2>2, <2>3 DEF IInv, TypeOK, OneAtATime, promise
<1>4. CallsTyped'
  BY <1>1, <1>2 DEF IInv, TypeOK, CallsTyped, ThenCalls, ClientGoto
<1> QED
  BY <1>2, <1>3, <1>4 DEF IInv

LEMMA DetachFrameInv ==
    ASSUME TaskParameters, IInv, NEW o \in Tasks, DetachFrame(o)
    PROVE  IInv'
<1>1. /\ client[o] = "moving" /\ handle[o] # None
      /\ DestroyAndForget(o)
  BY DEF IInv, CallsTyped, TaskParameters, DetachFrame, Holds
<1>2. /\ alive' \in [Frames -> BOOLEAN]
      /\ handle' \in [Tasks -> Tasks \cup {None}]
      /\ handle'[o] = None
      /\ \A p \in Tasks \ {o} : handle'[p] = handle[p]
      /\ OwnedOnce'
  BY <1>1, GivenUp
<1>3. TypeOK'
  BY <1>1, <1>2 DEF IInv, TypeOK, OneAtATime, Tasks, Frames, DetachFrame, ClientGoto, promise
<1>4. CallsTyped'
  BY <1>1, <1>2 DEF IInv, TypeOK, CallsTyped, DetachFrame, ClientGoto, promise
<1> QED
  BY <1>2, <1>3, <1>4 DEF IInv

LEMMA DetachInv ==
    ASSUME TaskParameters, IInv, NEW o \in Tasks, Detach(o)
    PROVE  IInv'
<1>1. /\ client[o] = "holding" /\ handle[o] # None
      /\ DestroyAndForget(o)
  BY DEF IInv, CallsTyped, TaskParameters, Detach, Holds
<1>2. /\ alive' \in [Frames -> BOOLEAN]
      /\ handle' \in [Tasks -> Tasks \cup {None}]
      /\ handle'[o] = None
      /\ \A p \in Tasks \ {o} : handle'[p] = handle[p]
      /\ OwnedOnce'
  BY <1>1, GivenUp
<1>3. TypeOK'
  BY <1>1, <1>2 DEF IInv, TypeOK, OneAtATime, Tasks, Frames, Detach, promise
<1>4. CallsTyped'
  BY <1>1, <1>2 DEF IInv, TypeOK, CallsTyped, Detach, promise
<1> QED
  BY <1>2, <1>3, <1>4 DEF IInv

LEMMA DropTaskInv ==
    ASSUME TaskParameters, IInv, NEW o \in Tasks, DropTask(o)
    PROVE  IInv'
<1>1. /\ client[o] = "holding"
      /\ client' = [client EXCEPT ![o] = "left"] /\ handle' = [handle EXCEPT ![o] = None]
      /\ UNCHANGED <<co, payload, worker, promise, called, result>>
  BY DEF DropTask, ClientGoto
<1>2. /\ alive' \in [Frames -> BOOLEAN]
      /\ handle' \in [Tasks -> Tasks \cup {None}]
      /\ handle'[o] = None
      /\ \A p \in Tasks \ {o} : handle'[p] = handle[p]
      /\ OwnedOnce'
  <2>1. CASE o \in Blockings /\ handle[o] # None
    <3>1. DestroyAndForget(o)
      BY <2>1 DEF DropTask, DestroyAndForget
    <3> QED
      BY <2>1, <3>1, GivenUp
  <2>2. CASE ~ (o \in Blockings /\ handle[o] # None)
    <3>1. alive' = alive
      BY <2>2 DEF DropTask
    <3>2. /\ handle'[o] = None /\ handle[o] \notin Blockings
          /\ \A p \in Tasks \ {o} : handle'[p] = handle[p]
      BY <1>1, <2>2 DEF IInv, TypeOK, CallsTyped, TaskParameters, Tasks
    <3>3. OwnedOnce'
      BY <3>1, <3>2 DEF IInv, OwnedOnce, TaskParameters
    <3> QED
      BY <1>1, <3>1, <3>2, <3>3 DEF IInv, TypeOK
  <2> QED
    BY <2>1, <2>2
<1>3. TypeOK'
  BY <1>1, <1>2 DEF IInv, TypeOK, OneAtATime, promise
<1>4. CallsTyped'
  BY <1>1, <1>2 DEF IInv, TypeOK, CallsTyped
<1> QED
  BY <1>2, <1>3, <1>4 DEF IInv

\* The frame goes from one object to the other, and the one it replaces, if there
\* is one, is destroyed.
LEMMA MoveToInv ==
    ASSUME TaskParameters, IInv, NEW o \in Tasks, NEW p \in Tasks, MoveTo(o, p)
    PROVE  IInv'
<1>1. /\ o # p /\ (o \in Blockings <=> p \in Blockings)
      /\ client[p] = "holding" /\ handle[p] # None
      /\ handle' = [handle EXCEPT ![o] = handle[p], ![p] = None]
      /\ client' = [client EXCEPT ![o] = "holding"]
      /\ UNCHANGED <<co, payload, worker, promise, called, result>>
  <2>1. o # p /\ ({o, p} \subseteq Thenables \/ {o, p} \subseteq Blockings)
    BY DEF MoveTo
  <2>2. o \in Blockings <=> p \in Blockings
    BY <2>1 DEF TaskParameters
  <2> QED
    BY <2>1, <2>2 DEF MoveTo, Holds, LeftIn, ClientGoto
<1>2. /\ handle'[o] = handle[p] /\ handle'[p] = None
      /\ \A q \in Tasks \ {o, p} : handle'[q] = handle[q]
      /\ handle' \in [Tasks -> Tasks \cup {None}]
      /\ handle[p] \in Tasks
  BY <1>1 DEF IInv, TypeOK
<1>3. alive' \in [Frames -> BOOLEAN] /\ OwnedOnce'
  <2>1. CASE handle[o] # None
    <3>1. alive' = [alive EXCEPT ![handle[o]] = FALSE]
      BY <2>1 DEF MoveTo, Holds, Destroy, IInv, CallsTyped
    <3>2. /\ handle[o] \in Tasks
          /\ ~ alive'[handle[o]]
          /\ \A t \in Frames \ {handle[o]} : alive'[t] = alive[t]
      BY <2>1, <3>1 DEF IInv, TypeOK, Frames
    <3>3. OwnedOnce'
      BY <1>1, <1>2, <3>2 DEF IInv, OwnedOnce, Tasks, Frames, TaskParameters
    <3> QED
      BY <3>1, <3>3 DEF IInv, TypeOK
  <2>2. CASE handle[o] = None
    <3>1. alive' = alive
      BY <2>2 DEF MoveTo, Holds
    <3>2. OwnedOnce'
      BY <1>1, <1>2, <2>2, <3>1 DEF IInv, OwnedOnce, Tasks, TaskParameters
    <3> QED
      BY <3>1, <3>2 DEF IInv, TypeOK
  <2> QED
    BY <2>1, <2>2
<1>4. TypeOK'
  BY <1>1, <1>2, <1>3 DEF IInv, TypeOK, OneAtATime, promise
<1>5. CallsTyped'
  BY <1>1, <1>2 DEF IInv, TypeOK, CallsTyped, TaskParameters, Tasks
<1> QED
  BY <1>3, <1>4, <1>5 DEF IInv

-----------------------------------------------------------------------------
LEMMA InitIInv ==
    ASSUME TaskParameters, Init
    PROVE  IInv
<1>1. TypeOK
  BY DEF Init, TypeOK, OneAtATime, Points, TaskParameters, Tasks, Frames
<1>2. CallsTyped
  BY DEF Init, CallsTyped, TaskParameters, Tasks, Frames
<1>3. OwnedOnce
  BY DEF Init, OwnedOnce, Tasks, Frames
<1> QED
  BY <1>1, <1>2, <1>3 DEF IInv

LEMMA NextIInv ==
    ASSUME TaskParameters, IInv, [Next]_vars
    PROVE  IInv'
<1>1. ASSUME NEW t \in Frames, WorkerStep(t)
      PROVE  IInv'
  BY <1>1, ResumeCoroutineInv, ReturnInv, LookForCallbackInv, CallCallbackInv,
     DecideSuspendInv, EndInv, SetReadyInv, NotifyInv, SuspendInv DEF WorkerStep
<1>2. ASSUME NEW o \in Tasks, ClientStep(o)
      PROVE  IInv'
  BY <1>2, ThenStoresInv, ThenCallsInv, CheckReadyInv, DetachFrameInv, GetReturnInv
  DEF ClientStep
<1>3. ASSUME NEW o \in Tasks, ClientCall(o)
      PROVE  IInv'
  BY <1>3, ThenLooksInv, GetInv, DetachInv, DropTaskInv, MoveToInv DEF ClientCall
<1>4. ASSUME NEW o \in Tasks, WakeUp(o)
      PROVE  IInv'
  BY <1>4, WakeUpInv
<1>5. ASSUME UNCHANGED vars
      PROVE  IInv'
  <2>1. TypeOK'
    BY <1>5 DEF IInv, TypeOK, OneAtATime, vars, object, promise
  <2>2. CallsTyped' /\ OwnedOnce'
    BY <1>5 DEF IInv, CallsTyped, OwnedOnce, vars, object
  <2> QED
    BY <2>1, <2>2 DEF IInv
<1> QED
  BY <1>1, <1>2, <1>3, <1>4, <1>5 DEF Next, Finished

(***************************************************************************)
(* The theorems.                                                           *)
(***************************************************************************)

\* The strengthening holds in every state.
THEOREM Invariance ==
    ASSUME TaskParameters
    PROVE  Spec => []IInv
<1>1. Init => IInv
  BY InitIInv
<1>2. IInv /\ [Next]_vars => IInv'
  BY NextIInv
<1> QED
  BY <1>1, <1>2, PTL DEF Spec

\* Type correctness: among the rest, the worker is at one coroutine at a time.
THEOREM TypeCorrect ==
    ASSUME TaskParameters
    PROVE  Spec => []TypeOK
<1>1. IInv => TypeOK
  BY DEF IInv
<1> QED
  BY <1>1, Invariance, PTL

\* Each frame of a BlockingTask has one object that will destroy it as long as it
\* exists, and none afterwards: none leaks, and none is destroyed twice.
THEOREM FramesAreOwned ==
    ASSUME TaskParameters
    PROVE  Spec => []FramesOwned
<1>1. IInv => FramesOwned
  BY OwnersCounted DEF IInv, TypeOK, Frames, Tasks
<1> QED
  BY <1>1, Invariance, PTL
=============================================================================
