-------------------------- MODULE TaskGraphProofs ---------------------------
(***************************************************************************)
(* The task graph of pstd::ThreadPool, for any number of workers, any      *)
(* graph, and any tasks that tasks submit: whatever thread has which task, *)
(* none starts before its predecessors have ended, each wait() ends a      *)
(* round in which every task has run once, and what Cancel() holds back    *)
(* stays back.                                                             *)
(*                                                                         *)
(* The tasks are followed from spot to spot; in round n, which the n-th    *)
(* submission of the graph begins, RoundInv(n) ties where a task is to how *)
(* often it has run and to which of its predecessors have counted it.      *)
(***************************************************************************)
EXTENDS ThreadPoolProofs

-----------------------------------------------------------------------------
(* Where the tasks are                                                     *)

Submitting == {"counting", "pushing", "notifying"}

\* The spots of a thread: what it submits (-2), its next task (-1), its task (0)
\* and the places of its queue.
Spots == {-2, -1} \cup Nat

What(t, i) ==
    IF i = -2 THEN IF pc[t] \in {"counting", "pushing"} THEN sub[t] ELSE None
    ELSE IF i = -1 THEN next[t]
    ELSE IF i = 0 THEN task[t]
    ELSE IF i \in DOMAIN queues[t] THEN queues[t][i] ELSE None

\* How far the thread is with its task.
Stage(t) ==
    IF pc[t] \in {"starting", "invoking", "running"} THEN pc[t]
    ELSE IF pc[t] \in {"visiting", "releasing"} THEN "visiting"
    ELSE IF pc[t] \in Submitting /\ task[t] # None
         THEN IF next[t] = None THEN "running" ELSE "visiting"
    ELSE "off"

On(t, k, g) == task[t] = k /\ Stage(t) = g

\* The task has been submitted or made ready, and is not invoked yet.
Waiting(k) ==
    \E t \in Threads, i \in Spots :
       What(t, i) = k /\ (i = 0 => Stage(t) \in {"starting", "invoking"})

\* A task is at one spot at most.
Unique ==
    \A t, u \in Threads, i, j \in Spots :
       What(t, i) = What(u, j) /\ What(t, i) # None => t = u /\ i = j

\* A thread has a next task only while it visits the successors of its task.
NextHeld ==
    \A t \in Threads :
       /\ next[t] # None => task[t] # None /\ pc[t] \in {"releasing"} \cup Submitting
       /\ pc[t] = "releasing" => next[t] # None

\* The step leaves every task where it is.
Unmoved ==
    \A t \in Threads :
       /\ \A i \in Spots : What(t, i)' = What(t, i)
       /\ Stage(t)' = Stage(t)
       /\ task'[t] = task[t] /\ todo'[t] = todo[t]

OffPoints == {"finishing", "announcing", "asleep", "woken", "popping", "stealing", "taking", "missed"}
             \cup ClientPoints \cup WorkerPoints

\* So does a thread that stays, that goes on with submit() or returns from it,
\* or that has no task.
Still(u) ==
    \/ pc'[u] = pc[u] /\ sub'[u] = sub[u]
    \/ pc[u] \in OffPoints /\ pc'[u] \in OffPoints
    \/ pc[u] = "counting" /\ pc'[u] = "pushing" /\ sub'[u] = sub[u]
    \/ pc[u] = "notifying" /\ pc'[u] = Caller(u)

LEMMA StillUnmoved ==
  ASSUME IInv, NextHeld, queues' = queues, task' = task, next' = next, todo' = todo,
         \A u \in Threads : Still(u)
  PROVE  Unmoved /\ NextHeld'
  <1>1. ASSUME NEW u \in Threads
        PROVE  Stage(u)' = Stage(u)
    BY
       DEF IInv, TaskHeld, NextHeld, Still, Stage, Submitting, OffPoints, ClientPoints,
           WorkerPoints, Caller
  <1>2. ASSUME NEW u \in Threads, NEW i \in Spots
        PROVE  What(u, i)' = What(u, i)
    BY DEF Still, What, OffPoints, ClientPoints, WorkerPoints, Caller
  <1>3. NextHeld'
    BY DEF IInv, TaskHeld, NextHeld, Still, Submitting, OffPoints, ClientPoints, WorkerPoints, Caller
  <1> QED BY <1>1, <1>2, <1>3 DEF Unmoved

\* The steps that move no task.
LEMMA UnmovedSteps ==
  ASSUME IInv, NextHeld,
         \/ \E t \in Threads \ {0} : Loop(t)
         \/ \E t \in Threads : \/ CountTask(t) \/ NotifyOne(t) \/ Recheck(t) \/ LookAtFront(t) \/ Miss(t)
                               \/ Finish(t) \/ Announce(t)
         \/ LoadCount \/ Block \/ SetStop \/ RaiseCount \/ Rouse \/ Join \/ Wait \/ WaitFor
         \/ \E k \in Tasks : Cancel(k) \/ Reset(k)
         \/ UNCHANGED vars
  PROVE  Unmoved /\ NextHeld'
  <1> SUFFICES /\ queues' = queues /\ task' = task /\ next' = next /\ todo' = todo
               /\ \A u \in Threads : Still(u)
    BY StillUnmoved
  <1> USE ThreadsFinite
  <1>1. CASE \E t \in Threads \ {0} : Loop(t)
    BY <1>1
       DEF IInv, ThreadsTyped, Loop, Goto, queueVars, execVars, Still, OffPoints, ClientPoints,
           WorkerPoints
  <1>2. ASSUME NEW t \in Threads, CountTask(t)
        PROVE  /\ queues' = queues /\ task' = task /\ next' = next /\ todo' = todo
               /\ \A u \in Threads : Still(u)
    BY <1>2 DEF IInv, ThreadsTyped, CountTask, SubmitOrder, Goto, queueVars, execVars, Still
  <1>3. ASSUME NEW t \in Threads, NotifyOne(t)
        PROVE  /\ queues' = queues /\ task' = task /\ next' = next /\ todo' = todo
               /\ \A u \in Threads : Still(u)
    BY <1>3 DEF IInv, ThreadsTyped, NotifyOne, Asleep, Goto, queueVars, Still, OffPoints
  <1>4. ASSUME NEW t \in Threads, Recheck(t)
        PROVE  /\ queues' = queues /\ task' = task /\ next' = next /\ todo' = todo
               /\ \A u \in Threads : Still(u)
    BY <1>4 DEF IInv, ThreadsTyped, Recheck, Goto, queueVars, execVars, Still, OffPoints, ClientPoints
  <1>5. ASSUME NEW t \in Threads, LookAtFront(t)
        PROVE  /\ queues' = queues /\ task' = task /\ next' = next /\ todo' = todo
               /\ \A u \in Threads : Still(u)
    BY <1>5 DEF IInv, ThreadsTyped, LookAtFront, NextVictim, Goto, execVars, Still, OffPoints
  <1>6. ASSUME NEW t \in Threads, Miss(t)
        PROVE  /\ queues' = queues /\ task' = task /\ next' = next /\ todo' = todo
               /\ \A u \in Threads : Still(u)
    BY <1>6
       DEF IInv, ThreadsTyped, Miss, Goto, queueVars, execVars, Still, OffPoints, ClientPoints,
           WorkerPoints
  <1>7. ASSUME NEW t \in Threads, Finish(t)
        PROVE  /\ queues' = queues /\ task' = task /\ next' = next /\ todo' = todo
               /\ \A u \in Threads : Still(u)
    BY <1>7
       DEF IInv, ThreadsTyped, Finish, Executed, Goto, queueVars, execVars, Still, OffPoints,
           ClientPoints, WorkerPoints
  <1>8. ASSUME NEW t \in Threads, Announce(t)
        PROVE  /\ queues' = queues /\ task' = task /\ next' = next /\ todo' = todo
               /\ \A u \in Threads : Still(u)
    BY <1>8
       DEF IInv, ThreadsTyped, Announce, NotifyAll, Asleep, queueVars, execVars, Still,
           OffPoints, ClientPoints, WorkerPoints
  <1>9. CASE LoadCount \/ Block \/ SetStop \/ RaiseCount \/ Join \/ Wait \/ WaitFor
    BY <1>9 DEF IInv, ThreadsTyped, LoadCount, Block, SetStop, RaiseCount, Join, Wait, WaitFor, Goto,
                queueVars, execVars, Still, OffPoints, ClientPoints
  <1>10. CASE Rouse
    BY <1>10
       DEF IInv, ThreadsTyped, Rouse, NotifyAll, Asleep, queueVars, execVars, Still, OffPoints,
           ClientPoints
  <1>11. CASE (\E k \in Tasks : Cancel(k) \/ Reset(k)) \/ UNCHANGED vars
    BY <1>11 DEF Cancel, Reset, vars, queueVars, execVars, Still
  <1> QED BY <1>1, <1>2, <1>3, <1>4, <1>5, <1>6, <1>7, <1>8, <1>9, <1>10, <1>11

\* The threads that run or visit go on as they are.
SameRunners ==
    \A t \in Threads :
       /\ \A g \in {"running", "visiting"} : Stage(t)' = g <=> Stage(t) = g
       /\ Stage(t) \in {"running", "visiting"} => task'[t] = task[t] /\ todo'[t] = todo[t]

\* The step moves tasks that wait, and makes none appear or vanish.
Moved ==
    /\ SameRunners
    /\ Unique => Unique'
    /\ \A k \in Tasks : /\ Waiting(k)' <=> Waiting(k)
                        /\ (\E t \in Threads : task[t] = k) => \E t \in Threads : task'[t] = k
                        /\ \A t \in Threads : On(t, k, "invoking")'
                              => On(t, k, "invoking") \/ remaining'[k] = TotalPredecessors[k]
    /\ (\A t \in Threads, i \in Spots : What(t, i) = None)
       => \A t \in Threads, i \in Spots : What(t, i)' = None

LEMMA UnmovedMoved ==
  ASSUME Unmoved
  PROVE  Moved
  <1>1. SameRunners
    BY DEF Unmoved, SameRunners
  <1>2. ASSUME Unique PROVE Unique'
    BY <1>2 DEF Unmoved, Unique
  <1>3. ASSUME NEW k \in Tasks
        PROVE  /\ Waiting(k)' <=> Waiting(k)
               /\ (\E t \in Threads : task[t] = k) => \E t \in Threads : task'[t] = k
               /\ \A t \in Threads : On(t, k, "invoking")' => On(t, k, "invoking")
    BY DEF Unmoved, Waiting, On
  <1>4. (\A t \in Threads, i \in Spots : What(t, i) = None)
        => \A t \in Threads, i \in Spots : What(t, i)' = None
    BY DEF Unmoved
  <1> QED BY <1>1, <1>2, <1>3, <1>4 DEF Moved

\* A waiting task moves from one spot of the thread to another that was free.
OneMove(t, i, j) ==
    /\ t \in Threads /\ i \in Spots \ {0} /\ j \in Spots /\ i # j
    /\ What(t, j) = None /\ What(t, j)' = What(t, i) /\ What(t, i)' = None
    /\ \A u \in Threads, x \in Spots :
          <<u, x>> \notin {<<t, i>>, <<t, j>>} => What(u, x)' = What(u, x)
    /\ \A u \in Threads : Stage(u)' = Stage(u) \/ (u = t /\ j = 0)
    /\ j = 0 => Stage(t)' = "starting"

LEMMA OneMoveMoves ==
  ASSUME SameRunners, NEW t, NEW i, NEW j, OneMove(t, i, j)
  PROVE  Moved
  <1>1. /\ t \in Threads /\ i \in Spots \ {0} /\ j \in Spots /\ i # j
        /\ What(t, j) = None /\ What(t, j)' = What(t, i) /\ What(t, i)' = None
        /\ \A u \in Threads, x \in Spots :
              <<u, x>> \notin {<<t, i>>, <<t, j>>} => What(u, x)' = What(u, x)
        /\ \A u \in Threads : Stage(u)' = Stage(u) \/ (u = t /\ j = 0)
        /\ j = 0 => Stage(t)' = "starting"
    BY DEF OneMove
  <1> USE <1>1
  <1>7. 0 \in Spots /\ (\A u \in Threads : What(u, 0) = task[u] /\ What(u, 0)' = task'[u]) /\ None \notin Tasks
    BY ConstantsTyped DEF What, Spots
  <1>2. ASSUME Unique PROVE Unique'
    <2> SUFFICES ASSUME NEW u \in Threads, NEW v \in Threads, NEW x \in Spots, NEW y \in Spots,
                        What(u, x)' = What(v, y)', What(u, x)' # None
                 PROVE  u = v /\ x = y
      BY DEF Unique
    <2>1. CASE u = t /\ x = j /\ v = t /\ y = j
      BY <2>1
    <2>2. CASE u = t /\ x = j /\ <<v, y>> # <<t, j>>
      <3>1. What(v, y) = What(t, i) /\ What(t, i) # None /\ <<v, y>> # <<t, i>>
        BY <2>2
      <3>2. v = t /\ y = i
        BY <1>2, <3>1 DEF Unique
      <3> QED BY <3>1, <3>2
    <2>3. CASE v = t /\ y = j /\ <<u, x>> # <<t, j>>
      <3>1. What(u, x) = What(t, i) /\ What(t, i) # None /\ <<u, x>> # <<t, i>>
        BY <2>3
      <3> QED BY <1>2, <3>1, <2>3 DEF Unique
    <2>4. CASE <<u, x>> # <<t, j>> /\ <<v, y>> # <<t, j>>
      <3>1. What(u, x) = What(u, x)' /\ What(v, y) = What(v, y)'
        BY <2>4
      <3> QED BY <1>2, <3>1 DEF Unique
    <2> QED BY <2>1, <2>2, <2>3, <2>4
  <1>3. ASSUME NEW k \in Tasks
        PROVE  Waiting(k)' <=> Waiting(k)
    <2>1. ASSUME Waiting(k) PROVE Waiting(k)'
      <3>1. PICK u \in Threads, x \in Spots : What(u, x) = k /\ (x = 0 => Stage(u) \in {"starting", "invoking"})
        BY <2>1 DEF Waiting
      <3>2. <<u, x>> # <<t, j>>
        BY <3>1, <1>7
      <3>3. CASE <<u, x>> = <<t, i>>
        BY <3>1, <3>3 DEF Waiting
      <3>4. CASE <<u, x>> # <<t, i>>
        <4>1. What(u, x)' = k /\ (x = 0 => Stage(u)' \in {"starting", "invoking"})
          BY <3>1, <3>2, <3>4
        <4> QED BY <4>1 DEF Waiting
      <3> QED BY <3>3, <3>4
    <2>2. ASSUME Waiting(k)' PROVE Waiting(k)
      <3>1. PICK u \in Threads, x \in Spots : What(u, x)' = k /\ (x = 0 => Stage(u)' \in {"starting", "invoking"})
        BY <2>2 DEF Waiting
      <3>2. CASE <<u, x>> = <<t, j>>
        <4>1. What(t, i) = k
          BY <3>1, <3>2
        <4> QED BY <4>1 DEF Waiting
      <3>3. CASE <<u, x>> # <<t, j>>
        <4>1. What(u, x) = k /\ (x = 0 => Stage(u) \in {"starting", "invoking"})
          BY <3>1, <3>3, <1>7
        <4> QED BY <4>1 DEF Waiting
      <3> QED BY <3>2, <3>3
    <2> QED BY <2>1, <2>2
  <1>4. ASSUME NEW k \in Tasks, NEW u \in Threads, task[u] = k
        PROVE  task'[u] = k
    <2>1. What(u, 0) = k /\ <<u, 0>> \notin {<<t, i>>, <<t, j>>}
      BY <1>4, <1>7
    <2> QED BY <1>7, <2>1
  <1>5. ASSUME NEW k \in Tasks, NEW u \in Threads, On(u, k, "invoking")'
        PROVE  On(u, k, "invoking")
    <2>1. task'[u] = k /\ Stage(u)' = "invoking" /\ <<u, 0>> \notin {<<t, i>>, <<t, j>>}
      BY <1>5 DEF On
    <2> QED BY <1>1, <1>7, <2>1 DEF On
  <1>6. ASSUME \A u \in Threads, x \in Spots : What(u, x) = None
        PROVE  \A u \in Threads, x \in Spots : What(u, x)' = None
    BY <1>6
  <1> QED BY <1>2, <1>3, <1>4, <1>5, <1>6 DEF Moved

\* submit() moves the task to the back of its thread's queue.
LEMMA PushTaskMoves ==
  ASSUME IInv, NextHeld, NEW t \in Threads, PushTask(t)
  PROVE  Moved /\ NextHeld'
  <1>1. /\ pc[t] = "pushing" /\ pc' = [pc EXCEPT ![t] = "notifying"]
        /\ queues' = [queues EXCEPT ![t] = Append(queues[t], sub[t])]
        /\ task' = task /\ next' = next /\ todo' = todo /\ sub' = sub
        /\ pc \in [Threads -> Points \cup ClientPoints \cup WorkerPoints]
        /\ queues \in [Threads -> Seq(Tasks)] /\ queues[t] \in Seq(Tasks) /\ sub[t] \in Tasks
    BY DEF IInv, ThreadsTyped, TaskHeld, PushTask, SubmitOrder, Goto, execVars
  <1> PICK back \in Nat : back = Len(queues[t]) + 1
    BY <1>1
  <1>2. /\ queues'[t] = Append(queues[t], sub[t])
        /\ back \in Nat \ {0} /\ Len(queues[t]) \in Nat
        /\ DOMAIN queues[t] = 1 .. Len(queues[t]) /\ DOMAIN queues'[t] = 1 .. back
        /\ queues'[t][back] = sub[t]
        /\ \A x \in DOMAIN queues[t] : queues'[t][x] = queues[t][x]
        /\ \A u \in Threads \ {t} : queues'[u] = queues[u]
    BY <1>1, AppendProperties
  <1>3. /\ What(t, back) = None /\ What(t, back)' = What(t, -2) /\ What(t, -2)' = None
    <2>1. back \notin DOMAIN queues[t] /\ back \in DOMAIN queues'[t]
      BY <1>2
    <2>2. back # -2 /\ back # -1 /\ back # 0
      BY <1>2
    <2>3. What(t, back) = None
      BY <2>1, <2>2 DEF What
    <2>4. What(t, -2) = sub[t]
      BY <1>1 DEF What
    <2>5. What(t, -2)' = None
      BY <1>1 DEF What
    <2>6. What(t, back)' = sub[t]
      BY <1>2, <2>1, <2>2 DEF What
    <2> QED BY <2>3, <2>4, <2>5, <2>6
  <1>4. ASSUME NEW u \in Threads, NEW x \in Spots, <<u, x>> \notin {<<t, -2>>, <<t, back>>}
        PROVE  What(u, x)' = What(u, x)
    <2>1. CASE u # t
      BY <1>1, <1>2, <2>1 DEF What
    <2>2. CASE u = t
      <3>1. x # -2 /\ x # back
        BY <1>4, <2>2
      <3>2. x \in DOMAIN queues'[t] <=> x \in DOMAIN queues[t]
        BY <1>2, <3>1 DEF Spots
      <3> QED BY <1>1, <1>2, <2>2, <3>1, <3>2 DEF What
    <2> QED BY <2>1, <2>2
  <1>5. \A u \in Threads : Stage(u)' = Stage(u)
    BY <1>1 DEF Stage, Submitting
  <1>6. SameRunners
    BY <1>1, <1>5 DEF SameRunners
  <1>8. -2 \in Spots \ {0} /\ back \in Spots /\ back # -2 /\ back # 0
    BY <1>2 DEF Spots
  <1>9. Moved
    <2>1. OneMove(t, -2, back)
      BY <1>3, <1>4, <1>5, <1>8 DEF OneMove
    <2> QED BY <1>6, <2>1, OneMoveMoves
  <1>10. NextHeld'
    BY <1>1 DEF NextHeld, Submitting
  <1> QED BY <1>9, <1>10

\* The owner takes the back of its queue, or leaves everything where it is.
LEMMA PopOwnMoves ==
  ASSUME IInv, NextHeld, NEW t \in Threads, PopOwn(t)
  PROVE  Moved /\ NextHeld'
  <1>1. /\ pc[t] = "popping" /\ task[t] = None /\ next[t] = None
        /\ next' = next /\ todo' = todo /\ sub' = sub
        /\ pc \in [Threads -> Points \cup ClientPoints \cup WorkerPoints]
        /\ task \in [Threads -> Tasks \cup {None}]
        /\ queues \in [Threads -> Seq(Tasks)] /\ queues[t] \in Seq(Tasks)
    BY DEF IInv, ThreadsTyped, TaskHeld, NextHeld, PopOwn, Take, execVars, Submitting
  <1>2. CASE queues[t] = <<>>
    <2>1. pc' = [pc EXCEPT ![t] = "stealing"] /\ queues' = queues /\ task' = task
      BY <1>2 DEF PopOwn, Goto, execVars
    <2>2. \A u \in Threads : Still(u)
      BY <1>1, <2>1 DEF Still, OffPoints
    <2> QED BY <1>1, <2>1, <2>2, StillUnmoved, UnmovedMoved
  <1>3. CASE queues[t] # <<>>
    <2> PICK back \in Nat : back = Len(queues[t])
      BY <1>1
    <2>1. /\ pc' = [pc EXCEPT ![t] = "starting"]
          /\ task' = [task EXCEPT ![t] = Last(queues[t])]
          /\ queues' = [queues EXCEPT ![t] = Front(queues[t])]
      BY <1>3 DEF PopOwn, Take, Goto
    <2>2. /\ back \in Nat \ {0} /\ Front(queues[t]) \in Seq(Tasks) /\ Len(Front(queues[t])) = back - 1
      BY <1>1, <1>3, WithoutTheLast
    <2>3. Last(queues[t]) = queues[t][back]
      BY DEF Last
    <2>4. \A x \in 1 .. back - 1 : Front(queues[t])[x] = queues[t][x]
      BY <1>1, <2>2 DEF Front
    <2>5. /\ DOMAIN queues[t] = 1 .. back /\ DOMAIN queues'[t] = 1 .. back - 1
          /\ queues'[t] = Front(queues[t])
          /\ \A u \in Threads \ {t} : queues'[u] = queues[u]
      <3>1. queues'[t] = Front(queues[t]) /\ \A u \in Threads \ {t} : queues'[u] = queues[u]
        BY <1>1, <2>1
      <3> QED BY <1>1, <2>2, <3>1
    <2>6. /\ What(t, 0) = None /\ What(t, 0)' = What(t, back) /\ What(t, back)' = None
      <3>1. What(t, 0) = None
        BY <1>1 DEF What
      <3>2. What(t, 0)' = queues[t][back]
        BY <1>1, <2>1, <2>3 DEF What
      <3>3. back # -2 /\ back # -1 /\ back # 0 /\ back \in DOMAIN queues[t] /\ back \notin DOMAIN queues'[t]
        BY <2>2, <2>5
      <3>4. What(t, back) = queues[t][back]
        BY <3>3 DEF What
      <3>5. What(t, back)' = None
        BY <3>3 DEF What
      <3> QED BY <3>1, <3>2, <3>4, <3>5
    <2>7. ASSUME NEW u \in Threads, NEW x \in Spots, <<u, x>> \notin {<<t, back>>, <<t, 0>>}
          PROVE  What(u, x)' = What(u, x)
      <3>1. CASE u # t
        BY <1>1, <2>1, <2>5, <3>1 DEF What
      <3>2. CASE u = t
        <4>1. x # 0 /\ x # back
          BY <2>7, <3>2
        <4>2. /\ x \in DOMAIN queues'[t] <=> x \in DOMAIN queues[t]
              /\ x \in DOMAIN queues[t] => queues'[t][x] = queues[t][x]
          BY <2>2, <2>4, <2>5, <4>1 DEF Spots
        <4> QED BY <1>1, <2>1, <3>2, <4>1, <4>2 DEF What
      <3> QED BY <3>1, <3>2
    <2>8. /\ \A u \in Threads \ {t} : Stage(u)' = Stage(u) /\ task'[u] = task[u]
          /\ Stage(t) = "off" /\ Stage(t)' = "starting"
      BY <1>1, <2>1 DEF Stage, Submitting
    <2>9. SameRunners
      BY <1>1, <2>8 DEF SameRunners
    <2>11. back \in Spots \ {0} /\ 0 \in Spots /\ back # 0
      BY <2>2 DEF Spots
    <2>12. Moved
      <3>1. OneMove(t, back, 0)
        BY <2>6, <2>7, <2>8, <2>11 DEF OneMove
      <3> QED BY <2>9, <3>1, OneMoveMoves
    <2>13. NextHeld'
      BY <1>1, <2>1 DEF NextHeld, Submitting
    <2> QED BY <2>12, <2>13
  <1> QED BY <1>2, <1>3

\* A thief takes the front of queue w, or leaves everything where it is.
LEMMA TakeFrontMoves ==
  ASSUME IInv, NextHeld, NEW t \in Threads, TakeFront(t)
  PROVE  Moved /\ NextHeld'
  <1>1. /\ pc[t] = "taking" /\ task[t] = None /\ next[t] = None
        /\ next' = next /\ todo' = todo /\ sub' = sub
        /\ pc \in [Threads -> Points \cup ClientPoints \cup WorkerPoints]
        /\ task \in [Threads -> Tasks \cup {None}]
        /\ queues \in [Threads -> Seq(Tasks)]
    BY DEF IInv, ThreadsTyped, TaskHeld, NextHeld, TakeFront, Take, execVars, Submitting
  <1>2. CASE ~ aim[t]
    <2>1. /\ pc' = [pc EXCEPT ![t] = "missed"] \/ pc' = [pc EXCEPT ![t] = "stealing"]
          /\ queues' = queues /\ task' = task
      BY <1>2 DEF TakeFront, NextVictim, Goto, execVars
    <2>2. \A u \in Threads : Still(u)
      BY <1>1, <2>1 DEF Still, OffPoints
    <2> QED BY <1>1, <2>1, <2>2, StillUnmoved, UnmovedMoved
  <1>3. CASE aim[t]
    <2> PICK w \in Threads : w = Victim(t)
      BY VictimIsThread DEF IInv, ThreadsTyped
    <2>1. queues[w] \in Seq(Tasks) /\ queues[w] # <<>>
      BY <1>3 DEF IInv, ThreadsTyped, AimTrue
    <2>2. /\ pc' = [pc EXCEPT ![t] = "starting"]
          /\ task' = [task EXCEPT ![t] = Head(queues[w])]
          /\ queues' = [queues EXCEPT ![w] = Tail(queues[w])]
      BY <1>3 DEF TakeFront, Take, Goto
    <2> PICK n \in Nat : n = Len(queues[w])
      BY <2>1
    <2>3. /\ n >= 1 /\ Head(queues[w]) = queues[w][1]
          /\ Tail(queues[w]) \in Seq(Tasks) /\ Len(Tail(queues[w])) = n - 1
          /\ \A x \in 1 .. n - 1 : Tail(queues[w])[x] = queues[w][x + 1]
      BY <2>1
    <2>4. /\ DOMAIN queues[w] = 1 .. n /\ DOMAIN queues'[w] = 1 .. n - 1
          /\ queues'[w] = Tail(queues[w])
          /\ \A u \in Threads \ {w} : queues'[u] = queues[u]
      <3>1. queues'[w] = Tail(queues[w]) /\ \A u \in Threads \ {w} : queues'[u] = queues[u]
        BY <1>1, <2>2
      <3> QED BY <2>1, <2>3, <3>1
    <2>5. /\ What(t, 0) = None /\ What(t, 0)' = What(w, 1)
          /\ \A u \in Threads : What(u, 0) = task[u] /\ What(u, 0)' = task'[u]
      <3>1. What(w, 1) = queues[w][1]
        BY <2>3, <2>4 DEF What
      <3> QED BY <1>1, <2>2, <2>3, <3>1 DEF What
    <2>6. \A x \in Nat \ {0} : What(w, x)' = What(w, x + 1)
      <3> SUFFICES ASSUME NEW x \in Nat \ {0}
                   PROVE  What(w, x)' = What(w, x + 1)
        OBVIOUS
      <3>1. /\ x \in DOMAIN queues'[w] <=> x + 1 \in DOMAIN queues[w]
            /\ x \in DOMAIN queues'[w] => queues'[w][x] = queues[w][x + 1]
        BY <2>3, <2>4
      <3>2. x + 1 \in Nat \ {0, 1}
        OBVIOUS
      <3>3. What(w, x)' = IF x \in DOMAIN queues'[w] THEN queues'[w][x] ELSE None
        BY DEF What
      <3>4. What(w, x + 1) = IF x + 1 \in DOMAIN queues[w] THEN queues[w][x + 1] ELSE None
        BY <3>2 DEF What
      <3> QED BY <3>1, <3>3, <3>4
    <2>7. ASSUME NEW u \in Threads, NEW x \in Spots, <<u, x>> # <<t, 0>>, u = w => x \notin Nat \ {0}
          PROVE  What(u, x)' = What(u, x)
      <3>1. CASE x \in Nat \ {0}
        BY <2>4, <2>7, <3>1 DEF What
      <3>2. CASE x \in {-2, -1, 0}
        BY <1>1, <2>2, <2>7, <3>2 DEF What
      <3> QED BY <3>1, <3>2 DEF Spots
    <2>8. /\ \A u \in Threads \ {t} : Stage(u)' = Stage(u) /\ task'[u] = task[u]
          /\ Stage(t) = "off" /\ Stage(t)' = "starting"
      BY <1>1, <2>2 DEF Stage, Submitting
    <2>9. SameRunners
      BY <1>1, <2>8 DEF SameRunners
    <2>10. \A u \in Threads, x \in Spots : \E v \in Threads, y \in Spots :
              /\ What(u, x)' = What(v, y)
              /\ \/ u = t /\ x = 0 /\ v = w /\ y = 1
                 \/ u = w /\ x \in Nat \ {0} /\ v = w /\ y = x + 1
                 \/ u = v /\ x = y /\ <<u, x>> # <<t, 0>> /\ (u = w => x \notin Nat \ {0})
      <3> SUFFICES ASSUME NEW u \in Threads, NEW x \in Spots
                   PROVE  \E v \in Threads, y \in Spots :
                            /\ What(u, x)' = What(v, y)
                            /\ \/ u = t /\ x = 0 /\ v = w /\ y = 1
                               \/ u = w /\ x \in Nat \ {0} /\ v = w /\ y = x + 1
                               \/ u = v /\ x = y /\ <<u, x>> # <<t, 0>> /\ (u = w => x \notin Nat \ {0})
        OBVIOUS
      <3>1. CASE u = t /\ x = 0
        BY <3>1, <2>5 DEF Spots
      <3>2. CASE u = w /\ x \in Nat \ {0}
        <4>1. x + 1 \in Spots
          BY <3>2 DEF Spots
        <4> QED BY <3>2, <4>1, <2>6
      <3>3. CASE <<u, x>> # <<t, 0>> /\ (u = w => x \notin Nat \ {0})
        BY <3>3, <2>7
      <3> QED BY <3>1, <3>2, <3>3
    <2>11. ASSUME Unique PROVE Unique'
      <3> SUFFICES ASSUME NEW u \in Threads, NEW v \in Threads, NEW x \in Spots, NEW y \in Spots,
                          What(u, x)' = What(v, y)', What(u, x)' # None
                   PROVE  u = v /\ x = y
        BY DEF Unique
      <3>1. PICK a \in Threads, i \in Spots :
              /\ What(u, x)' = What(a, i)
              /\ \/ u = t /\ x = 0 /\ a = w /\ i = 1
                 \/ u = w /\ x \in Nat \ {0} /\ a = w /\ i = x + 1
                 \/ u = a /\ x = i /\ <<u, x>> # <<t, 0>> /\ (u = w => x \notin Nat \ {0})
        BY <2>10
      <3>2. PICK b \in Threads, j \in Spots :
              /\ What(v, y)' = What(b, j)
              /\ \/ v = t /\ y = 0 /\ b = w /\ j = 1
                 \/ v = w /\ y \in Nat \ {0} /\ b = w /\ j = y + 1
                 \/ v = b /\ y = j /\ <<v, y>> # <<t, 0>> /\ (v = w => y \notin Nat \ {0})
        BY <2>10
      <3>3. What(a, i) = What(b, j) /\ What(a, i) # None
        BY <3>1, <3>2
      <3>4. a = b /\ i = j
        BY <2>11, <3>3 DEF Unique
      <3> QED BY <3>1, <3>2, <3>4
    <2>12. ASSUME NEW k \in Tasks
           PROVE  Waiting(k)' <=> Waiting(k)
      <3>1. ASSUME Waiting(k)' PROVE Waiting(k)
        <4>1. PICK u \in Threads, x \in Spots :
                What(u, x)' = k /\ (x = 0 => Stage(u)' \in {"starting", "invoking"})
          BY <3>1 DEF Waiting
        <4>2. PICK v \in Threads, y \in Spots :
              /\ What(u, x)' = What(v, y)
              /\ \/ u = t /\ x = 0 /\ v = w /\ y = 1
                 \/ u = w /\ x \in Nat \ {0} /\ v = w /\ y = x + 1
                 \/ u = v /\ x = y /\ <<u, x>> # <<t, 0>> /\ (u = w => x \notin Nat \ {0})
          BY <2>10
        <4>3. y = 0 => Stage(v) \in {"starting", "invoking"}
          BY <4>1, <4>2, <2>8
        <4> QED BY <4>1, <4>2, <4>3 DEF Waiting
      <3>2. ASSUME Waiting(k) PROVE Waiting(k)'
        <4>1. PICK u \in Threads, x \in Spots :
                What(u, x) = k /\ (x = 0 => Stage(u) \in {"starting", "invoking"})
          BY <3>2 DEF Waiting
        <4>2. <<u, x>> # <<t, 0>>
          BY <4>1, <2>8
        <4>3. CASE u = w /\ x \in Nat \ {0}
          <5>1. CASE x = 1
            <6>1. What(t, 0)' = k /\ 0 \in Spots
              BY <4>1, <4>3, <5>1, <2>5 DEF Spots
            <6> QED BY <6>1, <2>8 DEF Waiting
          <5>2. CASE x # 1
            <6>1. x - 1 \in Nat \ {0} /\ (x - 1) + 1 = x
              BY <4>3, <5>2
            <6> PICK y \in Nat \ {0} : y = x - 1
              BY <6>1
            <6>2. What(w, y)' = k /\ y \in Spots /\ y # 0
              BY <4>1, <4>3, <6>1, <2>6 DEF Spots
            <6> QED BY <6>2 DEF Waiting
          <5> QED BY <5>1, <5>2
        <4>4. CASE u = w => x \notin Nat \ {0}
          <5>1. What(u, x)' = k /\ (x = 0 => Stage(u)' \in {"starting", "invoking"})
            BY <4>1, <4>2, <4>4, <2>7, <2>8
          <5> QED BY <5>1 DEF Waiting
        <4> QED BY <4>3, <4>4
      <3> QED BY <3>1, <3>2
    <2>13. ASSUME NEW k \in Tasks
           PROVE  /\ (\E u \in Threads : task[u] = k) => \E u \in Threads : task'[u] = k
                  /\ \A u \in Threads : On(u, k, "invoking")' => On(u, k, "invoking")
      BY <1>1, <2>8, ConstantsTyped DEF On
    <2>14. ASSUME \A u \in Threads, x \in Spots : What(u, x) = None
           PROVE  \A u \in Threads, x \in Spots : What(u, x)' = None
      BY <2>10, <2>14
    <2>15. NextHeld'
      BY <1>1, <2>2 DEF NextHeld, Submitting
    <2> QED BY <2>9, <2>11, <2>12, <2>13, <2>14, <2>15 DEF Moved
  <1> QED BY <1>2, <1>3

-----------------------------------------------------------------------------
(* The graph of the tasks                                                  *)

\* The graph, the counts of its tasks and what the client was told of them.
Tallies ==
    /\ graph \in Graphs
    /\ remaining \in [Tasks -> Int]
    /\ flags \in [Tasks -> SUBSET {"cancelled", "invoked"}]
    /\ batch \subseteq Roots
    /\ submits \in [Tasks -> 0 .. graph.rounds]
    /\ started \in [Tasks -> Nat] /\ ended \in [Tasks -> Nat]
    /\ verdict \in [Tasks -> SUBSET {"held", "late"}]

LEMMA PositionsAre ==
  ASSUME NEW f, NEW k, NEW e
  PROVE  e \in Positions(f, k)
         <=> \E p \in Tasks : \E i \in DOMAIN f[p] : e = <<p, i>> /\ f[p][i] = k
  BY DEF Positions

\* There are finitely many.
LEMMA PositionsFinite ==
  ASSUME NEW f \in [Tasks -> Seq(Tasks)], NEW k
  PROVE  IsFiniteSet(Positions(f, k)) /\ Cardinality(Positions(f, k)) \in Nat
  <1> DEFINE of(t) == {t} \X {i \in DOMAIN f[t] : f[t][i] = k}
  <1>1. ASSUME NEW t \in Tasks
        PROVE  IsFiniteSet(of(t))
    <2> DEFINE one == {t}
               places == {i \in DOMAIN f[t] : f[t][i] = k}
    <2>1. IsFiniteSet(one)
      BY FS_Singleton
    <2>2. Len(f[t]) \in Int /\ 1 \in Int /\ DOMAIN f[t] = 1 .. Len(f[t])
      OBVIOUS
    <2>3. IsFiniteSet(1 .. Len(f[t]))
      BY <2>2, FS_Interval
    <2>4. places \subseteq 1 .. Len(f[t])
      BY <2>2
    <2>5. IsFiniteSet(places)
      BY <2>3, <2>4, FS_Subset
    <2> HIDE DEF one, places
    <2>6. IsFiniteSet(one \X places)
      BY <2>1, <2>5, FS_Product
    <2> QED BY <2>6 DEF one, places
  <1> DEFINE all == {of(t) : t \in Tasks}
             map == [t \in Tasks |-> of(t)]
  <1>2. map \in Surjection(Tasks, all)
    BY DEF Surjection
  <1>3. \A S \in all : IsFiniteSet(S)
    BY <1>1
  <1>4. Positions(f, k) = UNION all
    BY DEF Positions
  <1> HIDE DEF of, all, map
  <1>5. IsFiniteSet(all)
    BY <1>2, ThreadPoolAssumption, FS_Surjection
  <1>6. IsFiniteSet(UNION all)
    BY <1>3, <1>5, FS_UNION
  <1> QED BY <1>4, <1>6, FS_CardinalityType

LEMMA TotalCounts ==
  ASSUME graph \in Graphs, NEW k \in Tasks
  PROVE  /\ TotalPredecessors[k] = Cardinality(Positions(Successors, k))
         /\ TotalPredecessors[k] \in Nat
         /\ IsFiniteSet(Positions(Successors, k))
         /\ TotalPredecessors[k] = 0 => Positions(Successors, k) = {}
         /\ k \in Roots <=> Positions(Successors, k) = {} /\ Positions(Spawns, k) = {}
  <1>1. IsFiniteSet(Positions(Successors, k)) /\ Cardinality(Positions(Successors, k)) \in Nat
    BY GraphsTyped, PositionsFinite
  <1>2. TotalPredecessors[k] = Cardinality(Positions(Successors, k))
    BY DEF TotalPredecessors
  <1>3. Cardinality(Positions(Successors, k)) = 0 <=> Positions(Successors, k) = {}
    BY <1>1, FS_EmptySet
  <1> QED BY <1>1, <1>2, <1>3 DEF Roots

-----------------------------------------------------------------------------
(* A round: what happens from one submission of the graph to the next      *)

\* In round n, the thread that runs task p has taken its i-th successor off the
\* list, and the i-th submission of its function.
EdgeDone(n, p, i) ==
    ended[p] = n /\ \A t \in Threads : On(t, p, "visiting") => i + Len(todo[t]) <= Len(Successors[p])

SpawnDone(n, p, i) ==
    started[p] = n /\ \A t \in Threads : On(t, p, "running") => i + Len(todo[t]) <= Len(Spawns[p])

\* The predecessors that task k still waits for.
Open(n, k) == {e \in Positions(Successors, k) : ~ EdgeDone(n, e[1], e[2])}

\* The task has been submitted, by the client or by a task, or made ready.
Arrived(n, k) ==
    /\ Open(n, k) = {}
    /\ k \in Roots => submits[k] = n
    /\ \A e \in Positions(Spawns, k) : SpawnDone(n, e[1], e[2])

Counts(n) ==
    \A k \in Tasks :
       /\ started[k] \in {n - 1, n} /\ ended[k] \in {n - 1, n} /\ ended[k] <= started[k]
       /\ k \in Roots => submits[k] \in {n - 1, n}
       /\ k \in batch => submits[k] = n

Stages(n) ==
    \A k \in Tasks :
       /\ Waiting(k) => started[k] = n - 1
       /\ \A t \in Threads : /\ On(t, k, "running") => started[k] = n /\ ended[k] = n - 1
                             /\ On(t, k, "visiting") => ended[k] = n
       /\ started[k] = n /\ ended[k] # n => \E t \in Threads : task[t] = k

\* A task waits or has started when it has arrived, and unless it was cancelled,
\* only then.
Arrivals(n) ==
    \A k \in Tasks :
       /\ Waiting(k) \/ started[k] = n => Arrived(n, k)
       /\ Cancellable = {} /\ Arrived(n, k) => Waiting(k) \/ started[k] = n

\* The count of a task is that of its open predecessors, until it is set anew.
Remains(n) ==
    \A k \in Tasks :
       /\ \/ remaining[k] = Cardinality(Open(n, k))
          \/ Open(n, k) = {} /\ remaining[k] = TotalPredecessors[k]
       /\ started[k] = n \/ (\E t \in Threads : On(t, k, "invoking"))
          => remaining[k] = TotalPredecessors[k]

\* Nothing is left of a round when the client submits the first root of the next.
QuietWhenEmpty == batch = {} => \A t \in Threads, i \in Spots : What(t, i) = None

RoundInv(n) == Unique /\ Counts(n) /\ Stages(n) /\ Arrivals(n) /\ Remains(n) /\ QuietWhenEmpty

\* What SameRunners leaves open is what was open.
LEMMA SameEdges ==
  ASSUME SameRunners, graph' = graph, started' = started, ended' = ended, NEW n, NEW k
  PROVE  /\ Open(n, k)' = Open(n, k)
         /\ \A p, i : SpawnDone(n, p, i)' <=> SpawnDone(n, p, i)
         /\ Roots' = Roots /\ TotalPredecessors' = TotalPredecessors
         /\ submits'[k] = submits[k] => (Arrived(n, k)' <=> Arrived(n, k))
  <1>1. /\ Successors' = Successors /\ Spawns' = Spawns /\ Roots' = Roots
        /\ TotalPredecessors' = TotalPredecessors
    BY DEF Successors, Spawns, Roots, TotalPredecessors, Positions
  <1>2. ASSUME NEW t \in Threads, NEW p, NEW g \in {"running", "visiting"}
        PROVE  (On(t, p, g)' <=> On(t, p, g)) /\ (On(t, p, g) => todo'[t] = todo[t])
    BY DEF SameRunners, On
  <1>3. ASSUME NEW p, NEW i
        PROVE  EdgeDone(n, p, i)' <=> EdgeDone(n, p, i)
    BY <1>1, <1>2 DEF EdgeDone
  <1>4. ASSUME NEW p, NEW i
        PROVE  SpawnDone(n, p, i)' <=> SpawnDone(n, p, i)
    BY <1>1, <1>2 DEF SpawnDone
  <1>5. Positions(Successors, k)' = Positions(Successors, k) /\ Positions(Spawns, k)' = Positions(Spawns, k)
    BY <1>1 DEF Positions
  <1>6. Open(n, k)' = Open(n, k)
    BY <1>3, <1>5 DEF Open
  <1>7. submits'[k] = submits[k] => (Arrived(n, k)' <=> Arrived(n, k))
    BY <1>1, <1>4, <1>5, <1>6 DEF Arrived
  <1> QED BY <1>1, <1>4, <1>6, <1>7

\* A step that neither starts nor ends a task, and after which as many have arrived.
Kept(n) ==
    /\ graph' = graph /\ started' = started /\ ended' = ended /\ submits' = submits
    /\ batch' \subseteq batch
    /\ Unique' /\ QuietWhenEmpty'
    /\ \A k \in Tasks :
          /\ Open(n, k)' = Open(n, k) /\ (Arrived(n, k)' <=> Arrived(n, k))
          /\ Waiting(k)' => Waiting(k)
          /\ Cancellable = {} /\ Waiting(k) => Waiting(k)'
          /\ \A t \in Threads :
                /\ \A g \in {"running", "visiting"} : On(t, k, g)' => On(t, k, g)
                /\ On(t, k, "invoking")' => On(t, k, "invoking") \/ remaining'[k] = TotalPredecessors[k]
                /\ task[t] = k => \/ \E u \in Threads : task'[u] = k
                                  \/ started[k] # n \/ ended[k] = n
          /\ remaining'[k] = remaining[k] \/ (Waiting(k) /\ remaining'[k] = TotalPredecessors[k])

LEMMA KeptRound ==
  ASSUME NEW n \in Nat, RoundInv(n), Kept(n)
  PROVE  RoundInv(n)'
  <1>1. Roots' = Roots /\ TotalPredecessors' = TotalPredecessors /\ Cancellable' = Cancellable
    BY DEF Kept, Roots, TotalPredecessors, Cancellable, Positions, Successors, Spawns
  <1>2. Counts(n)'
    BY <1>1 DEF RoundInv, Counts, Kept
  <1>3. Stages(n)'
    <2> SUFFICES ASSUME NEW k \in Tasks
                 PROVE  /\ Waiting(k)' => started'[k] = n - 1
                        /\ \A t \in Threads : /\ On(t, k, "running")' => started'[k] = n /\ ended'[k] = n - 1
                                              /\ On(t, k, "visiting")' => ended'[k] = n
                        /\ started'[k] = n /\ ended'[k] # n => \E t \in Threads : task'[t] = k
      BY DEF Stages
    <2> QED BY DEF RoundInv, Stages, Kept
  <1>4. Arrivals(n)'
    BY <1>1 DEF RoundInv, Arrivals, Kept
  <1>5. Remains(n)'
    <2> SUFFICES ASSUME NEW k \in Tasks
                 PROVE  /\ \/ remaining'[k] = Cardinality(Open(n, k)')
                           \/ Open(n, k)' = {} /\ remaining'[k] = TotalPredecessors'[k]
                        /\ started'[k] = n \/ (\E t \in Threads : On(t, k, "invoking")')
                           => remaining'[k] = TotalPredecessors'[k]
      BY DEF Remains
    <2>1. CASE remaining'[k] = remaining[k]
      BY <1>1, <2>1 DEF RoundInv, Remains, Kept
    <2>2. CASE Waiting(k) /\ remaining'[k] = TotalPredecessors[k]
      <3>1. Open(n, k) = {}
        BY <2>2 DEF RoundInv, Arrivals, Arrived
      <3> QED BY <1>1, <2>2, <3>1 DEF Kept
    <2> QED BY <2>1, <2>2 DEF Kept
  <1> QED BY <1>2, <1>3, <1>4, <1>5 DEF RoundInv, Kept

\* A step that moves waiting tasks at most goes on with the round.
LEMMA MovedRound ==
  ASSUME Moved, graph' = graph, started' = started, ended' = ended, submits' = submits,
         batch' = batch \/ (batch' = {} /\ \A t \in Threads, i \in Spots : What(t, i)' = None),
         \A k \in Tasks : remaining'[k] = remaining[k]
                          \/ (Waiting(k) /\ remaining'[k] = TotalPredecessors[k]),
         NEW n \in Nat, RoundInv(n)
  PROVE  RoundInv(n)'
  <1>1. SameRunners /\ Unique'
    BY DEF Moved, RoundInv
  <1>2. \A k \in Tasks :
           /\ Open(n, k)' = Open(n, k) /\ (Arrived(n, k)' <=> Arrived(n, k))
           /\ Waiting(k)' <=> Waiting(k)
    BY <1>1, SameEdges DEF Moved
  <1>3. \A t \in Threads, k \in Tasks, g \in {"running", "visiting"} : On(t, k, g)' => On(t, k, g)
    BY <1>1 DEF SameRunners, On
  <1>4. QuietWhenEmpty'
    BY DEF RoundInv, QuietWhenEmpty, Moved
  <1>5. \A k \in Tasks, t \in Threads :
           /\ On(t, k, "invoking")' => On(t, k, "invoking") \/ remaining'[k] = TotalPredecessors[k]
           /\ task[t] = k => \E u \in Threads : task'[u] = k
    BY DEF Moved
  <1>6. Kept(n)
    BY <1>1, <1>2, <1>3, <1>4, <1>5 DEF Kept
  <1> QED BY <1>6, KeptRound

-----------------------------------------------------------------------------
(* execute()                                                               *)

\* A task that a thread has is nowhere else.
LEMMA TaskAlone ==
  ASSUME Unique, NEW t \in Threads, task[t] # None
  PROVE  /\ \A u \in Threads : task[u] = task[t] => u = t
         /\ \A u \in Threads, x \in Spots : What(u, x) = task[t] => u = t /\ x = 0
  <1>1. 0 \in Spots /\ \A u \in Threads : What(u, 0) = task[u]
    BY DEF What, Spots
  <1> QED BY <1>1 DEF Unique

\* The predecessors of the task are counted anew.
LEMMA StartMoves ==
  ASSUME IInv, NextHeld, Tallies, NEW t \in Threads, Start(t)
  PROVE  /\ Moved /\ NextHeld'
         /\ \A k \in Tasks : remaining'[k] = remaining[k]
                             \/ (Waiting(k) /\ remaining'[k] = TotalPredecessors[k])
  <1>1. /\ pc[t] = "starting" /\ pc' = [pc EXCEPT ![t] = "invoking"] /\ task[t] \in Tasks
        /\ queues' = queues /\ task' = task /\ next' = next /\ todo' = todo /\ sub' = sub
        /\ remaining' = [remaining EXCEPT ![task[t]] = TotalPredecessors[task[t]]]
        /\ pc \in [Threads -> Points \cup ClientPoints \cup WorkerPoints]
        /\ remaining \in [Tasks -> Int]
    BY DEF IInv, ThreadsTyped, TaskHeld, Tallies, Start, Goto, queueVars, execVars
  <1>2. \A u \in Threads, x \in Spots : What(u, x)' = What(u, x)
    BY <1>1 DEF What
  <1>3. /\ \A u \in Threads \ {t} : Stage(u)' = Stage(u)
        /\ Stage(t) = "starting" /\ Stage(t)' = "invoking"
    BY <1>1 DEF Stage, Submitting
  <1>4. SameRunners
    BY <1>1, <1>3 DEF SameRunners
  <1>5. Unique => Unique'
    BY <1>2 DEF Unique
  <1>6. \A k \in Tasks : Waiting(k)' <=> Waiting(k)
    <2>1. \A u \in Threads : Stage(u)' \in {"starting", "invoking"} <=> Stage(u) \in {"starting", "invoking"}
      BY <1>3
    <2> QED BY <1>2, <2>1 DEF Waiting
  <1>7. \A k \in Tasks, u \in Threads :
           On(u, k, "invoking")' => On(u, k, "invoking") \/ remaining'[k] = TotalPredecessors[k]
    BY <1>1, <1>3 DEF On
  <1>8. Moved
    BY <1>1, <1>2, <1>4, <1>5, <1>6, <1>7 DEF Moved
  <1>9. Waiting(task[t])
    <2>1. 0 \in Spots /\ What(t, 0) = task[t]
      BY DEF What, Spots
    <2> QED BY <1>3, <2>1 DEF Waiting
  <1>10. NextHeld'
    BY <1>1 DEF NextHeld, Submitting
  <1> QED BY <1>1, <1>8, <1>9, <1>10

NotCancelled == Cancellable = {} => \A k \in Tasks : "cancelled" \notin flags[k]

\* The task that is found cancelled is dropped.
LEMMA DroppedRound ==
  ASSUME IInv, NextHeld, Tallies, NotCancelled, NEW t \in Threads, Invoke(t), IsCancelled(t)
  PROVE  /\ SameRunners /\ NextHeld'
         /\ \A n \in Nat : RoundInv(n) => RoundInv(n)'
  <1>1. /\ pc[t] = "invoking" /\ pc' = [pc EXCEPT ![t] = "finishing"] /\ task[t] \in Tasks
        /\ queues' = queues /\ task' = [task EXCEPT ![t] = None]
        /\ next' = next /\ todo' = todo /\ sub' = sub
        /\ pc \in [Threads -> Points \cup ClientPoints \cup WorkerPoints]
        /\ task \in [Threads -> Tasks \cup {None}]
        /\ graph' = graph /\ remaining' = remaining /\ started' = started /\ ended' = ended
        /\ submits' = submits /\ batch' = batch
        /\ Cancellable # {}
    BY
       DEF IInv, ThreadsTyped, TaskHeld, Tallies, NotCancelled, IsCancelled, Invoke, Leave,
           Goto, queueVars
  <1>2. /\ \A u \in Threads, x \in Spots : <<u, x>> # <<t, 0>> => What(u, x)' = What(u, x)
        /\ What(t, 0) = task[t] /\ What(t, 0)' = None
    BY <1>1 DEF What
  <1>3. /\ \A u \in Threads \ {t} : Stage(u)' = Stage(u) /\ task'[u] = task[u]
        /\ Stage(t) = "invoking" /\ Stage(t)' = "off" /\ task'[t] = None
    BY <1>1 DEF Stage, Submitting
  <1>4. SameRunners
    BY <1>1, <1>3 DEF SameRunners
  <1>5. NextHeld'
    BY <1>1 DEF NextHeld, Submitting
  <1>6. ASSUME NEW n \in Nat, RoundInv(n)
        PROVE  RoundInv(n)'
    <2>1. Unique'
      BY <1>2, <1>6 DEF RoundInv, Unique
    <2>2. 0 \in Spots /\ task[t] # None
      BY <1>1, ConstantsTyped DEF Spots
    <2>3. QuietWhenEmpty'
      <3>1. batch # {}
        BY <1>2, <1>6, <2>2 DEF RoundInv, QuietWhenEmpty
      <3> QED BY <1>1, <3>1 DEF QuietWhenEmpty
    <2>4. \A k \in Tasks : Open(n, k)' = Open(n, k) /\ (Arrived(n, k)' <=> Arrived(n, k))
      BY <1>1, <1>4, SameEdges
    <2>5. \A k \in Tasks : Waiting(k)' => Waiting(k)
      <3> SUFFICES ASSUME NEW k \in Tasks, Waiting(k)'
                   PROVE  Waiting(k)
        OBVIOUS
      <3>1. PICK u \in Threads, x \in Spots :
               What(u, x)' = k /\ (x = 0 => Stage(u)' \in {"starting", "invoking"})
        BY DEF Waiting
      <3>2. <<u, x>> # <<t, 0>>
        BY <1>3, <3>1
      <3>3. What(u, x) = k /\ (x = 0 => Stage(u) \in {"starting", "invoking"})
        BY <1>2, <1>3, <3>1, <3>2
      <3> QED BY <3>3 DEF Waiting
    <2>6. ASSUME NEW k \in Tasks, NEW u \in Threads
          PROVE  /\ \A g \in {"running", "visiting"} : On(u, k, g)' => On(u, k, g)
                 /\ On(u, k, "invoking")' => On(u, k, "invoking")
                 /\ task[u] = k => (\E v \in Threads : task'[v] = k) \/ started[k] # n
      <3>1. CASE u # t
        BY <1>3, <3>1 DEF On
      <3>2. CASE u = t
        <4>1. Waiting(task[t])
          BY <1>2, <1>3, <2>2 DEF Waiting
        <4>2. started[task[t]] # n
          BY <1>1, <1>6, <4>1 DEF RoundInv, Stages
        <4> QED BY <1>3, <3>2, <4>2 DEF On
      <3> QED BY <3>1, <3>2
    <2>7. Kept(n)
      BY <1>1, <2>1, <2>3, <2>4, <2>5, <2>6 DEF Kept
    <2> QED BY <1>6, <2>7, KeptRound
  <1> QED BY <1>4, <1>5, <1>6

\* What is left of sequence f when a thread has taken the rest off it.
LastOf(s, f) ==
    Len(s) <= Len(f) /\ \A j \in 1 .. Len(s) : s[j] = f[Len(f) - Len(s) + j]

\* What a thread has left to submit is the rest of what its task submits, what it
\* has left to visit the rest of its successors.
TodoLeft ==
    \A t \in Threads :
       /\ Stage(t) = "running" => LastOf(todo[t], Spawns[task[t]])
       /\ Stage(t) = "visiting" => LastOf(todo[t], Successors[task[t]])

LEMMA TodoKept ==
  ASSUME TodoLeft, SameRunners, graph' = graph
  PROVE  TodoLeft'
  <1>1. Successors' = Successors /\ Spawns' = Spawns
    BY DEF Successors, Spawns
  <1> SUFFICES ASSUME NEW t \in Threads
               PROVE  /\ Stage(t)' = "running" => LastOf(todo'[t], Spawns[task'[t]])
                      /\ Stage(t)' = "visiting" => LastOf(todo'[t], Successors[task'[t]])
    BY <1>1 DEF TodoLeft, LastOf
  <1>2. CASE Stage(t) \in {"running", "visiting"}
    BY <1>2 DEF SameRunners, TodoLeft
  <1>3. CASE Stage(t) \notin {"running", "visiting"}
    BY <1>3 DEF SameRunners
  <1> QED BY <1>2, <1>3

LEMMA WholeIsLast ==
  ASSUME NEW f \in Seq(Tasks)
  PROVE  LastOf(f, f)
  <1>1. Len(f) \in Nat
    OBVIOUS
  <1>2. \A j \in 1 .. Len(f) : Len(f) - Len(f) + j = j
    BY <1>1
  <1> QED BY <1>1, <1>2 DEF LastOf

\* What arrives when the work on the predecessors is what it was.
LEMMA SameArrived ==
  ASSUME Tallies, graph' = graph, NEW n, NEW k, submits'[k] = submits[k],
         \A q \in Tasks : \A i \in 1 .. Len(Successors[q]) :
            Successors[q][i] = k => (EdgeDone(n, q, i)' <=> EdgeDone(n, q, i)),
         \A q \in Tasks : \A i \in 1 .. Len(Spawns[q]) :
            Spawns[q][i] = k => (SpawnDone(n, q, i)' <=> SpawnDone(n, q, i))
  PROVE  Open(n, k)' = Open(n, k) /\ (Arrived(n, k)' <=> Arrived(n, k))
  <1>1. /\ Positions(Successors, k)' = Positions(Successors, k)
        /\ Positions(Spawns, k)' = Positions(Spawns, k) /\ Roots' = Roots
    BY DEF Positions, Successors, Spawns, Roots, TotalPredecessors
  <1>2. \A q \in Tasks : DOMAIN Spawns[q] = 1 .. Len(Spawns[q]) /\ DOMAIN Successors[q] = 1 .. Len(Successors[q])
    <2>1. \A q \in Tasks : Spawns[q] \in Seq(Tasks) /\ Successors[q] \in Seq(Tasks)
      BY GraphsTyped DEF Tallies
    <2> QED BY <2>1
  <1>3. ASSUME NEW e \in Positions(Successors, k)
        PROVE  EdgeDone(n, e[1], e[2])' <=> EdgeDone(n, e[1], e[2])
    <2> PICK q \in Tasks : \E i \in 1 .. Len(Successors[q]) : e = <<q, i>> /\ Successors[q][i] = k
      BY <1>2, PositionsAre
    <2> PICK i \in 1 .. Len(Successors[q]) : e = <<q, i>> /\ Successors[q][i] = k
      OBVIOUS
    <2>1. e[1] = q /\ e[2] = i
      OBVIOUS
    <2>2. EdgeDone(n, q, i)' <=> EdgeDone(n, q, i)
      OBVIOUS
    <2> QED BY <2>1, <2>2 DEF EdgeDone
  <1>4. ASSUME NEW e \in Positions(Spawns, k)
        PROVE  SpawnDone(n, e[1], e[2])' <=> SpawnDone(n, e[1], e[2])
    <2> PICK q \in Tasks : \E i \in 1 .. Len(Spawns[q]) : e = <<q, i>> /\ Spawns[q][i] = k
      BY <1>2, PositionsAre
    <2> PICK i \in 1 .. Len(Spawns[q]) : e = <<q, i>> /\ Spawns[q][i] = k
      OBVIOUS
    <2>1. e[1] = q /\ e[2] = i
      OBVIOUS
    <2>2. SpawnDone(n, q, i)' <=> SpawnDone(n, q, i)
      OBVIOUS
    <2> QED BY <2>1, <2>2 DEF SpawnDone
  <1>5. Open(n, k)' = Open(n, k)
    BY <1>1, <1>3 DEF Open
  <1> QED BY <1>1, <1>4, <1>5 DEF Arrived

\* The function of a task is called.
LEMMA InvokeRound ==
  ASSUME IInv, NextHeld, TodoLeft, Tallies, NEW t \in Threads, Invoke(t), ~ IsCancelled(t)
  PROVE  /\ NextHeld' /\ TodoLeft'
         /\ \A n \in Nat : RoundInv(n) => RoundInv(n)'
  <1> PICK p \in Tasks : p = task[t]
    BY DEF IInv, ThreadsTyped, TaskHeld, Invoke
  <1>1. /\ pc[t] = "invoking" /\ pc' = [pc EXCEPT ![t] = "running"]
        /\ queues' = queues /\ task' = task /\ next' = next /\ sub' = sub
        /\ todo' = [todo EXCEPT ![t] = Spawns[p]]
        /\ todo \in [Threads -> Seq(Tasks)]
        /\ pc \in [Threads -> Points \cup ClientPoints \cup WorkerPoints]
        /\ started \in [Tasks -> Nat] /\ ended \in [Tasks -> Nat]
        /\ started' = [started EXCEPT ![p] = started[p] + 1]
        /\ graph' = graph /\ remaining' = remaining /\ ended' = ended
        /\ submits' = submits /\ batch' = batch
    BY DEF IInv, ThreadsTyped, Tallies, Invoke, Goto, queueVars
  <1>2. \A u \in Threads, x \in Spots : What(u, x)' = What(u, x)
    BY <1>1 DEF What
  <1>3. /\ \A u \in Threads \ {t} : Stage(u)' = Stage(u) /\ todo'[u] = todo[u]
        /\ Stage(t) = "invoking" /\ Stage(t)' = "running" /\ todo'[t] = Spawns[p]
        /\ next[t] = None
    BY <1>1 DEF Stage, Submitting, NextHeld
  <1>4. NextHeld'
    BY <1>1, <1>3 DEF NextHeld, Submitting
  <1>5. /\ Successors' = Successors /\ Spawns' = Spawns /\ Cancellable' = Cancellable
        /\ Roots' = Roots /\ TotalPredecessors' = TotalPredecessors
        /\ Spawns[p] \in Seq(Tasks) /\ Len(Spawns[p]) \in Nat
    <2>1. Spawns[p] \in Seq(Tasks)
      BY GraphsTyped DEF Tallies
    <2> QED BY <1>1, <2>1 DEF Successors, Spawns, Cancellable, Roots, TotalPredecessors, Positions
  <1>6. TodoLeft'
    <2> SUFFICES ASSUME NEW u \in Threads
                 PROVE  /\ Stage(u)' = "running" => LastOf(todo'[u], Spawns[task'[u]])
                        /\ Stage(u)' = "visiting" => LastOf(todo'[u], Successors[task'[u]])
      BY <1>5 DEF TodoLeft, LastOf
    <2>1. CASE u = t
      BY <1>1, <1>3, <1>5, <2>1, WholeIsLast
    <2>2. CASE u # t
      BY <1>1, <1>3, <2>2 DEF TodoLeft
    <2> QED BY <2>1, <2>2
  <1>7. ASSUME NEW n \in Nat, RoundInv(n)
        PROVE  RoundInv(n)'
    <2>1. /\ \A u \in Threads : task[u] = p => u = t
          /\ \A u \in Threads, x \in Spots : What(u, x) = p => u = t /\ x = 0
          /\ 0 \in Spots /\ What(t, 0) = p
      BY <1>7, TaskAlone, ConstantsTyped DEF RoundInv, What, Spots
    <2>2. Waiting(p) /\ ~ Waiting(p)'
      BY <1>2, <1>3, <2>1 DEF Waiting
    <2>3. started[p] = n - 1 /\ started'[p] = n /\ ended[p] = n - 1 /\ n - 1 # n
      BY <1>1, <1>7, <2>2 DEF RoundInv, Stages, Counts
    <2>4. ASSUME NEW k \in Tasks, k # p
          PROVE  /\ Waiting(k)' <=> Waiting(k)
                 /\ started'[k] = started[k]
                 /\ \A u \in Threads, g \in {"invoking", "running", "visiting"} :
                       /\ On(u, k, g)' <=> On(u, k, g)
                       /\ On(u, k, g) => todo'[u] = todo[u]
      <3>1. \A u \in Threads, x \in Spots : What(u, x) = k => <<u, x>> # <<t, 0>>
        BY <2>1, <2>4
      <3>2. Waiting(k)' => Waiting(k)
        BY <1>2, <1>3, <3>1 DEF Waiting
      <3>3. Waiting(k) => Waiting(k)'
        BY <1>2, <1>3, <3>1 DEF Waiting
      <3>4. started'[k] = started[k]
        BY <1>1, <2>4
      <3>5. \A u \in Threads, g \in {"invoking", "running", "visiting"} :
               /\ On(u, k, g)' <=> On(u, k, g)
               /\ On(u, k, g) => todo'[u] = todo[u]
        BY <1>1, <1>3, <2>4 DEF On
      <3> QED BY <3>2, <3>3, <3>4, <3>5
    <2>5. /\ \A u \in Threads : ~ On(u, p, "visiting") /\ ~ On(u, p, "visiting")'
          /\ \A u \in Threads : On(u, p, "running")' => u = t
          /\ On(t, p, "running")' /\ On(t, p, "invoking")
      BY <1>1, <1>3, <2>1 DEF On
    <2>6. ASSUME NEW q \in Tasks, NEW i
          PROVE  EdgeDone(n, q, i)' <=> EdgeDone(n, q, i)
      <3>1. CASE q = p
        BY <1>1, <2>5, <3>1 DEF EdgeDone
      <3>2. CASE q # p
        BY <1>1, <1>5, <2>4, <3>2 DEF EdgeDone
      <3> QED BY <3>1, <3>2
    <2>7. \A q \in Tasks : \A i \in 1 .. Len(Spawns[q]) : SpawnDone(n, q, i)' <=> SpawnDone(n, q, i)
      <3> SUFFICES ASSUME NEW q \in Tasks, NEW i \in 1 .. Len(Spawns[q])
                   PROVE  SpawnDone(n, q, i)' <=> SpawnDone(n, q, i)
        OBVIOUS
      <3>1. CASE q # p
        BY <1>5, <2>4, <3>1 DEF SpawnDone
      <3>2. CASE q = p
        <4>1. ~ SpawnDone(n, p, i)
          BY <2>3 DEF SpawnDone
        <4>2. ~ (i + Len(todo'[t]) <= Len(Spawns[p]))
          BY <1>3, <1>5, <3>2
        <4>3. ~ SpawnDone(n, p, i)'
          BY <1>5, <2>5, <4>2 DEF SpawnDone
        <4> QED BY <3>2, <4>1, <4>3
      <3> QED BY <3>1, <3>2
    <2>8. ASSUME NEW k \in Tasks
          PROVE  Open(n, k)' = Open(n, k) /\ (Arrived(n, k)' <=> Arrived(n, k))
      BY <1>1, <2>6, <2>7, SameArrived
    <2>9. Unique'
      BY <1>2, <1>7 DEF RoundInv, Unique
    <2>10. Counts(n)'
      <3> SUFFICES ASSUME NEW k \in Tasks
                   PROVE  /\ started'[k] \in {n - 1, n} /\ ended'[k] \in {n - 1, n} /\ ended'[k] <= started'[k]
                          /\ k \in Roots' => submits'[k] \in {n - 1, n}
                          /\ k \in batch' => submits'[k] = n
        BY DEF Counts
      <3> QED BY <1>1, <1>5, <1>7, <2>3, <2>4 DEF RoundInv, Counts
    <2>11. Stages(n)'
      <3> SUFFICES ASSUME NEW k \in Tasks
                   PROVE  /\ Waiting(k)' => started'[k] = n - 1
                          /\ \A u \in Threads : /\ On(u, k, "running")' => started'[k] = n /\ ended'[k] = n - 1
                                                /\ On(u, k, "visiting")' => ended'[k] = n
                          /\ started'[k] = n /\ ended'[k] # n => \E u \in Threads : task'[u] = k
        BY DEF Stages
      <3>1. CASE k = p
        BY <1>1, <2>2, <2>3, <2>5, <3>1
      <3>2. CASE k # p
        BY <1>1, <1>7, <2>4, <3>2 DEF RoundInv, Stages
      <3> QED BY <3>1, <3>2
    <2>12. Arrivals(n)'
      <3> SUFFICES ASSUME NEW k \in Tasks
                   PROVE  /\ Waiting(k)' \/ started'[k] = n => Arrived(n, k)'
                          /\ Cancellable' = {} /\ Arrived(n, k)' => Waiting(k)' \/ started'[k] = n
        BY DEF Arrivals
      <3>1. CASE k = p
        BY <1>7, <2>2, <2>3, <2>8, <3>1 DEF RoundInv, Arrivals
      <3>2. CASE k # p
        BY <1>5, <1>7, <2>4, <2>8, <3>2 DEF RoundInv, Arrivals
      <3> QED BY <3>1, <3>2
    <2>13. Remains(n)'
      <3> SUFFICES ASSUME NEW k \in Tasks
                   PROVE  /\ \/ remaining'[k] = Cardinality(Open(n, k)')
                             \/ Open(n, k)' = {} /\ remaining'[k] = TotalPredecessors'[k]
                          /\ started'[k] = n \/ (\E u \in Threads : On(u, k, "invoking")')
                             => remaining'[k] = TotalPredecessors'[k]
        BY DEF Remains
      <3>1. CASE k = p
        BY <1>1, <1>5, <1>7, <2>5, <2>8, <3>1 DEF RoundInv, Remains
      <3>2. CASE k # p
        BY <1>1, <1>5, <1>7, <2>4, <2>8, <3>2 DEF RoundInv, Remains
      <3> QED BY <3>1, <3>2
    <2>14. QuietWhenEmpty'
      BY <1>1, <1>2, <1>7 DEF RoundInv, QuietWhenEmpty
    <2> QED BY <2>9, <2>10, <2>11, <2>12, <2>13, <2>14 DEF RoundInv
  <1> QED BY <1>4, <1>6, <1>7

\* The function of a task returns.
LEMMA FunctionReturnsRound ==
  ASSUME IInv, NextHeld, TodoLeft, Tallies, NEW t \in Threads, FunctionReturns(t)
  PROVE  /\ NextHeld' /\ TodoLeft'
         /\ \A n \in Nat : RoundInv(n) => RoundInv(n)'
  <1> PICK p \in Tasks : p = task[t]
    BY DEF IInv, ThreadsTyped, TaskHeld, FunctionReturns
  <1>1. /\ pc[t] = "running" /\ pc' = [pc EXCEPT ![t] = "visiting"] /\ todo[t] = <<>>
        /\ queues' = queues /\ task' = task /\ next' = next /\ sub' = sub
        /\ todo' = [todo EXCEPT ![t] = Successors[p]]
        /\ todo \in [Threads -> Seq(Tasks)]
        /\ pc \in [Threads -> Points \cup ClientPoints \cup WorkerPoints]
        /\ started \in [Tasks -> Nat] /\ ended \in [Tasks -> Nat]
        /\ ended' = [ended EXCEPT ![p] = ended[p] + 1]
        /\ graph' = graph /\ remaining' = remaining /\ started' = started
        /\ submits' = submits /\ batch' = batch
    BY DEF IInv, ThreadsTyped, Tallies, FunctionReturns, Goto, queueVars, graphVars
  <1>2. \A u \in Threads, x \in Spots : What(u, x)' = What(u, x)
    BY <1>1 DEF What
  <1>3. /\ \A u \in Threads \ {t} : Stage(u)' = Stage(u) /\ todo'[u] = todo[u]
        /\ Stage(t) = "running" /\ Stage(t)' = "visiting" /\ todo'[t] = Successors[p]
        /\ next[t] = None
    BY <1>1 DEF Stage, Submitting, NextHeld
  <1>4. NextHeld'
    BY <1>1, <1>3 DEF NextHeld, Submitting
  <1>5. /\ Successors' = Successors /\ Spawns' = Spawns /\ Cancellable' = Cancellable
        /\ Roots' = Roots /\ TotalPredecessors' = TotalPredecessors
        /\ Successors[p] \in Seq(Tasks) /\ Len(Successors[p]) \in Nat
    <2>1. Successors[p] \in Seq(Tasks)
      BY GraphsTyped DEF Tallies
    <2> QED BY <1>1, <2>1 DEF Successors, Spawns, Cancellable, Roots, TotalPredecessors, Positions
  <1>6. TodoLeft'
    <2> SUFFICES ASSUME NEW u \in Threads
                 PROVE  /\ Stage(u)' = "running" => LastOf(todo'[u], Spawns[task'[u]])
                        /\ Stage(u)' = "visiting" => LastOf(todo'[u], Successors[task'[u]])
      BY <1>5 DEF TodoLeft, LastOf
    <2>1. CASE u = t
      BY <1>1, <1>3, <1>5, <2>1, WholeIsLast
    <2>2. CASE u # t
      BY <1>1, <1>3, <2>2 DEF TodoLeft
    <2> QED BY <2>1, <2>2
  <1>7. ASSUME NEW n \in Nat, RoundInv(n)
        PROVE  RoundInv(n)'
    <2>1. \A u \in Threads : task[u] = p => u = t
      BY <1>7, TaskAlone, ConstantsTyped DEF RoundInv
    <2>2. /\ \A u \in Threads : /\ ~ On(u, p, "visiting") /\ ~ On(u, p, "running")'
                                /\ On(u, p, "running") => u = t
                                /\ On(u, p, "visiting")' => u = t
                                /\ ~ On(u, p, "invoking") /\ ~ On(u, p, "invoking")'
          /\ On(t, p, "running") /\ On(t, p, "visiting")'
      BY <1>1, <1>3, <2>1 DEF On
    <2>3. started[p] = n /\ ended[p] = n - 1 /\ ended'[p] = n /\ n - 1 # n
      BY <1>1, <1>7, <2>2 DEF RoundInv, Stages
    <2>4. ASSUME NEW k \in Tasks, k # p
          PROVE  /\ ended'[k] = ended[k]
                 /\ \A u \in Threads, g \in {"invoking", "running", "visiting"} :
                       /\ On(u, k, g)' <=> On(u, k, g)
                       /\ On(u, k, g) => todo'[u] = todo[u]
      BY <1>1, <1>3, <2>4 DEF On
    <2>5. \A k \in Tasks : Waiting(k)' <=> Waiting(k)
      <3>1. \A u \in Threads : Stage(u)' \in {"starting", "invoking"} <=> Stage(u) \in {"starting", "invoking"}
        BY <1>3
      <3> QED BY <1>2, <3>1 DEF Waiting
    <2>6. ASSUME NEW q \in Tasks, NEW i \in 1 .. Len(Successors[q])
          PROVE  EdgeDone(n, q, i)' <=> EdgeDone(n, q, i)
      <3>1. CASE q = p
        <4>1. ~ (i + Len(todo'[t]) <= Len(Successors[p]))
          BY <1>3, <1>5, <3>1
        <4>2. ~ EdgeDone(n, p, i)'
          BY <1>5, <2>2, <4>1 DEF EdgeDone
        <4>3. ~ EdgeDone(n, p, i)
          BY <2>3 DEF EdgeDone
        <4> QED BY <3>1, <4>2, <4>3
      <3>2. CASE q # p
        BY <1>1, <1>5, <2>4, <3>2 DEF EdgeDone
      <3> QED BY <3>1, <3>2
    <2>7. ASSUME NEW q \in Tasks, NEW i \in 1 .. Len(Spawns[q])
          PROVE  SpawnDone(n, q, i)' <=> SpawnDone(n, q, i)
      <3>1. CASE q = p
        <4>1. SpawnDone(n, p, i)'
          BY <1>1, <2>2, <2>3 DEF SpawnDone
        <4>2. Spawns[p] \in Seq(Tasks) /\ Len(Spawns[p]) \in Nat
          <5>1. Spawns[p] \in Seq(Tasks)
            BY GraphsTyped DEF Tallies
          <5> QED BY <5>1
        <4>3. Len(todo[t]) = 0 /\ i + 0 <= Len(Spawns[p])
          BY <1>1, <3>1, <4>2
        <4>4. SpawnDone(n, p, i)
          BY <2>2, <2>3, <4>3 DEF SpawnDone
        <4> QED BY <3>1, <4>1, <4>4
      <3>2. CASE q # p
        BY <1>1, <1>5, <2>4, <3>2 DEF SpawnDone
      <3> QED BY <3>1, <3>2
    <2>8. ASSUME NEW k \in Tasks
          PROVE  Open(n, k)' = Open(n, k) /\ (Arrived(n, k)' <=> Arrived(n, k))
      BY <1>1, <2>6, <2>7, SameArrived
    <2>9. Unique'
      BY <1>2, <1>7 DEF RoundInv, Unique
    <2>10. Counts(n)'
      <3> SUFFICES ASSUME NEW k \in Tasks
                   PROVE  /\ started'[k] \in {n - 1, n} /\ ended'[k] \in {n - 1, n} /\ ended'[k] <= started'[k]
                          /\ k \in Roots' => submits'[k] \in {n - 1, n}
                          /\ k \in batch' => submits'[k] = n
        BY DEF Counts
      <3> QED BY <1>1, <1>5, <1>7, <2>3, <2>4 DEF RoundInv, Counts
    <2>11. Stages(n)'
      <3> SUFFICES ASSUME NEW k \in Tasks
                   PROVE  /\ Waiting(k)' => started'[k] = n - 1
                          /\ \A u \in Threads : /\ On(u, k, "running")' => started'[k] = n /\ ended'[k] = n - 1
                                                /\ On(u, k, "visiting")' => ended'[k] = n
                          /\ started'[k] = n /\ ended'[k] # n => \E u \in Threads : task'[u] = k
        BY DEF Stages
      <3>1. CASE k = p
        BY <1>1, <1>7, <2>2, <2>3, <2>5, <3>1 DEF RoundInv, Stages
      <3>2. CASE k # p
        BY <1>1, <1>7, <2>4, <2>5, <3>2 DEF RoundInv, Stages
      <3> QED BY <3>1, <3>2
    <2>12. Arrivals(n)'
      BY <1>1, <1>5, <1>7, <2>5, <2>8 DEF RoundInv, Arrivals
    <2>13. Remains(n)'
      <3> SUFFICES ASSUME NEW k \in Tasks
                   PROVE  /\ \/ remaining'[k] = Cardinality(Open(n, k)')
                             \/ Open(n, k)' = {} /\ remaining'[k] = TotalPredecessors'[k]
                          /\ started'[k] = n \/ (\E u \in Threads : On(u, k, "invoking")')
                             => remaining'[k] = TotalPredecessors'[k]
        BY DEF Remains
      <3>1. CASE k = p
        BY <1>1, <1>5, <1>7, <2>2, <2>8, <3>1 DEF RoundInv, Remains
      <3>2. CASE k # p
        BY <1>1, <1>5, <1>7, <2>4, <2>8, <3>2 DEF RoundInv, Remains
      <3> QED BY <3>1, <3>2
    <2>14. QuietWhenEmpty'
      BY <1>1, <1>2, <1>7 DEF RoundInv, QuietWhenEmpty
    <2> QED BY <2>9, <2>10, <2>11, <2>12, <2>13, <2>14 DEF RoundInv
  <1> QED BY <1>4, <1>6, <1>7

\* The thread is done with its task, and goes on with its next one if it has one.
LEMMA EndTaskRound ==
  ASSUME IInv, NextHeld, TodoLeft, Tallies, NEW t \in Threads, EndTask(t)
  PROVE  /\ NextHeld' /\ TodoLeft'
         /\ \A n \in Nat : RoundInv(n) => RoundInv(n)'
  <1> PICK p \in Tasks : p = task[t]
    BY DEF IInv, ThreadsTyped, TaskHeld, EndTask
  <1>1. /\ pc[t] \in {"visiting", "releasing"} /\ todo[t] = <<>>
        /\ queues' = queues /\ todo' = todo /\ sub' = sub
        /\ pc \in [Threads -> Points \cup ClientPoints \cup WorkerPoints]
        /\ task \in [Threads -> Tasks \cup {None}] /\ next \in [Threads -> Tasks \cup {None}]
        /\ task' = [task EXCEPT ![t] = next[t]] /\ next' = [next EXCEPT ![t] = None]
        /\ pc' = [pc EXCEPT ![t] = IF next[t] = None THEN "finishing" ELSE "starting"]
        /\ graph' = graph /\ remaining' = remaining /\ started' = started /\ ended' = ended
        /\ submits' = submits /\ batch' = batch
    <2>1. next \in [Threads -> Tasks \cup {None}]
      BY DEF IInv, ThreadsTyped
    <2>2. next[t] = None => next = [next EXCEPT ![t] = None]
      BY <2>1
    <2>3. /\ pc \in [Threads -> Points \cup ClientPoints \cup WorkerPoints]
          /\ task \in [Threads -> Tasks \cup {None}] /\ next \in [Threads -> Tasks \cup {None}]
      BY DEF IInv, ThreadsTyped
    <2>4. /\ pc[t] \in {"visiting", "releasing"} /\ todo[t] = <<>>
          /\ queues' = queues
          /\ graph' = graph /\ remaining' = remaining /\ started' = started /\ ended' = ended
          /\ submits' = submits /\ batch' = batch
      BY DEF EndTask, queueVars, graphVars, history
    <2>5. CASE next[t] = None
      <3>1. /\ pc' = [pc EXCEPT ![t] = "finishing"] /\ task' = [task EXCEPT ![t] = None]
            /\ next' = next /\ todo' = todo /\ sub' = sub
        BY <2>5 DEF EndTask, Leave, Goto
      <3> QED BY <2>2, <2>3, <2>4, <2>5, <3>1
    <2>6. CASE next[t] # None
      <3>1. /\ pc' = [pc EXCEPT ![t] = "starting"] /\ task' = [task EXCEPT ![t] = next[t]]
            /\ next' = [next EXCEPT ![t] = None] /\ todo' = todo /\ sub' = sub
        BY <2>6 DEF EndTask, Goto
      <3> QED BY <2>3, <2>4, <2>6, <3>1
    <2> QED BY <2>5, <2>6
  <1>2. /\ \A u \in Threads, x \in Spots : <<u, x>> \notin {<<t, 0>>, <<t, -1>>} => What(u, x)' = What(u, x)
        /\ What(t, 0) = p /\ What(t, -1) = next[t]
        /\ What(t, 0)' = next[t] /\ What(t, -1)' = None
    BY <1>1 DEF What
  <1>3. /\ \A u \in Threads \ {t} : Stage(u)' = Stage(u) /\ task'[u] = task[u]
        /\ Stage(t) = "visiting" /\ Stage(t)' = (IF next[t] = None THEN "off" ELSE "starting")
        /\ task'[t] = next[t]
    BY <1>1 DEF Stage, Submitting
  <1>4. NextHeld'
    BY <1>1 DEF NextHeld, Submitting
  <1>5. /\ Successors' = Successors /\ Spawns' = Spawns
        /\ Successors[p] \in Seq(Tasks) /\ Len(Successors[p]) \in Nat
    <2>1. Successors[p] \in Seq(Tasks)
      BY GraphsTyped DEF Tallies
    <2> QED BY <1>1, <2>1 DEF Successors, Spawns
  <1>6. TodoLeft'
    <2> SUFFICES ASSUME NEW u \in Threads
                 PROVE  /\ Stage(u)' = "running" => LastOf(todo'[u], Spawns[task'[u]])
                        /\ Stage(u)' = "visiting" => LastOf(todo'[u], Successors[task'[u]])
      BY <1>5 DEF TodoLeft, LastOf
    <2>1. CASE u = t
      BY <1>3, <2>1
    <2>2. CASE u # t
      BY <1>1, <1>3, <2>2 DEF TodoLeft
    <2> QED BY <2>1, <2>2
  <1>7. ASSUME NEW n \in Nat, RoundInv(n)
        PROVE  RoundInv(n)'
    <2>0. 0 \in Spots /\ -1 \in Spots /\ -1 # 0 /\ p # None
      BY ConstantsTyped DEF Spots
    <2>1. \A u \in Threads : task[u] = p => u = t
      BY <1>7, <2>0, TaskAlone DEF RoundInv
    <2>2. /\ \A u \in Threads, g \in {"invoking", "running", "visiting"} : ~ On(u, p, g)'
          /\ \A u \in Threads : ~ On(u, p, "running") /\ (On(u, p, "visiting") => u = t)
          /\ On(t, p, "visiting")
      BY <1>1, <1>3, <2>1 DEF On
    <2>3. ended[p] = n
      BY <1>7, <2>2 DEF RoundInv, Stages
    <2>4. ASSUME NEW k \in Tasks, k # p
          PROVE  \A u \in Threads, g \in {"invoking", "running", "visiting"} :
                       /\ On(u, k, g)' <=> On(u, k, g)
                       /\ On(u, k, g) => todo'[u] = todo[u]
      BY <1>1, <1>3, <2>4 DEF On
    <2>5. ASSUME NEW k \in Tasks
          PROVE  Waiting(k)' <=> Waiting(k)
      <3>1. ASSUME Waiting(k) PROVE Waiting(k)'
        <4>1. PICK u \in Threads, x \in Spots : What(u, x) = k /\ (x = 0 => Stage(u) \in {"starting", "invoking"})
          BY <3>1 DEF Waiting
        <4>2. <<u, x>> # <<t, 0>>
          BY <1>3, <4>1
        <4>3. CASE <<u, x>> = <<t, -1>>
          <5>1. What(t, 0)' = k /\ Stage(t)' = "starting"
            BY <1>2, <1>3, <4>1, <4>3, ConstantsTyped
          <5> QED BY <2>0, <5>1 DEF Waiting
        <4>4. CASE <<u, x>> # <<t, -1>>
          <5>1. What(u, x)' = k /\ (x = 0 => Stage(u)' \in {"starting", "invoking"})
            BY <1>2, <1>3, <4>1, <4>2, <4>4
          <5> QED BY <5>1 DEF Waiting
        <4> QED BY <4>3, <4>4
      <3>2. ASSUME Waiting(k)' PROVE Waiting(k)
        <4>1. PICK u \in Threads, x \in Spots : What(u, x)' = k /\ (x = 0 => Stage(u)' \in {"starting", "invoking"})
          BY <3>2 DEF Waiting
        <4>2. <<u, x>> # <<t, -1>>
          BY <1>2, <4>1, ConstantsTyped
        <4>3. CASE <<u, x>> = <<t, 0>>
          <5>1. What(t, -1) = k
            BY <1>2, <4>1, <4>3
          <5> QED BY <2>0, <5>1 DEF Waiting
        <4>4. CASE <<u, x>> # <<t, 0>>
          <5>1. What(u, x) = k /\ (x = 0 => Stage(u) \in {"starting", "invoking"})
            BY <1>2, <1>3, <4>1, <4>2, <4>4
          <5> QED BY <5>1 DEF Waiting
        <4> QED BY <4>3, <4>4
      <3> QED BY <3>1, <3>2
    <2>6. ASSUME NEW q \in Tasks, NEW i \in 1 .. Len(Successors[q])
          PROVE  EdgeDone(n, q, i)' <=> EdgeDone(n, q, i)
      <3>1. CASE q = p
        <4>1. EdgeDone(n, p, i)'
          BY <1>1, <2>2, <2>3 DEF EdgeDone
        <4>2. Len(todo[t]) = 0 /\ i + 0 <= Len(Successors[p])
          BY <1>1, <1>5, <3>1
        <4>3. EdgeDone(n, p, i)
          BY <2>2, <2>3, <4>2 DEF EdgeDone
        <4> QED BY <3>1, <4>1, <4>3
      <3>2. CASE q # p
        BY <1>1, <1>5, <2>4, <3>2 DEF EdgeDone
      <3> QED BY <3>1, <3>2
    <2>7. ASSUME NEW q \in Tasks, NEW i \in 1 .. Len(Spawns[q])
          PROVE  SpawnDone(n, q, i)' <=> SpawnDone(n, q, i)
      <3>1. CASE q = p
        BY <1>1, <2>2, <3>1 DEF SpawnDone
      <3>2. CASE q # p
        BY <1>1, <1>5, <2>4, <3>2 DEF SpawnDone
      <3> QED BY <3>1, <3>2
    <2>8. \A k \in Tasks : Open(n, k)' = Open(n, k) /\ (Arrived(n, k)' <=> Arrived(n, k))
      BY <1>1, <2>6, <2>7, SameArrived
    <2>9. Unique'
      <3> SUFFICES ASSUME NEW u \in Threads, NEW v \in Threads, NEW x \in Spots, NEW y \in Spots,
                          What(u, x)' = What(v, y)', What(u, x)' # None
                   PROVE  u = v /\ x = y
        BY DEF Unique
      <3>1. <<u, x>> # <<t, -1>> /\ <<v, y>> # <<t, -1>>
        BY <1>2
      <3>2. CASE <<u, x>> = <<t, 0>> /\ <<v, y>> = <<t, 0>>
        BY <3>2
      <3>3. CASE <<u, x>> = <<t, 0>> /\ <<v, y>> # <<t, 0>>
        <4>1. What(t, -1) = What(v, y) /\ What(t, -1) # None
          BY <1>2, <3>1, <3>3
        <4> QED BY <1>7, <2>0, <3>1, <4>1 DEF RoundInv, Unique
      <3>4. CASE <<u, x>> # <<t, 0>> /\ <<v, y>> = <<t, 0>>
        <4>1. What(u, x) = What(t, -1) /\ What(t, -1) # None
          BY <1>2, <3>1, <3>4
        <4> QED BY <1>7, <2>0, <3>1, <4>1 DEF RoundInv, Unique
      <3>5. CASE <<u, x>> # <<t, 0>> /\ <<v, y>> # <<t, 0>>
        <4>1. What(u, x) = What(v, y) /\ What(u, x) # None
          BY <1>2, <3>1, <3>5
        <4> QED BY <1>7, <4>1 DEF RoundInv, Unique
      <3> QED BY <3>2, <3>3, <3>4, <3>5
    <2>10. ASSUME NEW k \in Tasks, NEW u \in Threads
           PROVE  /\ \A g \in {"running", "visiting"} : On(u, k, g)' => On(u, k, g)
                  /\ On(u, k, "invoking")' => On(u, k, "invoking")
                  /\ task[u] = k => (\E v \in Threads : task'[v] = k) \/ ended[k] = n
      <3>1. CASE k = p
        BY <2>2, <2>3, <3>1
      <3>2. CASE k # p
        BY <1>1, <1>3, <2>4, <3>2
      <3> QED BY <3>1, <3>2
    <2>11. QuietWhenEmpty'
      <3>1. batch # {}
        BY <1>2, <1>7, <2>0 DEF RoundInv, QuietWhenEmpty
      <3> QED BY <1>1, <3>1 DEF QuietWhenEmpty
    <2>12. Kept(n)
      BY <1>1, <2>5, <2>8, <2>9, <2>10, <2>11 DEF Kept
    <2> QED BY <1>7, <2>12, KeptRound
  <1> QED BY <1>4, <1>6, <1>7

-----------------------------------------------------------------------------
(* A task arrives                                                          *)

\* A thread with a task is at one of its stages.
LEMMA HeldHasStage ==
  ASSUME IInv, NEW t \in Threads, task[t] # None
  PROVE  Stage(t) \in {"starting", "invoking", "running", "visiting"}
  <1>1. pc[t] \in {"starting", "invoking", "running", "visiting", "releasing"} \cup Submitting
    BY DEF IInv, ThreadsTyped, TaskHeld, Points, ClientPoints, WorkerPoints, Submitting
  <1> QED BY <1>1 DEF Stage

\* A task that has not arrived is nowhere.
LEMMA NotArrivedNowhere ==
  ASSUME IInv, NEW n \in Nat, RoundInv(n), NEW s \in Tasks, ~ Arrived(n, s)
  PROVE  /\ started[s] = n - 1 /\ started[s] # n /\ ~ Waiting(s)
         /\ \A t \in Threads, i \in Spots : What(t, i) # s
  <1>1. started[s] = n - 1 /\ started[s] # n /\ ~ Waiting(s)
    BY DEF RoundInv, Arrivals, Counts
  <1>2. ended[s] # n
    BY <1>1 DEF RoundInv, Counts
  <1>3. ASSUME NEW t \in Threads, NEW i \in Spots, What(t, i) = s
        PROVE  FALSE
    <2>1. i = 0 /\ Stage(t) \notin {"starting", "invoking"}
      BY <1>1, <1>3 DEF Waiting
    <2>2. task[t] = s /\ task[t] # None
      BY <1>3, <2>1, ConstantsTyped DEF What
    <2>3. On(t, s, "running") \/ On(t, s, "visiting")
      BY <2>1, <2>2, HeldHasStage DEF On
    <2> QED BY <1>1, <1>2, <2>3 DEF RoundInv, Stages
  <1> QED BY <1>1, <1>3

\* In round n, task s arrives at spot x of thread t.
Arrives(n, s, t, x) ==
    /\ s \in Tasks /\ t \in Threads /\ x \in {-2, -1}
    /\ ~ Arrived(n, s) /\ Arrived(n, s)'
    /\ What(t, x) = None /\ What(t, x)' = s
    /\ \A u \in Threads, y \in Spots : <<u, y>> # <<t, x>> => What(u, y)' = What(u, y)
    /\ \A u \in Threads : Stage(u)' = Stage(u) /\ task'[u] = task[u]
    /\ graph' = graph /\ started' = started /\ ended' = ended
    /\ \A k \in Tasks : k \in Roots => submits'[k] \in {n - 1, n}
    /\ \A k \in batch' : submits'[k] = n
    /\ batch' # {}
    /\ \A k \in Tasks \ {s} : /\ Open(n, k)' = Open(n, k) /\ (Arrived(n, k)' <=> Arrived(n, k))
                              /\ remaining'[k] = remaining[k]
    /\ \/ remaining'[s] = Cardinality(Open(n, s)')
       \/ Open(n, s)' = {} /\ remaining'[s] = TotalPredecessors[s]

LEMMA ArrivesRound ==
  ASSUME IInv, NEW n \in Nat, RoundInv(n), NEW s, NEW t, NEW x, Arrives(n, s, t, x)
  PROVE  RoundInv(n)'
  <1>1. /\ s \in Tasks /\ t \in Threads /\ x \in {-2, -1}
        /\ ~ Arrived(n, s) /\ Arrived(n, s)'
        /\ What(t, x) = None /\ What(t, x)' = s
        /\ \A u \in Threads, y \in Spots : <<u, y>> # <<t, x>> => What(u, y)' = What(u, y)
        /\ \A u \in Threads : Stage(u)' = Stage(u) /\ task'[u] = task[u]
        /\ graph' = graph /\ started' = started /\ ended' = ended
    BY DEF Arrives
  <1>2. x \in Spots /\ x # 0 /\ s # None
    BY <1>1, ConstantsTyped DEF Spots
  <1>3. /\ started[s] = n - 1 /\ started[s] # n /\ ~ Waiting(s)
        /\ \A u \in Threads, i \in Spots : What(u, i) # s
    BY <1>1, NotArrivedNowhere
  <1>4. /\ Roots' = Roots /\ TotalPredecessors' = TotalPredecessors /\ Cancellable' = Cancellable
    BY <1>1 DEF Roots, TotalPredecessors, Cancellable, Positions, Successors, Spawns
  <1>5. Unique'
    <2> SUFFICES ASSUME NEW u \in Threads, NEW v \in Threads, NEW y \in Spots, NEW z \in Spots,
                        What(u, y)' = What(v, z)', What(u, y)' # None
                 PROVE  u = v /\ y = z
      BY DEF Unique
    <2>1. CASE <<u, y>> = <<t, x>> /\ <<v, z>> = <<t, x>>
      BY <2>1
    <2>2. CASE <<u, y>> = <<t, x>> /\ <<v, z>> # <<t, x>>
      BY <1>1, <1>3, <2>2
    <2>3. CASE <<u, y>> # <<t, x>> /\ <<v, z>> = <<t, x>>
      BY <1>1, <1>3, <2>3
    <2>4. CASE <<u, y>> # <<t, x>> /\ <<v, z>> # <<t, x>>
      <3>1. What(u, y) = What(v, z) /\ What(u, y) # None
        BY <1>1, <2>4
      <3> QED BY <3>1 DEF RoundInv, Unique
    <2> QED BY <2>1, <2>2, <2>3, <2>4
  <1>6. Waiting(s)'
    BY <1>1, <1>2 DEF Waiting
  <1>7. ASSUME NEW k \in Tasks \ {s}
        PROVE  Waiting(k)' <=> Waiting(k)
    <2>1. ASSUME NEW u \in Threads, NEW i \in Spots
          PROVE  What(u, i)' = k <=> What(u, i) = k
      <3>1. CASE <<u, i>> = <<t, x>>
        BY <1>1, <3>1, ConstantsTyped
      <3>2. CASE <<u, i>> # <<t, x>>
        BY <1>1, <3>2
      <3> QED BY <3>1, <3>2
    <2> QED BY <1>1, <2>1 DEF Waiting
  <1>8. \A u \in Threads : \A k, g : On(u, k, g)' <=> On(u, k, g)
    BY <1>1 DEF On
  <1>9. Counts(n)'
    <2> SUFFICES ASSUME NEW k \in Tasks
                 PROVE  /\ started'[k] \in {n - 1, n} /\ ended'[k] \in {n - 1, n} /\ ended'[k] <= started'[k]
                        /\ k \in Roots' => submits'[k] \in {n - 1, n}
                        /\ k \in batch' => submits'[k] = n
      BY DEF Counts
    <2> QED BY <1>1, <1>4 DEF RoundInv, Counts, Arrives
  <1>10. Stages(n)'
    <2> SUFFICES ASSUME NEW k \in Tasks
                 PROVE  /\ Waiting(k)' => started'[k] = n - 1
                        /\ \A u \in Threads : /\ On(u, k, "running")' => started'[k] = n /\ ended'[k] = n - 1
                                              /\ On(u, k, "visiting")' => ended'[k] = n
                        /\ started'[k] = n /\ ended'[k] # n => \E u \in Threads : task'[u] = k
      BY DEF Stages
    <2>1. Waiting(k)' => started'[k] = n - 1
      BY <1>1, <1>3, <1>7 DEF RoundInv, Stages
    <2> QED BY <1>1, <1>8, <2>1 DEF RoundInv, Stages
  <1>11. Arrivals(n)'
    <2> SUFFICES ASSUME NEW k \in Tasks
                 PROVE  /\ Waiting(k)' \/ started'[k] = n => Arrived(n, k)'
                        /\ Cancellable' = {} /\ Arrived(n, k)' => Waiting(k)' \/ started'[k] = n
      BY DEF Arrivals
    <2>1. CASE k = s
      BY <1>1, <1>6, <2>1
    <2>2. CASE k # s
      BY <1>1, <1>4, <1>7, <2>2 DEF RoundInv, Arrivals, Arrives
    <2> QED BY <2>1, <2>2
  <1>12. Remains(n)'
    <2> SUFFICES ASSUME NEW k \in Tasks
                 PROVE  /\ \/ remaining'[k] = Cardinality(Open(n, k)')
                           \/ Open(n, k)' = {} /\ remaining'[k] = TotalPredecessors'[k]
                        /\ started'[k] = n \/ (\E u \in Threads : On(u, k, "invoking")')
                           => remaining'[k] = TotalPredecessors'[k]
      BY DEF Remains
    <2>1. CASE k = s
      <3>1. ~ \E u \in Threads : On(u, s, "invoking")'
        <4>1. 0 \in Spots /\ \A u \in Threads : What(u, 0) = task[u]
          BY DEF Spots, What
        <4> QED BY <1>3, <1>8, <4>1 DEF On
      <3> QED BY <1>1, <1>3, <1>4, <2>1, <3>1 DEF Arrives
    <2>2. CASE k # s
      BY <1>1, <1>4, <1>8, <2>2 DEF RoundInv, Remains, Arrives
    <2> QED BY <2>1, <2>2
  <1>13. QuietWhenEmpty'
    BY DEF QuietWhenEmpty, Arrives
  <1> QED BY <1>5, <1>9, <1>10, <1>11, <1>12, <1>13 DEF RoundInv

\* What is left after the first of the rest.
LEMMA TailIsLast ==
  ASSUME NEW s \in Seq(Tasks), NEW f \in Seq(Tasks), LastOf(s, f), s # <<>>
  PROVE  /\ LastOf(Tail(s), f) /\ Head(s) \in Tasks
         /\ Len(f) - Len(s) + 1 \in 1 .. Len(f) /\ Head(s) = f[Len(f) - Len(s) + 1]
         /\ Len(s) \in Nat \ {0} /\ Len(f) \in Nat /\ Len(Tail(s)) = Len(s) - 1
  <1>1. Len(s) \in Nat \ {0} /\ Len(f) \in Nat /\ Len(Tail(s)) = Len(s) - 1 /\ Head(s) = s[1] /\ Head(s) \in Tasks
    OBVIOUS
  <1>2. Len(s) <= Len(f) /\ \A j \in 1 .. Len(s) : s[j] = f[Len(f) - Len(s) + j]
    BY DEF LastOf
  <1>3. \A j \in 1 .. Len(Tail(s)) : Tail(s)[j] = s[j + 1]
    OBVIOUS
  <1>4. ASSUME NEW j \in 1 .. Len(Tail(s))
        PROVE  Tail(s)[j] = f[Len(f) - Len(Tail(s)) + j]
    <2>1. j + 1 \in 1 .. Len(s) /\ Len(f) - Len(s) + (j + 1) = Len(f) - Len(Tail(s)) + j
      BY <1>1
    <2> QED BY <1>2, <1>3, <2>1
  <1>5. LastOf(Tail(s), f)
    BY <1>1, <1>2, <1>4 DEF LastOf
  <1>6. 1 \in 1 .. Len(s) /\ Len(f) - Len(s) + 1 \in 1 .. Len(f)
    BY <1>1, <1>2
  <1> QED BY <1>1, <1>2, <1>5, <1>6

\* A task that a function submits has no other submission and no predecessors.
LEMMA SpawnedOnce ==
  ASSUME Tallies, NEW p \in Tasks, NEW j \in 1 .. Len(Spawns[p]), NEW s \in Tasks, Spawns[p][j] = s
  PROVE  /\ Positions(Successors, s) = {} /\ s \notin Roots
         /\ Positions(Spawns, s) = {<<p, j>>}
  <1>1. DOMAIN Spawns[p] = 1 .. Len(Spawns[p])
    <2>1. Spawns[p] \in Seq(Tasks)
      BY GraphsTyped DEF Tallies
    <2> QED BY <2>1
  <1>2. <<p, j>> \in Positions(Spawns, s)
    BY <1>1, PositionsAre
  <1>3. \A x, y \in Positions(Spawns, s) : x = y /\ Positions(Successors, s) = {}
    <2>1. graph \in Graphs
      BY DEF Tallies
    <2>2. \A x, y \in Positions(graph.spawns, s) : x = y /\ Positions(graph.successors, s) = {}
      BY <2>1, GraphsAssumption, Zenon
    <2> QED BY <2>2 DEF Spawns, Successors
  <1>4. s \notin Roots
    BY <1>2 DEF Roots
  <1> QED BY <1>2, <1>3, <1>4

\* A function submits a task.
LEMMA FunctionSubmitsRound ==
  ASSUME IInv, NextHeld, TodoLeft, Tallies, NEW t \in Threads, FunctionSubmits(t)
  PROVE  /\ NextHeld' /\ TodoLeft'
         /\ \A n \in Nat : RoundInv(n) => RoundInv(n)'
  <1> PICK p \in Tasks : p = task[t]
    BY DEF IInv, ThreadsTyped, TaskHeld, FunctionSubmits
  <1> PICK rest : rest = todo[t]
    OBVIOUS
  <1>1. /\ pc[t] = "running" /\ pc' = [pc EXCEPT ![t] = "counting"]
        /\ rest # <<>> /\ rest \in Seq(Tasks)
        /\ queues' = queues /\ task' = task /\ next' = next
        /\ sub' = [sub EXCEPT ![t] = Head(rest)]
        /\ todo' = [todo EXCEPT ![t] = Tail(rest)]
        /\ todo \in [Threads -> Seq(Tasks)] /\ sub \in [Threads -> Tasks \cup {None}]
        /\ pc \in [Threads -> Points \cup ClientPoints \cup WorkerPoints]
        /\ graph' = graph /\ remaining' = remaining /\ started' = started /\ ended' = ended
        /\ submits' = submits /\ batch' = batch
    BY
       DEF IInv, ThreadsTyped, FunctionSubmits, EnterSubmit, SubmitOrder, Goto, queueVars,
           graphVars, history
  <1>2. /\ \A u \in Threads \ {t} : Stage(u)' = Stage(u) /\ todo'[u] = todo[u]
        /\ Stage(t) = "running" /\ Stage(t)' = "running" /\ todo'[t] = Tail(rest)
        /\ next[t] = None /\ p # None
    BY <1>1, ConstantsTyped DEF Stage, Submitting, NextHeld
  <1>3. NextHeld'
    BY <1>1, <1>2 DEF NextHeld, Submitting
  <1>4. /\ Successors' = Successors /\ Spawns' = Spawns
        /\ Spawns[p] \in Seq(Tasks) /\ Len(Spawns[p]) \in Nat
    <2>1. Spawns[p] \in Seq(Tasks)
      BY GraphsTyped DEF Tallies
    <2> QED BY <1>1, <2>1 DEF Successors, Spawns
  <1> PICK f : f = Spawns[p]
    OBVIOUS
  <1>5. LastOf(rest, f)
    BY <1>2 DEF TodoLeft
  <1> PICK j \in Nat : j + Len(rest) = Len(f) + 1
    <2>1. Len(f) - Len(rest) + 1 \in 1 .. Len(f) /\ Len(rest) \in Nat /\ Len(f) \in Nat
      BY <1>1, <1>4, <1>5, TailIsLast
    <2> DEFINE l == Len(f)
               m == Len(rest)
    <2>2. l - m + 1 \in Nat /\ (l - m + 1) + m = l + 1
      <3> HIDE DEF l, m
      <3> QED BY <2>1 DEF l, m
    <2> QED BY <2>2
  <1> PICK s \in Tasks : s \in {Head(rest)}
    BY <1>1
  <1>6. /\ LastOf(Tail(rest), f) /\ s \in Tasks /\ j \in 1 .. Len(f) /\ s = f[j]
        /\ Len(rest) \in Nat \ {0} /\ Len(f) \in Nat /\ Len(Tail(rest)) = Len(rest) - 1
    BY <1>1, <1>4, <1>5, TailIsLast
  <1>7. TodoLeft'
    <2> SUFFICES ASSUME NEW u \in Threads
                 PROVE  /\ Stage(u)' = "running" => LastOf(todo'[u], Spawns[task'[u]])
                        /\ Stage(u)' = "visiting" => LastOf(todo'[u], Successors[task'[u]])
      BY <1>4 DEF TodoLeft, LastOf
    <2>1. CASE u = t
      BY <1>1, <1>2, <1>6, <2>1
    <2>2. CASE u # t
      BY <1>1, <1>2, <2>2 DEF TodoLeft
    <2> QED BY <2>1, <2>2
  <1>8. /\ What(t, -2) = None /\ What(t, -2)' = s
        /\ \A u \in Threads, y \in Spots : <<u, y>> # <<t, -2>> => What(u, y)' = What(u, y)
    BY <1>1 DEF What
  <1>9. ASSUME NEW n \in Nat, RoundInv(n)
        PROVE  RoundInv(n)'
    <2>1. \A u \in Threads : task[u] = p => u = t
      BY <1>2, <1>9, TaskAlone DEF RoundInv
    <2>2. /\ \A u \in Threads : \A k, g : On(u, k, g)' <=> On(u, k, g)
          /\ On(t, p, "running")
          /\ \A u \in Threads : \A k : On(u, k, "visiting") => todo'[u] = todo[u]
          /\ \A u \in Threads : \A k : On(u, k, "running") /\ k # p => todo'[u] = todo[u]
          /\ \A u \in Threads : On(u, p, "running") => u = t
      BY <1>1, <1>2, <2>1 DEF On
    <2>3. started[p] = n
      BY <1>9, <2>2 DEF RoundInv, Stages
    <2>4. \A q \in Tasks : \A i : EdgeDone(n, q, i)' <=> EdgeDone(n, q, i)
      BY <1>1, <1>4, <2>2 DEF EdgeDone
    <2>5. \A q \in Tasks \ {p} : \A i : SpawnDone(n, q, i)' <=> SpawnDone(n, q, i)
      BY <1>1, <1>4, <2>2 DEF SpawnDone
    <2>6. ASSUME NEW i \in 1 .. Len(f)
          PROVE  /\ SpawnDone(n, p, i) <=> i < j
                 /\ SpawnDone(n, p, i)' <=> i <= j
      <3>1. SpawnDone(n, p, i) <=> i + Len(rest) <= Len(f)
        BY <2>2, <2>3 DEF SpawnDone
      <3>2. SpawnDone(n, p, i)' <=> i + Len(Tail(rest)) <= Len(f)
        BY <1>1, <1>2, <1>4, <2>2, <2>3 DEF SpawnDone
      <3> DEFINE l == Len(f)
                 m == Len(rest)
                 m1 == Len(Tail(rest))
      <3>3. l \in Nat /\ m \in Nat /\ m1 = m - 1 /\ j \in Nat /\ j + m = l + 1 /\ i \in 1 .. l
        BY <1>6
      <3> HIDE DEF l, m, m1
      <3>4. (i + m <= l <=> i < j) /\ (i + m1 <= l <=> i <= j)
        BY <3>3
      <3> QED BY <3>1, <3>2, <3>4 DEF l, m, m1
    <2>7. Positions(Successors, s) = {} /\ s \notin Roots /\ Positions(Spawns, s) = {<<p, j>>}
      <3>1. j \in 1 .. Len(Spawns[p]) /\ Spawns[p][j] = s
        BY <1>6
      <3> QED BY <3>1, SpawnedOnce
    <2>8. ~ Arrived(n, s)
      <3>1. ~ SpawnDone(n, p, j) /\ <<p, j>>[1] = p /\ <<p, j>>[2] = j
        BY <1>6, <2>6
      <3> QED BY <2>7, <3>1 DEF Arrived
    <2>9. Roots' = Roots /\ Positions(Successors, s)' = {} /\ Positions(Spawns, s)' = {<<p, j>>}
      BY <1>1, <2>7 DEF Roots, TotalPredecessors, Positions, Successors, Spawns
    <2>10. Arrived(n, s)'
      <3>1. SpawnDone(n, p, j)'
        BY <1>6, <2>6
      <3>2. \A e \in Positions(Spawns, s)' : SpawnDone(n, e[1], e[2])'
        BY <2>9, <3>1 DEF SpawnDone
      <3>3. Open(n, s)' = {}
        BY <2>9 DEF Open
      <3> QED BY <2>7, <2>9, <3>2, <3>3 DEF Arrived
    <2>11. ASSUME NEW k \in Tasks \ {s}
           PROVE  Open(n, k)' = Open(n, k) /\ (Arrived(n, k)' <=> Arrived(n, k))
      <3>1. \A q \in Tasks : \A i \in 1 .. Len(Spawns[q]) :
               Spawns[q][i] = k => (SpawnDone(n, q, i)' <=> SpawnDone(n, q, i))
        <4> SUFFICES ASSUME NEW q \in Tasks, NEW i \in 1 .. Len(Spawns[q]), Spawns[q][i] = k
                     PROVE  SpawnDone(n, q, i)' <=> SpawnDone(n, q, i)
          OBVIOUS
        <4>1. CASE q # p
          BY <2>5, <4>1
        <4>2. CASE q = p
          <5>1. i \in 1 .. Len(f) /\ i # j
            BY <1>6, <4>2
          <5>2. i < j <=> i <= j
            BY <1>6, <5>1
          <5> QED BY <2>6, <4>2, <5>1, <5>2
        <4> QED BY <4>1, <4>2
      <3> QED BY <1>1, <2>4, <3>1, SameArrived
    <2>12. batch # {}
      <3>1. What(t, 0) = p /\ 0 \in Spots
        BY DEF What, Spots
      <3> QED BY <1>2, <1>9, <3>1 DEF RoundInv, QuietWhenEmpty
    <2>13. \A k \in Tasks : (k \in Roots => submits[k] \in {n - 1, n}) /\ (k \in batch => submits[k] = n)
      BY <1>9 DEF RoundInv, Counts
    <2>14. batch \subseteq Tasks
      BY DEF Tallies, Roots
    <2>15. Open(n, s)' = {} /\ Open(n, s) = {}
      BY <2>7, <2>9 DEF Open
    <2>16. \/ remaining'[s] = Cardinality(Open(n, s)')
           \/ Open(n, s)' = {} /\ remaining'[s] = TotalPredecessors[s]
      BY <1>1, <1>6, <1>9, <2>15 DEF RoundInv, Remains
    <2>17. Arrives(n, s, t, -2)
      BY <1>1, <1>2, <1>6, <1>8, <2>8, <2>10, <2>11, <2>12, <2>13, <2>14, <2>16 DEF Arrives
    <2> QED BY <1>9, <2>17, ArrivesRound
  <1> QED BY <1>3, <1>7, <1>9

\* In round n, task s gets one open predecessor less, and has others.
LosesOne(n, s) ==
    /\ s \in Tasks /\ ~ Arrived(n, s) /\ ~ Arrived(n, s)'
    /\ \A u \in Threads, y \in Spots : What(u, y)' = What(u, y)
    /\ \A u \in Threads : Stage(u)' = Stage(u) /\ task'[u] = task[u]
    /\ graph' = graph /\ started' = started /\ ended' = ended /\ submits' = submits /\ batch' = batch
    /\ \A k \in Tasks \ {s} : /\ Open(n, k)' = Open(n, k) /\ (Arrived(n, k)' <=> Arrived(n, k))
                              /\ remaining'[k] = remaining[k]
    /\ remaining'[s] = Cardinality(Open(n, s)')

LEMMA LosesOneRound ==
  ASSUME IInv, NEW n \in Nat, RoundInv(n), NEW s, LosesOne(n, s)
  PROVE  RoundInv(n)'
  <1>1. /\ s \in Tasks /\ ~ Arrived(n, s) /\ ~ Arrived(n, s)'
        /\ \A u \in Threads, y \in Spots : What(u, y)' = What(u, y)
        /\ \A u \in Threads : Stage(u)' = Stage(u) /\ task'[u] = task[u]
        /\ graph' = graph /\ started' = started /\ ended' = ended /\ submits' = submits /\ batch' = batch
    BY DEF LosesOne
  <1>2. Roots' = Roots /\ TotalPredecessors' = TotalPredecessors /\ Cancellable' = Cancellable
    BY <1>1 DEF Roots, TotalPredecessors, Cancellable, Positions, Successors, Spawns
  <1>3. /\ started[s] # n /\ ~ Waiting(s)
        /\ \A u \in Threads, i \in Spots : What(u, i) # s
    BY <1>1, NotArrivedNowhere
  <1>4. Unique'
    BY <1>1 DEF RoundInv, Unique
  <1>5. \A k : Waiting(k)' <=> Waiting(k)
    BY <1>1 DEF Waiting
  <1>6. \A u \in Threads : \A k, g : On(u, k, g)' <=> On(u, k, g)
    BY <1>1 DEF On
  <1>7. Counts(n)'
    BY <1>1, <1>2 DEF RoundInv, Counts
  <1>8. Stages(n)'
    <2> SUFFICES ASSUME NEW k \in Tasks
                 PROVE  /\ Waiting(k)' => started'[k] = n - 1
                        /\ \A u \in Threads : /\ On(u, k, "running")' => started'[k] = n /\ ended'[k] = n - 1
                                              /\ On(u, k, "visiting")' => ended'[k] = n
                        /\ started'[k] = n /\ ended'[k] # n => \E u \in Threads : task'[u] = k
      BY DEF Stages
    <2> QED BY <1>1, <1>5, <1>6 DEF RoundInv, Stages
  <1>9. Arrivals(n)'
    <2> SUFFICES ASSUME NEW k \in Tasks
                 PROVE  /\ Waiting(k)' \/ started'[k] = n => Arrived(n, k)'
                        /\ Cancellable' = {} /\ Arrived(n, k)' => Waiting(k)' \/ started'[k] = n
      BY DEF Arrivals
    <2>1. CASE k = s
      BY <1>1, <1>3, <1>5, <2>1
    <2>2. CASE k # s
      BY <1>1, <1>2, <1>5, <2>2 DEF RoundInv, Arrivals, LosesOne
    <2> QED BY <2>1, <2>2
  <1>10. Remains(n)'
    <2> SUFFICES ASSUME NEW k \in Tasks
                 PROVE  /\ \/ remaining'[k] = Cardinality(Open(n, k)')
                           \/ Open(n, k)' = {} /\ remaining'[k] = TotalPredecessors'[k]
                        /\ started'[k] = n \/ (\E u \in Threads : On(u, k, "invoking")')
                           => remaining'[k] = TotalPredecessors'[k]
      BY DEF Remains
    <2>1. CASE k = s
      <3>1. ~ \E u \in Threads : On(u, s, "invoking")'
        <4>1. 0 \in Spots /\ \A u \in Threads : What(u, 0) = task[u]
          BY DEF Spots, What
        <4> QED BY <1>3, <1>6, <4>1 DEF On
      <3> QED BY <1>1, <1>3, <2>1, <3>1 DEF LosesOne
    <2>2. CASE k # s
      BY <1>1, <1>2, <1>6, <2>2 DEF RoundInv, Remains, LosesOne
    <2> QED BY <2>1, <2>2
  <1>11. QuietWhenEmpty'
    BY <1>1 DEF RoundInv, QuietWhenEmpty
  <1> QED BY <1>4, <1>7, <1>8, <1>9, <1>10, <1>11 DEF RoundInv

\* A successor has a predecessor, and no task submits it.
LEMMA SuccessorWaits ==
  ASSUME Tallies, NEW p \in Tasks, NEW j \in 1 .. Len(Successors[p]), NEW s \in Tasks, Successors[p][j] = s
  PROVE  /\ <<p, j>> \in Positions(Successors, s) /\ s \notin Roots
         /\ Positions(Spawns, s) = {}
  <1>1. DOMAIN Successors[p] = 1 .. Len(Successors[p])
    <2>1. Successors[p] \in Seq(Tasks)
      BY GraphsTyped DEF Tallies
    <2> QED BY <2>1
  <1>2. <<p, j>> \in Positions(Successors, s)
    BY <1>1, PositionsAre
  <1>3. \A x, y \in Positions(Spawns, s) : x = y /\ Positions(Successors, s) = {}
    <2>1. graph \in Graphs
      BY DEF Tallies
    <2>2. \A x, y \in Positions(graph.spawns, s) : x = y /\ Positions(graph.successors, s) = {}
      BY <2>1, GraphsAssumption, Zenon
    <2> QED BY <2>2 DEF Spawns, Successors
  <1>4. s \notin Roots
    BY <1>2, TotalCounts DEF Tallies
  <1> QED BY <1>2, <1>3, <1>4

\* One successor gets one predecessor less.
LEMMA VisitSuccessorRound ==
  ASSUME IInv, NextHeld, TodoLeft, Tallies, NEW t \in Threads, VisitSuccessor(t)
  PROVE  /\ NextHeld' /\ TodoLeft'
         /\ \A n \in Nat : RoundInv(n) => RoundInv(n)'
  <1> PICK p \in Tasks : p = task[t]
    BY DEF IInv, ThreadsTyped, TaskHeld, VisitSuccessor
  <1> PICK rest : rest = todo[t]
    OBVIOUS
  <1>0. rest \in Seq(Tasks) /\ rest # <<>> /\ Head(rest) \in Tasks
    BY DEF IInv, ThreadsTyped, VisitSuccessor
  <1> PICK s \in Tasks : s \in {Head(rest)}
    BY <1>0
  <1>1. /\ pc[t] \in {"visiting", "releasing"} /\ p # None /\ s # None
        /\ queues' = queues /\ task' = task
        /\ todo' = [todo EXCEPT ![t] = Tail(rest)]
        /\ todo \in [Threads -> Seq(Tasks)] /\ sub \in [Threads -> Tasks \cup {None}]
        /\ next \in [Threads -> Tasks \cup {None}]
        /\ pc \in [Threads -> Points \cup ClientPoints \cup WorkerPoints]
        /\ remaining \in [Tasks -> Int]
        /\ remaining' = [remaining EXCEPT ![s] = remaining[s] - 1]
        /\ graph' = graph /\ started' = started /\ ended' = ended
        /\ submits' = submits /\ batch' = batch
        /\ pc[t] = "visiting" => next[t] = None
        /\ pc[t] = "releasing" => next[t] # None
    BY ConstantsTyped
       DEF IInv, ThreadsTyped, NextHeld, Submitting, Tallies, VisitSuccessor, queueVars,
           history
  <1>2. \/ remaining[s] # 1 /\ pc' = pc /\ next' = next /\ sub' = sub
        \/ /\ remaining[s] = 1 /\ pc[t] = "visiting" /\ sub' = sub
           /\ next' = [next EXCEPT ![t] = s] /\ pc' = [pc EXCEPT ![t] = "releasing"]
        \/ /\ remaining[s] = 1 /\ pc[t] = "releasing" /\ next' = next
           /\ sub' = [sub EXCEPT ![t] = s] /\ pc' = [pc EXCEPT ![t] = "counting"]
    BY DEF VisitSuccessor, LastPredecessor, EnterSubmit, SubmitOrder, Goto
  <1>3. /\ \A u \in Threads \ {t} : Stage(u)' = Stage(u) /\ todo'[u] = todo[u]
        /\ Stage(t) = "visiting" /\ Stage(t)' = "visiting" /\ todo'[t] = Tail(rest)
    BY <1>1, <1>2 DEF Stage, Submitting
  <1>4. NextHeld'
    BY <1>1, <1>2 DEF NextHeld, Submitting
  <1>5. /\ Successors' = Successors /\ Spawns' = Spawns
        /\ Successors[p] \in Seq(Tasks) /\ Len(Successors[p]) \in Nat
    <2>1. Successors[p] \in Seq(Tasks)
      BY GraphsTyped DEF Tallies
    <2> QED BY <1>1, <2>1 DEF Successors, Spawns
  <1> PICK f : f = Successors[p]
    OBVIOUS
  <1>6. LastOf(rest, f)
    BY <1>3 DEF TodoLeft
  <1> PICK j \in Nat : j + Len(rest) = Len(f) + 1
    <2>1. Len(f) - Len(rest) + 1 \in 1 .. Len(f) /\ Len(rest) \in Nat /\ Len(f) \in Nat
      BY <1>0, <1>5, <1>6, TailIsLast
    <2> DEFINE l == Len(f)
               m == Len(rest)
    <2>2. l - m + 1 \in Nat /\ (l - m + 1) + m = l + 1
      <3> HIDE DEF l, m
      <3> QED BY <2>1 DEF l, m
    <2> QED BY <2>2
  <1>7. /\ LastOf(Tail(rest), f) /\ j \in 1 .. Len(f) /\ s = f[j]
        /\ Len(rest) \in Nat \ {0} /\ Len(f) \in Nat /\ Len(Tail(rest)) = Len(rest) - 1
    BY <1>0, <1>5, <1>6, TailIsLast
  <1>8. TodoLeft'
    <2> SUFFICES ASSUME NEW u \in Threads
                 PROVE  /\ Stage(u)' = "running" => LastOf(todo'[u], Spawns[task'[u]])
                        /\ Stage(u)' = "visiting" => LastOf(todo'[u], Successors[task'[u]])
      BY <1>5 DEF TodoLeft, LastOf
    <2>1. CASE u = t
      BY <1>1, <1>3, <1>7, <2>1
    <2>2. CASE u # t
      BY <1>1, <1>3, <2>2 DEF TodoLeft
    <2> QED BY <2>1, <2>2
  <1>9. ASSUME NEW n \in Nat, RoundInv(n)
        PROVE  RoundInv(n)'
    <2>1. \A u \in Threads : task[u] = p => u = t
      BY <1>1, <1>9, TaskAlone DEF RoundInv
    <2>2. /\ \A u \in Threads : \A k, g : On(u, k, g)' <=> On(u, k, g)
          /\ On(t, p, "visiting")
          /\ \A u \in Threads : \A k : On(u, k, "running") => todo'[u] = todo[u]
          /\ \A u \in Threads : \A k : On(u, k, "visiting") /\ k # p => todo'[u] = todo[u]
          /\ \A u \in Threads : On(u, p, "visiting") => u = t
      BY <1>1, <1>3, <2>1 DEF On
    <2>3. ended[p] = n
      BY <1>9, <2>2 DEF RoundInv, Stages
    <2>4. \A q \in Tasks : \A i : SpawnDone(n, q, i)' <=> SpawnDone(n, q, i)
      BY <1>1, <1>5, <2>2 DEF SpawnDone
    <2>5. \A q \in Tasks \ {p} : \A i : EdgeDone(n, q, i)' <=> EdgeDone(n, q, i)
      BY <1>1, <1>5, <2>2 DEF EdgeDone
    <2>6. ASSUME NEW i \in 1 .. Len(f)
          PROVE  /\ EdgeDone(n, p, i) <=> i < j
                 /\ EdgeDone(n, p, i)' <=> i <= j
      <3>1. EdgeDone(n, p, i) <=> i + Len(rest) <= Len(f)
        BY <2>2, <2>3 DEF EdgeDone
      <3>2. EdgeDone(n, p, i)' <=> i + Len(Tail(rest)) <= Len(f)
        BY <1>1, <1>3, <1>5, <2>2, <2>3 DEF EdgeDone
      <3> DEFINE l == Len(f)
                 m == Len(rest)
                 m1 == Len(Tail(rest))
      <3>3. l \in Nat /\ m \in Nat /\ m1 = m - 1 /\ j \in Nat /\ j + m = l + 1 /\ i \in 1 .. l
        BY <1>7
      <3> HIDE DEF l, m, m1
      <3>4. (i + m <= l <=> i < j) /\ (i + m1 <= l <=> i <= j)
        BY <3>3
      <3> QED BY <3>1, <3>2, <3>4 DEF l, m, m1
    <2>7. <<p, j>> \in Positions(Successors, s) /\ s \notin Roots /\ Positions(Spawns, s) = {}
      <3>1. j \in 1 .. Len(Successors[p]) /\ Successors[p][j] = s
        BY <1>7
      <3> QED BY <3>1, SuccessorWaits
    <2>8. /\ Roots' = Roots /\ Positions(Spawns, s)' = {}
          /\ Positions(Successors, s)' = Positions(Successors, s)
      BY <1>1, <2>7 DEF Roots, TotalPredecessors, Positions, Successors, Spawns
    <2>9. <<p, j>> \in Open(n, s) /\ Open(n, s)' = Open(n, s) \ {<<p, j>>}
      <3>1. ~ EdgeDone(n, p, j) /\ EdgeDone(n, p, j)'
        BY <1>7, <2>6
      <3>2. ASSUME NEW e \in Positions(Successors, s), e # <<p, j>>
            PROVE  EdgeDone(n, e[1], e[2])' <=> EdgeDone(n, e[1], e[2])
        <4> PICK q \in Tasks : \E i \in DOMAIN Successors[q] : e = <<q, i>>
          BY PositionsAre
        <4> PICK i \in DOMAIN Successors[q] : e = <<q, i>>
          OBVIOUS
        <4>1. CASE q # p
          <5>1. EdgeDone(n, q, i)' <=> EdgeDone(n, q, i)
            BY <2>5, <4>1
          <5>2. e[1] = q /\ e[2] = i
            OBVIOUS
          <5> QED BY <5>1, <5>2 DEF EdgeDone
        <4>2. CASE q = p
          <5>1. i \in 1 .. Len(f) /\ i # j
            BY <1>5, <3>2, <4>2
          <5>2. i < j <=> i <= j
            BY <5>1
          <5>3. EdgeDone(n, p, i)' <=> EdgeDone(n, p, i)
            BY <2>6, <5>1, <5>2
          <5>4. e[1] = p /\ e[2] = i
            BY <4>2
          <5> QED BY <5>3, <5>4 DEF EdgeDone
        <4> QED BY <4>1, <4>2
      <3>3. <<p, j>>[1] = p /\ <<p, j>>[2] = j
        OBVIOUS
      <3>4. EdgeDone(n, <<p, j>>[1], <<p, j>>[2])'
        BY <3>1, <3>3 DEF EdgeDone
      <3>5. <<p, j>> \in Open(n, s)
        BY <2>7, <3>1, <3>3 DEF Open
      <3>6. \A e : e \in Open(n, s)' <=> e \in Positions(Successors, s) /\ ~ EdgeDone(n, e[1], e[2])'
        BY <2>8 DEF Open
      <3>7. \A e : e \in Open(n, s) <=> e \in Positions(Successors, s) /\ ~ EdgeDone(n, e[1], e[2])
        BY DEF Open
      <3> QED BY <3>2, <3>4, <3>5, <3>6, <3>7
    <2> PICK open : open = Open(n, s)
      OBVIOUS
    <2> PICK edge : edge = <<p, j>>
      OBVIOUS
    <2>10. IsFiniteSet(open) /\ Cardinality(open) \in Nat /\ Cardinality(open \ {edge}) = Cardinality(open) - 1
      <3>1. IsFiniteSet(Positions(Successors, s))
        BY TotalCounts DEF Tallies
      <3>2. open \subseteq Positions(Successors, s)
        BY DEF Open
      <3>3. IsFiniteSet(open)
        BY <3>1, <3>2, FS_Subset
      <3> QED BY <2>9, <3>3, FS_CardinalityType, FS_RemoveElement
    <2>11. remaining[s] = Cardinality(open) /\ remaining'[s] = Cardinality(Open(n, s)')
      <3>1. remaining[s] = Cardinality(open)
        BY <1>9, <2>9 DEF RoundInv, Remains
      <3>2. remaining'[s] = remaining[s] - 1
        BY <1>1
      <3> QED BY <2>9, <2>10, <3>1, <3>2
    <2>12. Open(n, s)' = {} <=> remaining[s] = 1
      <3>1. IsFiniteSet(open \ {edge})
        BY <2>10, FS_Subset
      <3>2. open \ {edge} = {} <=> Cardinality(open \ {edge}) = 0
        BY <3>1, FS_EmptySet
      <3>3. Cardinality(open \ {edge}) = 0 <=> Cardinality(open) = 1
        BY <2>10
      <3> QED BY <2>9, <2>11, <3>2, <3>3
    <2>13. ~ Arrived(n, s) /\ (Arrived(n, s)' <=> Open(n, s)' = {})
      BY <2>7, <2>8, <2>9 DEF Arrived
    <2>14. ASSUME NEW k \in Tasks \ {s}
           PROVE  Open(n, k)' = Open(n, k) /\ (Arrived(n, k)' <=> Arrived(n, k)) /\ remaining'[k] = remaining[k]
      <3>1. \A q \in Tasks : \A i \in 1 .. Len(Successors[q]) :
               Successors[q][i] = k => (EdgeDone(n, q, i)' <=> EdgeDone(n, q, i))
        <4> SUFFICES ASSUME NEW q \in Tasks, NEW i \in 1 .. Len(Successors[q]), Successors[q][i] = k
                     PROVE  EdgeDone(n, q, i)' <=> EdgeDone(n, q, i)
          OBVIOUS
        <4>1. CASE q # p
          BY <2>5, <4>1
        <4>2. CASE q = p
          <5>1. i \in 1 .. Len(f) /\ i # j
            BY <1>7, <4>2
          <5>2. i < j <=> i <= j
            BY <1>7, <5>1
          <5> QED BY <2>6, <4>2, <5>1, <5>2
        <4> QED BY <4>1, <4>2
      <3>2. Open(n, k)' = Open(n, k) /\ (Arrived(n, k)' <=> Arrived(n, k))
        BY <1>1, <2>4, <3>1, SameArrived
      <3> QED BY <1>1, <3>2
    <2>15. batch # {}
      <3>1. What(t, 0) = p /\ 0 \in Spots
        BY DEF What, Spots
      <3> QED BY <1>1, <1>9, <3>1 DEF RoundInv, QuietWhenEmpty
    <2>16. /\ \A k \in Tasks : (k \in Roots => submits[k] \in {n - 1, n}) /\ (k \in batch => submits[k] = n)
           /\ batch \subseteq Tasks
      BY <1>9 DEF RoundInv, Counts, Tallies, Roots
    <2>17. CASE remaining[s] # 1
      <3>1. pc' = pc /\ next' = next /\ sub' = sub
        BY <1>2, <2>17
      <3>2. \A u \in Threads, y \in Spots : What(u, y)' = What(u, y)
        BY <1>1, <3>1 DEF What
      <3>3. ~ Arrived(n, s)'
        BY <2>12, <2>13, <2>17
      <3>4. LosesOne(n, s)
        BY <1>1, <1>3, <2>11, <2>13, <2>14, <3>2, <3>3 DEF LosesOne
      <3> QED BY <1>9, <3>4, LosesOneRound
    <2>18. CASE remaining[s] = 1
      <3>1. Arrived(n, s)'
        BY <2>12, <2>13, <2>18
      <3>2. CASE pc[t] = "visiting"
        <4>1. /\ What(t, -1) = None /\ What(t, -1)' = s
              /\ \A u \in Threads, y \in Spots : <<u, y>> # <<t, -1>> => What(u, y)' = What(u, y)
          BY <1>1, <1>2, <2>18, <3>2 DEF What
        <4>2. Arrives(n, s, t, -1)
          BY <1>1, <1>3, <2>11, <2>13, <2>14, <2>15, <2>16, <3>1, <4>1 DEF Arrives
        <4> QED BY <1>9, <4>2, ArrivesRound
      <3>3. CASE pc[t] = "releasing"
        <4>1. /\ What(t, -2) = None /\ What(t, -2)' = s
              /\ \A u \in Threads, y \in Spots : <<u, y>> # <<t, -2>> => What(u, y)' = What(u, y)
          BY <1>1, <1>2, <2>18, <3>3 DEF What
        <4>2. Arrives(n, s, t, -2)
          BY <1>1, <1>3, <2>11, <2>13, <2>14, <2>15, <2>16, <3>1, <4>1 DEF Arrives
        <4> QED BY <1>9, <4>2, ArrivesRound
      <3> QED BY <1>1, <3>2, <3>3
    <2> QED BY <2>17, <2>18
  <1> QED BY <1>4, <1>8, <1>9

-----------------------------------------------------------------------------
(* From one round to the next                                              *)

\* In every set of tasks there is one that no other of them precedes or submits.
LEMMA FirstOf ==
  ASSUME graph \in Graphs, NEW S \in SUBSET Tasks, S # {}
  PROVE  \E k \in S : \A e \in Positions(Successors, k) \cup Positions(Spawns, k) : e[1] \in Tasks \ S
  <1>1. PICK k \in S : \A t \in S : k \notin Range(Successors[t]) \cup Range(Spawns[t])
    <2>1. S \in (SUBSET Tasks) \ {{}}
      OBVIOUS
    <2>2. \E k \in S : \A t \in S : k \notin Range(graph.successors[t]) \cup Range(graph.spawns[t])
      BY <2>1, GraphsAssumption, Zenon
    <2> QED BY <2>2 DEF Successors, Spawns
  <1>2. ASSUME NEW e \in Positions(Successors, k) \cup Positions(Spawns, k)
        PROVE  e[1] \in Tasks \ S
    <2>1. CASE e \in Positions(Successors, k)
      <3> PICK p \in Tasks : \E i \in DOMAIN Successors[p] : e = <<p, i>> /\ Successors[p][i] = k
        BY <2>1, PositionsAre
      <3>1. k \in Range(Successors[p])
        BY DEF Range
      <3> QED BY <1>1, <3>1
    <2>2. CASE e \in Positions(Spawns, k)
      <3> PICK p \in Tasks : \E i \in DOMAIN Spawns[p] : e = <<p, i>> /\ Spawns[p][i] = k
        BY <2>2, PositionsAre
      <3>1. k \in Range(Spawns[p])
        BY DEF Range
      <3> QED BY <1>1, <3>1
    <2> QED BY <2>1, <2>2
  <1> QED BY <1>2

NoneAnywhere == \A t \in Threads, i \in Spots : What(t, i) = None

\* When nothing is left of a round in which all roots were submitted, and nothing
\* was cancelled, all tasks have run.
LEMMA AllDone ==
  ASSUME Tallies, NEW n \in Nat, RoundInv(n), Cancellable = {}, NoneAnywhere,
         \A r \in Roots : submits[r] = n
  PROVE  \A k \in Tasks : started[k] = n /\ ended[k] = n
  <1>1. \A t \in Threads : task[t] = None
    <2>1. 0 \in Spots /\ \A t \in Threads : What(t, 0) = task[t]
      BY DEF What, Spots
    <2> QED BY <2>1 DEF NoneAnywhere
  <1>2. \A t \in Threads, k \in Tasks : \A g : ~ On(t, k, g)
    BY <1>1, ConstantsTyped DEF On
  <1>3. \A k \in Tasks : ~ Waiting(k)
    BY ConstantsTyped DEF Waiting, NoneAnywhere
  <1>4. \A k \in Tasks : ended[k] = n => started[k] = n
    BY DEF RoundInv, Counts, Tallies
  <1>5. \A k \in Tasks : started[k] = n => ended[k] = n
    BY <1>1, ConstantsTyped DEF RoundInv, Stages
  <1> DEFINE S == {k \in Tasks : ended[k] # n}
  <1>6. ASSUME S # {}
        PROVE  FALSE
    <2>1. S \in SUBSET Tasks /\ graph \in Graphs
      BY DEF Tallies
    <2> HIDE DEF S
    <2>2. PICK k \in S : \A e \in Positions(Successors, k) \cup Positions(Spawns, k) : e[1] \in Tasks \ S
      BY <1>6, <2>1, FirstOf
    <2>3. k \in Tasks /\ started[k] # n
      BY <1>5 DEF S
    <2>4. ASSUME NEW e \in Positions(Successors, k) \cup Positions(Spawns, k)
          PROVE  e[1] \in Tasks /\ ended[e[1]] = n /\ started[e[1]] = n
      BY <1>4, <2>2 DEF S
    <2>5. Open(n, k) = {}
      BY <1>2, <2>4 DEF Open, EdgeDone
    <2>6. Arrived(n, k)
      BY <1>2, <2>4, <2>5 DEF Arrived, SpawnDone
    <2> QED BY <1>3, <2>3, <2>6 DEF RoundInv, Arrivals
  <1> QED BY <1>4, <1>6

\* Before the first root of a round is submitted, nothing of the round has begun.
LEMMA NoneBegun ==
  ASSUME Tallies, NEW n \in Nat, RoundInv(n), \A r \in Roots : submits[r] # n
  PROVE  \A k \in Tasks : started[k] = n - 1 /\ ended[k] = n - 1
  <1> DEFINE S == {k \in Tasks : started[k] = n}
  <1>1. ASSUME S # {}
        PROVE  FALSE
    <2>1. S \in SUBSET Tasks /\ graph \in Graphs
      BY DEF Tallies
    <2> HIDE DEF S
    <2>2. PICK k \in S : \A e \in Positions(Successors, k) \cup Positions(Spawns, k) : e[1] \in Tasks \ S
      BY <1>1, <2>1, FirstOf
    <2>3. k \in Tasks /\ Arrived(n, k)
      BY DEF S, RoundInv, Arrivals
    <2>4. Positions(Successors, k) = {}
      <3> SUFFICES ASSUME NEW e \in Positions(Successors, k)
                   PROVE  FALSE
        OBVIOUS
      <3>1. EdgeDone(n, e[1], e[2])
        BY <2>3 DEF Arrived, Open
      <3>2. e[1] \in Tasks /\ ended[e[1]] = n /\ started[e[1]] # n
        BY <2>2, <3>1 DEF EdgeDone, S
      <3> QED BY <3>2 DEF RoundInv, Counts, Tallies
    <2>5. Positions(Spawns, k) = {}
      <3> SUFFICES ASSUME NEW e \in Positions(Spawns, k)
                   PROVE  FALSE
        OBVIOUS
      <3> QED BY <2>2, <2>3 DEF Arrived, SpawnDone, S
    <2>6. k \in Roots
      BY <2>1, <2>3, <2>4, <2>5, TotalCounts
    <2> QED BY <2>3, <2>6 DEF Arrived
  <1>2. \A k \in Tasks : started[k] # n
    BY <1>1
  <1> QED BY <1>2 DEF RoundInv, Counts, Tallies

\* A round that is over is the beginning of the next.
LEMMA NextRound ==
  ASSUME Tallies, NEW n \in Nat, RoundInv(n), batch = {},
         \A r \in Roots : submits[r] = n,
         \A k \in Tasks : started[k] = n /\ ended[k] = n
  PROVE  RoundInv(n + 1)
  <1>1. n + 1 - 1 = n /\ n # n + 1
    OBVIOUS
  <1>2. NoneAnywhere
    BY DEF RoundInv, QuietWhenEmpty, NoneAnywhere
  <1>3. \A t \in Threads, k \in Tasks : \A g : ~ On(t, k, g)
    <2>1. 0 \in Spots /\ \A t \in Threads : What(t, 0) = task[t]
      BY DEF What, Spots
    <2> QED BY <1>2, <2>1, ConstantsTyped DEF NoneAnywhere, On
  <1>4. \A k \in Tasks : ~ Waiting(k)
    BY <1>2, ConstantsTyped DEF Waiting, NoneAnywhere
  <1>5. Counts(n + 1)
    BY <1>1 DEF Counts
  <1>6. Stages(n + 1)
    BY <1>1, <1>3, <1>4 DEF Stages
  <1>7. \A k \in Tasks : Open(n + 1, k) = Positions(Successors, k)
    <2> SUFFICES ASSUME NEW k \in Tasks, NEW e \in Positions(Successors, k)
                 PROVE  ~ EdgeDone(n + 1, e[1], e[2])
      BY DEF Open
    <2>1. e[1] \in Tasks
      BY PositionsAre
    <2> QED BY <1>1, <2>1 DEF EdgeDone
  <1>8. \A k \in Tasks : ~ Arrived(n + 1, k)
    <2> SUFFICES ASSUME NEW k \in Tasks, Arrived(n + 1, k)
                 PROVE  FALSE
      OBVIOUS
    <2>1. Positions(Successors, k) = {}
      BY <1>7 DEF Arrived
    <2>2. Positions(Spawns, k) = {}
      <3> SUFFICES ASSUME NEW e \in Positions(Spawns, k)
                   PROVE  FALSE
        OBVIOUS
      <3>1. e[1] \in Tasks
        BY PositionsAre
      <3> QED BY <1>1, <3>1 DEF Arrived, SpawnDone
    <2>3. k \in Roots
      BY <2>1, <2>2, TotalCounts DEF Tallies
    <2> QED BY <1>1, <2>3 DEF Arrived
  <1>9. Arrivals(n + 1)
    BY <1>1, <1>4, <1>8 DEF Arrivals
  <1>10. Remains(n + 1)
    <2> SUFFICES ASSUME NEW k \in Tasks
                 PROVE  remaining[k] = Cardinality(Open(n + 1, k)) /\ remaining[k] = TotalPredecessors[k]
      BY DEF Remains
    <2>1. remaining[k] = TotalPredecessors[k]
      BY DEF RoundInv, Remains
    <2>2. TotalPredecessors[k] = Cardinality(Positions(Successors, k))
      BY TotalCounts DEF Tallies
    <2> QED BY <1>7, <2>1, <2>2
  <1> QED BY <1>5, <1>6, <1>9, <1>10 DEF RoundInv

\* A root arrives when the client submits it.
LEMMA RootArrives ==
  ASSUME IInv, NextHeld, Tallies, NEW r \in Roots, ClientSubmits(r),
         NEW n \in Nat, RoundInv(n), submits[r] = n - 1
  PROVE  RoundInv(n)'
  <1>1. /\ pc[0] = "idle" /\ pc' = [pc EXCEPT ![0] = "counting"] /\ task[0] = None /\ next[0] = None
        /\ r \in Tasks /\ 0 \in Threads
        /\ queues' = queues /\ task' = task /\ next' = next /\ todo' = todo
        /\ sub' = [sub EXCEPT ![0] = r] /\ sub \in [Threads -> Tasks \cup {None}]
        /\ pc \in [Threads -> Points \cup ClientPoints \cup WorkerPoints]
        /\ graph' = graph /\ remaining' = remaining /\ started' = started /\ ended' = ended
        /\ batch' = batch \cup {r} /\ submits' = [submits EXCEPT ![r] = submits[r] + 1]
        /\ submits \in [Tasks -> 0 .. graph.rounds] /\ batch \subseteq Tasks
    BY ThreadsFinite
       DEF IInv, ThreadsTyped, TaskHeld, ClientPoints, NextHeld, Submitting, Tallies, Roots,
           ClientSubmits, EnterSubmit, SubmitOrder, Goto, queueVars, graphVars
  <1>2. /\ What(0, -2) = None /\ What(0, -2)' = r
        /\ \A u \in Threads, y \in Spots : <<u, y>> # <<0, -2>> => What(u, y)' = What(u, y)
    BY <1>1 DEF What
  <1>3. \A u \in Threads : Stage(u)' = Stage(u)
    BY <1>1 DEF Stage, Submitting
  <1>4. SameRunners
    BY <1>1, <1>3 DEF SameRunners
  <1>5. /\ Positions(Successors, r) = {} /\ Positions(Spawns, r) = {}
        /\ Roots' = Roots /\ Positions(Successors, r)' = {} /\ Positions(Spawns, r)' = {}
    <2>1. Positions(Successors, r) = {} /\ Positions(Spawns, r) = {}
      BY <1>1, TotalCounts DEF Tallies
    <2> QED BY <1>1, <2>1 DEF Roots, TotalPredecessors, Positions, Successors, Spawns
  <1>6. submits'[r] = n /\ n - 1 # n /\ \A k \in Tasks \ {r} : submits'[k] = submits[k]
    BY <1>1
  <1>7. ~ Arrived(n, r)
    BY <1>6 DEF Arrived
  <1>8. Open(n, r)' = {} /\ Open(n, r) = {}
    BY <1>5 DEF Open
  <1>9. Arrived(n, r)'
    BY <1>5, <1>6, <1>8 DEF Arrived
  <1>10. ASSUME NEW k \in Tasks \ {r}
         PROVE  Open(n, k)' = Open(n, k) /\ (Arrived(n, k)' <=> Arrived(n, k)) /\ remaining'[k] = remaining[k]
    BY <1>1, <1>4, <1>6, SameEdges
  <1>11. \/ remaining'[r] = Cardinality(Open(n, r)')
         \/ Open(n, r)' = {} /\ remaining'[r] = TotalPredecessors[r]
    BY <1>1, <1>8 DEF RoundInv, Remains
  <1>12. \A k \in Tasks : k \in Roots => submits'[k] \in {n - 1, n}
    BY <1>6 DEF RoundInv, Counts
  <1>13. \A k \in batch' : submits'[k] = n
    BY <1>1, <1>6 DEF RoundInv, Counts
  <1>14. Arrives(n, r, 0, -2)
    BY <1>1, <1>2, <1>3, <1>7, <1>9, <1>10, <1>11, <1>12, <1>13 DEF Arrives
  <1> QED BY <1>14, ArrivesRound

\* The client submits a root, the first of a round or another one.
LEMMA ClientSubmitsRound ==
  ASSUME IInv, NextHeld, TodoLeft, Tallies, NEW r \in Roots, ClientSubmits(r)
  PROVE  /\ NextHeld' /\ TodoLeft'
         /\ Steady /\ (\E n \in 0 .. graph.rounds : RoundInv(n))
            => \E n \in 0 .. graph.rounds : RoundInv(n)'
  <1>1. /\ pc[0] = "idle" /\ pc' = [pc EXCEPT ![0] = "counting"] /\ task[0] = None /\ next[0] = None
        /\ task' = task /\ next' = next /\ todo' = todo /\ graph' = graph
        /\ pc \in [Threads -> Points \cup ClientPoints \cup WorkerPoints]
        /\ r \in Tasks /\ submits \in [Tasks -> 0 .. graph.rounds]
        /\ started \in [Tasks -> Nat] /\ ended \in [Tasks -> Nat]
        /\ graph \in Graphs /\ graph.rounds \in Nat
    BY ThreadsFinite, GraphsTyped
       DEF IInv, ThreadsTyped, TaskHeld, ClientPoints, NextHeld, Submitting, Tallies, Roots,
           ClientSubmits, EnterSubmit, SubmitOrder, Goto, graphVars
  <1>2. NextHeld'
    BY <1>1 DEF NextHeld, Submitting
  <1>3. TodoLeft'
    <2>1. \A u \in Threads : Stage(u)' = Stage(u)
      BY <1>1 DEF Stage, Submitting
    <2>2. SameRunners
      BY <1>1, <2>1 DEF SameRunners
    <2> QED BY <1>1, <2>2, TodoKept
  <1>4. ASSUME Steady, NEW n \in 0 .. graph.rounds, RoundInv(n)
        PROVE  \E m \in 0 .. graph.rounds : RoundInv(m)'
    <2>1. n \in Nat /\ submits[r] \in {n - 1, n} /\ submits[r] \in Nat
      BY <1>1, <1>4 DEF RoundInv, Counts
    <2>2. CASE submits[r] = n - 1
      <3>1. RoundInv(n)'
        BY <1>4, <2>1, <2>2, RootArrives
      <3> QED BY <3>1
    <2>3. CASE submits[r] = n
      <3>1. \A q \in Roots : submits[q] = n
        <4> SUFFICES ASSUME NEW q \in Roots
                     PROVE  submits[q] = n
          OBVIOUS
        <4>1. n <= submits[q] /\ submits[q] \in {n - 1, n}
          BY <1>4, <2>3 DEF ClientSubmits, RoundInv, Counts, Roots
        <4> QED BY <2>1, <4>1
      <3>2. batch = {}
        <4> SUFFICES ASSUME NEW q \in batch
                     PROVE  FALSE
          OBVIOUS
        <4>1. q \in Tasks
          BY DEF Tallies, Roots
        <4>2. submits[q] = n + 1 /\ submits[q] = n
          BY <1>4, <2>3, <4>1 DEF ClientSubmits, RoundInv, Counts
        <4> QED BY <2>1, <4>2
      <3>3. n + 1 \in 0 .. graph.rounds
        <4>1. n < graph.rounds
          BY <2>3 DEF ClientSubmits
        <4> QED BY <1>1, <4>1
      <3>4. NoneAnywhere
        BY <1>4, <3>2 DEF RoundInv, QuietWhenEmpty, NoneAnywhere
      <3>5. \A k \in Tasks : started[k] = n /\ ended[k] = n
        <4>1. CASE Cancellable = {}
          BY <1>4, <2>1, <3>1, <3>4, <4>1, AllDone
        <4>2. CASE Cancellable # {}
          <5>1. n = 0
            BY <1>1, <1>4, <3>3, <4>2 DEF Steady
          <5>2. \A k \in Tasks : started[k] \in Nat /\ ended[k] \in Nat
            BY <1>1
          <5> QED BY <1>4, <5>1, <5>2 DEF RoundInv, Counts
        <4> QED BY <4>1, <4>2
      <3>6. RoundInv(n + 1)
        BY <1>4, <2>1, <3>1, <3>2, <3>5, NextRound
      <3>7. n + 1 \in Nat /\ submits[r] = (n + 1) - 1
        BY <2>1, <2>3
      <3>8. RoundInv(n + 1)'
        BY <3>6, <3>7, RootArrives
      <3> QED BY <3>3, <3>8
    <2> QED BY <2>1, <2>2, <2>3
  <1> QED BY <1>2, <1>3, <1>4

-----------------------------------------------------------------------------
(* The invariant of the graph                                              *)

\* What the answers of Cancel() and the flags of a task tell of it: a task flagged
\* as invoked was, unless it is cancelled, and one that was first cancelled too
\* late was.
Told(k) ==
    /\ "cancelled" \in flags[k] <=> verdict[k] # {}
    /\ "invoked" \in flags[k] /\ "cancelled" \notin flags[k] => started[k] > 0
    /\ verdict[k] = {"late"} => started[k] > 0

\* A task whose flags nobody clears is flagged once it is invoked, and what
\* Cancel() held back is not invoked.
HeldBack(k) ==
    /\ started[k] > 0 => "invoked" \in flags[k]
    /\ "held" \in verdict[k] => "cancelled" \in flags[k] /\ started[k] = 0

Verdicts == \A k \in Tasks : Told(k) /\ (k \notin Resettable => HeldBack(k))

Rounds == Steady => \E n \in 0 .. graph.rounds : RoundInv(n)

GraphInv == Tallies /\ NextHeld /\ TodoLeft /\ NotCancelled /\ Verdicts /\ Rounds

\* A step that leaves the graph, its counts and the history alone.
LEMMA SameTallies ==
  ASSUME Tallies, NotCancelled, Verdicts,
         graph' = graph, remaining' = remaining, flags' = flags,
         batch' \subseteq batch, submits' = submits, started' = started, ended' = ended, verdict' = verdict
  PROVE  Tallies' /\ NotCancelled' /\ Verdicts'
  <1>1. Roots' = Roots /\ Cancellable' = Cancellable /\ Resettable' = Resettable
    BY DEF Roots, TotalPredecessors, Positions, Successors, Spawns, Cancellable, Resettable
  <1>2. Tallies'
    BY <1>1 DEF Tallies
  <1> QED BY <1>1, <1>2 DEF NotCancelled, Verdicts, Told, HeldBack

\* The steps that do not.
LEMMA StartTallies ==
  ASSUME IInv, Tallies, NotCancelled, Verdicts, NEW t \in Threads, Start(t) \/ VisitSuccessor(t)
  PROVE  Tallies' /\ NotCancelled' /\ Verdicts'
  <1>1. /\ graph' = graph /\ flags' = flags /\ batch' = batch
        /\ submits' = submits /\ started' = started /\ ended' = ended /\ verdict' = verdict
    BY DEF Start, VisitSuccessor, history
  <1>2. Roots' = Roots /\ Cancellable' = Cancellable /\ Resettable' = Resettable
    BY <1>1 DEF Roots, TotalPredecessors, Positions, Successors, Spawns, Cancellable, Resettable
  <1>3. remaining' \in [Tasks -> Int]
    <2>1. remaining \in [Tasks -> Int] /\ graph \in Graphs
      BY DEF Tallies
    <2>2. CASE Start(t)
      <3>1. task[t] \in Tasks
        BY <2>2 DEF IInv, ThreadsTyped, TaskHeld, Start
      <3>2. TotalPredecessors[task[t]] \in Int
        BY <2>1, <3>1, TotalCounts
      <3> QED BY <2>1, <2>2, <3>2 DEF Start
    <2>3. CASE VisitSuccessor(t)
      <3>1. Head(todo[t]) \in Tasks
        BY <2>3 DEF IInv, ThreadsTyped, VisitSuccessor
      <3> QED BY <2>1, <2>3, <3>1 DEF VisitSuccessor
    <2> QED BY <2>2, <2>3
  <1>4. Tallies'
    BY <1>1, <1>2, <1>3 DEF Tallies
  <1> QED BY <1>1, <1>2, <1>4 DEF NotCancelled, Verdicts, Told, HeldBack

LEMMA InvokeTallies ==
  ASSUME IInv, Tallies, NotCancelled, Verdicts, NEW t \in Threads, Invoke(t) \/ FunctionReturns(t)
  PROVE  Tallies' /\ NotCancelled' /\ Verdicts'
  <1> PICK p \in Tasks : p = task[t]
    BY DEF IInv, ThreadsTyped, TaskHeld, Invoke, FunctionReturns
  <1>1. /\ graph' = graph /\ remaining' = remaining /\ batch' = batch
        /\ submits' = submits /\ verdict' = verdict
    BY DEF Invoke, FunctionReturns, graphVars
  <1>2. Roots' = Roots /\ Cancellable' = Cancellable /\ Resettable' = Resettable
    BY <1>1 DEF Roots, TotalPredecessors, Positions, Successors, Spawns, Cancellable, Resettable
  <1>3. CASE Invoke(t)
    <2>1. /\ flags' = [flags EXCEPT ![p] = flags[p] \cup {"invoked"}]
          /\ "cancelled" \notin flags[p] => started' = [started EXCEPT ![p] = started[p] + 1]
          /\ "cancelled" \in flags[p] => started' = started
          /\ ended' = ended
      BY <1>3 DEF Invoke, IsCancelled
    <2>2. /\ flags' \in [Tasks -> SUBSET {"cancelled", "invoked"}]
          /\ started' \in [Tasks -> Nat] /\ ended' \in [Tasks -> Nat]
      BY <2>1 DEF Tallies
    <2>3. Tallies'
      BY <1>1, <1>2, <2>2 DEF Tallies
    <2>4. NotCancelled'
      BY <1>2, <2>1 DEF NotCancelled, Tallies
    <2>5. Verdicts'
      <3> SUFFICES ASSUME NEW k \in Tasks
                   PROVE  Told(k)' /\ (k \notin Resettable => HeldBack(k)')
        BY <1>2 DEF Verdicts
      <3>1. CASE k = p
        BY <1>1, <2>1, <3>1 DEF Tallies, Verdicts, Told, HeldBack
      <3>2. CASE k # p
        BY <1>1, <2>1, <3>2 DEF Tallies, Verdicts, Told, HeldBack
      <3> QED BY <3>1, <3>2
    <2> QED BY <2>3, <2>4, <2>5
  <1>4. CASE FunctionReturns(t)
    <2>1. flags' = flags /\ started' = started /\ ended' = [ended EXCEPT ![p] = ended[p] + 1]
      BY <1>4 DEF FunctionReturns, graphVars
    <2>2. ended' \in [Tasks -> Nat]
      BY <2>1 DEF Tallies
    <2>3. Tallies'
      BY <1>1, <1>2, <2>1, <2>2 DEF Tallies
    <2> QED BY <1>1, <1>2, <2>1, <2>3 DEF NotCancelled, Verdicts, Told, HeldBack
  <1> QED BY <1>3, <1>4

LEMMA ClientTallies ==
  ASSUME Tallies, NotCancelled, Verdicts,
         \/ \E r \in Roots : ClientSubmits(r)
         \/ \E k \in Cancellable : Cancel(k)
         \/ \E k \in Resettable : Reset(k)
  PROVE  Tallies' /\ NotCancelled' /\ Verdicts'
  <1>1. graph' = graph /\ remaining' = remaining /\ started' = started /\ ended' = ended
    BY DEF ClientSubmits, Cancel, Reset, graphVars
  <1>2. Roots' = Roots /\ Cancellable' = Cancellable /\ Resettable' = Resettable
    BY <1>1 DEF Roots, TotalPredecessors, Positions, Successors, Spawns, Cancellable, Resettable
  <1>3. CASE \E r \in Roots : ClientSubmits(r)
    <2> PICK r \in Roots : ClientSubmits(r)
      BY <1>3
    <2>1. /\ batch' = batch \cup {r} /\ submits' = [submits EXCEPT ![r] = submits[r] + 1]
          /\ flags' = flags /\ verdict' = verdict /\ submits[r] < graph.rounds /\ r \in Tasks
      BY DEF ClientSubmits, graphVars, Roots
    <2>2. graph.rounds \in Nat
      BY GraphsTyped DEF Tallies
    <2>3. submits' \in [Tasks -> 0 .. graph.rounds]
      <3>1. submits[r] + 1 \in 0 .. graph.rounds
        BY <2>1, <2>2 DEF Tallies
      <3> QED BY <2>1, <3>1 DEF Tallies
    <2>4. Tallies'
      BY <1>1, <1>2, <2>1, <2>3 DEF Tallies
    <2> QED BY <1>1, <1>2, <2>1, <2>4 DEF NotCancelled, Verdicts, Told, HeldBack
  <1>4. CASE \E k \in Cancellable : Cancel(k)
    <2> PICK c \in Cancellable : Cancel(c)
      BY <1>4
    <2>1. /\ batch' = batch /\ submits' = submits /\ c \in Tasks
          /\ flags' = [flags EXCEPT ![c] = flags[c] \cup {"cancelled"}]
          /\ verdict' = [verdict EXCEPT ![c] = verdict[c] \cup {IF "invoked" \in flags[c] THEN "late" ELSE "held"}]
      BY GraphsTyped DEF Cancel, Tallies
    <2>2. /\ flags' \in [Tasks -> SUBSET {"cancelled", "invoked"}]
          /\ verdict' \in [Tasks -> SUBSET {"held", "late"}]
      BY <2>1 DEF Tallies
    <2>3. Tallies'
      BY <1>1, <1>2, <2>1, <2>2 DEF Tallies
    <2>4. NotCancelled'
      BY <1>2 DEF NotCancelled
    <2>5. Verdicts'
      <3> SUFFICES ASSUME NEW k \in Tasks
                   PROVE  Told(k)' /\ (k \notin Resettable => HeldBack(k)')
        BY <1>2 DEF Verdicts
      <3>1. started[k] \in Nat
        BY DEF Tallies
      <3>2. CASE k = c
        BY <1>1, <2>1, <3>1, <3>2 DEF Tallies, Verdicts, Told, HeldBack
      <3>3. CASE k # c
        BY <1>1, <2>1, <3>3 DEF Tallies, Verdicts, Told, HeldBack
      <3> QED BY <3>2, <3>3
    <2> QED BY <2>3, <2>4, <2>5
  <1>5. CASE \E k \in Resettable : Reset(k)
    <2> PICK c \in Resettable : Reset(c)
      BY <1>5
    <2>1. /\ batch' = batch /\ submits' = submits /\ c \in Tasks
          /\ flags' = [flags EXCEPT ![c] = {}] /\ verdict' = [verdict EXCEPT ![c] = {}]
      BY GraphsTyped DEF Reset, Tallies
    <2>2. /\ flags' \in [Tasks -> SUBSET {"cancelled", "invoked"}]
          /\ verdict' \in [Tasks -> SUBSET {"held", "late"}]
      BY <2>1 DEF Tallies
    <2>3. Tallies'
      BY <1>1, <1>2, <2>1, <2>2 DEF Tallies
    <2>4. NotCancelled'
      BY <1>2, <2>1 DEF NotCancelled, Tallies
    <2>5. Verdicts'
      BY <1>1, <1>2, <2>1 DEF Tallies, Verdicts, Told, HeldBack
    <2> QED BY <2>3, <2>4, <2>5
  <1> QED BY <1>3, <1>4, <1>5

\* When the count is zero, the tasks are nowhere.
LEMMA ZeroNoneAnywhere ==
  ASSUME IInv, NextHeld, tasks_count = 0, pc[0] = "waiting"
  PROVE  NoneAnywhere
  <1>1. \A t \in Threads : queues[t] = <<>>
    BY NothingQueued
  <1>2. \A t \in Threads : ~ Busy(t) /\ pc[t] # "pushing"
    <2>1. Cardinality(BusyThreads) = 0 /\ Cardinality(PushingThreads) = 0
      BY NothingQueued DEF Jobs
    <2>2. BusyThreads = {} /\ PushingThreads = {}
      BY <2>1, CountsFinite, FS_EmptySet
    <2> QED BY <2>2 DEF BusyThreads, PushingThreads
  <1>3. ASSUME NEW t \in Threads
        PROVE  task[t] = None
    BY <1>2 DEF IInv, ThreadsTyped, TaskHeld, Busy, Points, ClientPoints, WorkerPoints
  <1>4. \A t \in Threads : next[t] = None
    BY <1>3 DEF NextHeld
  <1>5. \A t \in Threads : pc[t] \notin {"counting", "pushing"}
    BY <1>2, <1>3 DEF IInv, TaskHeld
  <1>6. ASSUME NEW t \in Threads, NEW i \in Spots
        PROVE  What(t, i) = None
    <2>1. DOMAIN queues[t] = {}
      BY <1>1
    <2> QED BY <1>3, <1>4, <1>5, <2>1 DEF What
  <1> QED BY <1>6 DEF NoneAnywhere

LEMMA RoundsKept ==
  ASSUME Rounds, graph' = graph, \A n \in Nat : RoundInv(n) => RoundInv(n)'
  PROVE  Rounds'
  <1>1. Steady' <=> Steady
    BY DEF Steady, Cancellable
  <1>2. \A n \in 0 .. graph.rounds : n \in Nat
    OBVIOUS
  <1> QED BY <1>1, <1>2 DEF Rounds

\* A step that moves tasks that wait at most, and leaves the history alone.
LEMMA MovedGraphInv ==
  ASSUME GraphInv, Moved, NextHeld', UNCHANGED <<graphVars, history>>
  PROVE  GraphInv'
  <1>1. /\ graph' = graph /\ remaining' = remaining /\ flags' = flags /\ batch' = batch
        /\ submits' = submits /\ started' = started /\ ended' = ended /\ verdict' = verdict
    BY DEF graphVars, history
  <1>2. Tallies' /\ NotCancelled' /\ Verdicts'
    BY <1>1, SameTallies DEF GraphInv
  <1>3. TodoLeft'
    BY <1>1, TodoKept DEF GraphInv, Moved
  <1>4. \A n \in Nat : RoundInv(n) => RoundInv(n)'
    BY <1>1, MovedRound
  <1>5. Rounds'
    BY <1>1, <1>4, RoundsKept DEF GraphInv
  <1> QED BY <1>2, <1>3, <1>5 DEF GraphInv

\* wait() finds the count at zero, or not.
LEMMA LoadCountGraph ==
  ASSUME IInv, GraphInv, LoadCount
  PROVE  GraphInv'
  <1>1. Moved /\ NextHeld' /\ Unmoved
    BY UnmovedSteps, UnmovedMoved DEF GraphInv
  <1>2. /\ graph' = graph /\ remaining' = remaining /\ flags' = flags
        /\ submits' = submits /\ started' = started /\ ended' = ended /\ verdict' = verdict
    BY DEF LoadCount, graphVars
  <1>3. batch' = batch \/ (batch' = {} /\ NoneAnywhere)
    <2>1. CASE tasks_count = 0
      <3>1. NextHeld /\ pc[0] = "waiting" /\ batch' = {}
        BY <2>1 DEF GraphInv, LoadCount
      <3> QED BY <2>1, <3>1, ZeroNoneAnywhere
    <2>2. CASE tasks_count # 0
      BY <2>2 DEF LoadCount
    <2> QED BY <2>1, <2>2
  <1>4. batch' \subseteq batch
    BY <1>3
  <1>5. Tallies' /\ NotCancelled' /\ Verdicts'
    BY <1>2, <1>4, SameTallies DEF GraphInv
  <1>6. TodoLeft'
    BY <1>1, <1>2, TodoKept DEF GraphInv, Moved
  <1>7. batch' = batch \/ (batch' = {} /\ \A t \in Threads, i \in Spots : What(t, i)' = None)
    BY <1>1, <1>3 DEF NoneAnywhere, Unmoved
  <1>8. \A n \in Nat : RoundInv(n) => RoundInv(n)'
    BY <1>1, <1>2, <1>7, MovedRound
  <1>9. Rounds'
    BY <1>2, <1>8, RoundsKept DEF GraphInv
  <1> QED BY <1>1, <1>5, <1>6, <1>9 DEF GraphInv

\* Cancel() and Reset() change flags only.
LEMMA FlagsGraph ==
  ASSUME IInv, GraphInv, (\E k \in Cancellable : Cancel(k)) \/ (\E k \in Resettable : Reset(k))
  PROVE  GraphInv'
  <1>1. Moved /\ NextHeld'
    <2>1. \E k \in Tasks : Cancel(k) \/ Reset(k)
      BY GraphsTyped DEF GraphInv, Tallies
    <2> QED BY <2>1, UnmovedSteps, UnmovedMoved DEF GraphInv
  <1>2. /\ graph' = graph /\ remaining' = remaining /\ batch' = batch
        /\ submits' = submits /\ started' = started /\ ended' = ended
    BY DEF Cancel, Reset
  <1>3. Tallies' /\ NotCancelled' /\ Verdicts'
    BY ClientTallies DEF GraphInv
  <1>4. TodoLeft'
    BY <1>1, <1>2, TodoKept DEF GraphInv, Moved
  <1>5. \A n \in Nat : RoundInv(n) => RoundInv(n)'
    BY <1>1, <1>2, MovedRound
  <1>6. Rounds'
    BY <1>2, <1>5, RoundsKept DEF GraphInv
  <1> QED BY <1>1, <1>3, <1>4, <1>6 DEF GraphInv

\* The steps of execute().
LEMMA ExecuteGraph ==
  ASSUME IInv, GraphInv, NEW t \in Threads,
         \/ Start(t) \/ Invoke(t) \/ FunctionSubmits(t) \/ FunctionReturns(t)
         \/ VisitSuccessor(t) \/ EndTask(t)
  PROVE  GraphInv'
  <1>1. /\ Tallies /\ NextHeld /\ TodoLeft /\ NotCancelled /\ Verdicts /\ Rounds
    BY DEF GraphInv
  <1>2. graph' = graph
    BY DEF Start, Invoke, FunctionSubmits, FunctionReturns, VisitSuccessor, EndTask, graphVars
  <1>3. Tallies' /\ NotCancelled' /\ Verdicts'
    <2>1. CASE Start(t) \/ VisitSuccessor(t)
      BY <1>1, <2>1, StartTallies
    <2>2. CASE Invoke(t) \/ FunctionReturns(t)
      BY <1>1, <2>2, InvokeTallies
    <2>3. CASE FunctionSubmits(t) \/ EndTask(t)
      <3>1. /\ remaining' = remaining /\ flags' = flags /\ batch' \subseteq batch
            /\ submits' = submits /\ started' = started /\ ended' = ended /\ verdict' = verdict
        BY <2>3 DEF FunctionSubmits, EndTask, graphVars, history
      <3> QED BY <1>1, <1>2, <3>1, SameTallies
    <2> QED BY <2>1, <2>2, <2>3
  <1>4. NextHeld' /\ TodoLeft' /\ \A n \in Nat : RoundInv(n) => RoundInv(n)'
    <2>1. CASE Start(t)
      <3>1. /\ Moved /\ NextHeld'
            /\ \A k \in Tasks : remaining'[k] = remaining[k]
                                \/ (Waiting(k) /\ remaining'[k] = TotalPredecessors[k])
        BY <1>1, <2>1, StartMoves
      <3>2. started' = started /\ ended' = ended /\ submits' = submits /\ batch' = batch
        BY <2>1 DEF Start, history
      <3>3. TodoLeft'
        BY <1>1, <1>2, <3>1, TodoKept DEF Moved
      <3>4. \A n \in Nat : RoundInv(n) => RoundInv(n)'
        BY <1>2, <3>1, <3>2, MovedRound
      <3> QED BY <3>1, <3>3, <3>4
    <2>2. CASE Invoke(t) /\ IsCancelled(t)
      <3>1. SameRunners /\ NextHeld' /\ \A n \in Nat : RoundInv(n) => RoundInv(n)'
        BY <1>1, <2>2, DroppedRound
      <3>2. TodoLeft'
        BY <1>1, <1>2, <3>1, TodoKept
      <3> QED BY <3>1, <3>2
    <2>3. CASE Invoke(t) /\ ~ IsCancelled(t)
      BY <1>1, <2>3, InvokeRound
    <2>4. CASE FunctionSubmits(t)
      BY <1>1, <2>4, FunctionSubmitsRound
    <2>5. CASE FunctionReturns(t)
      BY <1>1, <2>5, FunctionReturnsRound
    <2>6. CASE VisitSuccessor(t)
      BY <1>1, <2>6, VisitSuccessorRound
    <2>7. CASE EndTask(t)
      BY <1>1, <2>7, EndTaskRound
    <2> QED BY <2>1, <2>2, <2>3, <2>4, <2>5, <2>6, <2>7
  <1>5. Rounds'
    BY <1>1, <1>2, <1>4, RoundsKept
  <1> QED BY <1>3, <1>4, <1>5 DEF GraphInv

LEMMA ClientSubmitsGraph ==
  ASSUME IInv, GraphInv, NEW r \in Roots, ClientSubmits(r)
  PROVE  GraphInv'
  <1>1. Tallies /\ NextHeld /\ TodoLeft /\ NotCancelled /\ Verdicts /\ Rounds
    BY DEF GraphInv
  <1>2. Tallies' /\ NotCancelled' /\ Verdicts'
    BY <1>1, ClientTallies
  <1>3. /\ NextHeld' /\ TodoLeft'
        /\ Steady /\ (\E n \in 0 .. graph.rounds : RoundInv(n))
           => \E n \in 0 .. graph.rounds : RoundInv(n)'
    BY <1>1, ClientSubmitsRound
  <1>4. Rounds'
    <2>1. graph' = graph
      BY DEF ClientSubmits, graphVars
    <2>2. Steady' <=> Steady
      BY <2>1 DEF Steady, Cancellable
    <2> QED BY <1>1, <1>3, <2>1, <2>2 DEF Rounds
  <1> QED BY <1>2, <1>3, <1>4 DEF GraphInv

\* Every step of the pool keeps the invariant of the graph.
LEMMA NextGraphInv == IInv /\ GraphInv /\ [Next]_vars => GraphInv'
  <1> SUFFICES ASSUME IInv, GraphInv, [Next]_vars
               PROVE  GraphInv'
    OBVIOUS
  <1>1. NextHeld
    BY DEF GraphInv
  <1>2. ASSUME NEW t \in Threads, Step(t)
        PROVE  GraphInv'
    <2>1. CASE \/ CountTask(t) \/ NotifyOne(t) \/ Recheck(t) \/ LookAtFront(t) \/ Miss(t)
               \/ Finish(t) \/ Announce(t)
      <3>1. Moved /\ NextHeld'
        BY <1>1, <2>1, UnmovedSteps, UnmovedMoved
      <3>2. UNCHANGED <<graphVars, history>>
        BY <2>1 DEF CountTask, NotifyOne, Recheck, LookAtFront, Miss, Finish, Announce
      <3> QED BY <3>1, <3>2, MovedGraphInv
    <2>2. CASE PushTask(t) \/ PopOwn(t) \/ TakeFront(t)
      <3>1. Moved /\ NextHeld'
        BY <1>1, <2>2, PushTaskMoves, PopOwnMoves, TakeFrontMoves
      <3>2. UNCHANGED <<graphVars, history>>
        BY <2>2 DEF PushTask, PopOwn, TakeFront
      <3> QED BY <3>1, <3>2, MovedGraphInv
    <2>3. CASE \/ Start(t) \/ Invoke(t) \/ FunctionSubmits(t) \/ FunctionReturns(t)
               \/ VisitSuccessor(t) \/ EndTask(t)
      BY <2>3, ExecuteGraph
    <2> QED BY <1>2, <2>1, <2>2, <2>3 DEF Step, Submit, GetTask, Execute
  <1>3. CASE \/ \E t \in Threads \ {0} : Loop(t)
             \/ Block \/ SetStop \/ RaiseCount \/ Rouse \/ Join \/ Wait \/ WaitFor
             \/ UNCHANGED vars
    <2>1. Moved /\ NextHeld'
      BY <1>1, <1>3, UnmovedSteps, UnmovedMoved
    <2>2. UNCHANGED <<graphVars, history>>
      BY <1>3 DEF Loop, Block, SetStop, RaiseCount, Rouse, Join, Wait, WaitFor, vars
    <2> QED BY <2>1, <2>2, MovedGraphInv
  <1>4. CASE LoadCount
    BY <1>4, LoadCountGraph
  <1>5. CASE \E r \in Roots : ClientSubmits(r)
    BY <1>5, ClientSubmitsGraph
  <1>6. CASE (\E k \in Cancellable : Cancel(k)) \/ (\E k \in Resettable : Reset(k))
    BY <1>6, FlagsGraph
  <1> QED BY <1>2, <1>3, <1>4, <1>5, <1>6, ThreadsFinite
           DEF Next, Terminating, WorkerStep, ClientStep, WaitStep

\* Before the first round nothing has been submitted.
LEMMA InitGraphInv == Init => GraphInv
  <1> SUFFICES ASSUME Init
               PROVE  GraphInv
    OBVIOUS
  <1>1. /\ graph \in Graphs /\ graph.rounds \in Nat
        /\ remaining = TotalPredecessors
        /\ flags = [k \in Tasks |-> {}] /\ batch = {}
        /\ submits = [k \in Tasks |-> 0] /\ started = [k \in Tasks |-> 0]
        /\ ended = [k \in Tasks |-> 0] /\ verdict = [k \in Tasks |-> {}]
    BY GraphsTyped DEF Init
  <1>2. Tallies
    <2>1. remaining \in [Tasks -> Int]
      <3>1. \A k \in Tasks : TotalPredecessors[k] \in Int
        BY <1>1, TotalCounts
      <3>2. TotalPredecessors = [k \in Tasks |-> TotalPredecessors[k]]
        BY DEF TotalPredecessors
      <3> QED BY <1>1, <3>1, <3>2
    <2>2. 0 \in 0 .. graph.rounds
      BY <1>1
    <2> QED BY <1>1, <2>1, <2>2 DEF Tallies
  <1>3. ASSUME NEW t \in Threads
        PROVE  /\ queues[t] = <<>> /\ task[t] = None /\ next[t] = None
               /\ pc[t] \in {"idle", "loop"}
    BY DEF Init
  <1>4. NextHeld
    BY <1>3 DEF NextHeld
  <1>5. \A t \in Threads : Stage(t) = "off"
    BY <1>3 DEF Stage, Submitting
  <1>6. TodoLeft
    BY <1>5 DEF TodoLeft
  <1>7. NotCancelled /\ Verdicts
    BY <1>1 DEF NotCancelled, Verdicts, Told, HeldBack
  <1>8. NoneAnywhere
    <2> SUFFICES ASSUME NEW t \in Threads, NEW i \in Spots
                 PROVE  What(t, i) = None
      BY DEF NoneAnywhere
    <2>1. DOMAIN queues[t] = {}
      BY <1>3
    <2> QED BY <1>3, <2>1 DEF What
  <1>9. RoundInv(0)
    <2>1. \A k \in Tasks : /\ started[k] = 0 /\ ended[k] = 0 /\ submits[k] = 0
                           /\ remaining[k] = TotalPredecessors[k]
      BY <1>1
    <2>2. \A k \in Tasks : ~ Waiting(k)
      BY <1>8, ConstantsTyped DEF NoneAnywhere, Waiting
    <2>3. \A t \in Threads, k \in Tasks : \A g : ~ On(t, k, g)
      BY <1>3, ConstantsTyped DEF On
    <2>4. Unique /\ QuietWhenEmpty
      BY <1>8 DEF NoneAnywhere, Unique, QuietWhenEmpty
    <2>5. Counts(0) /\ Stages(0)
      BY <1>1, <2>1, <2>2, <2>3 DEF Counts, Stages
    <2>6. ASSUME NEW k \in Tasks
          PROVE  Open(0, k) = {} /\ Arrived(0, k)
      <3>1. \A e \in Positions(Successors, k) : EdgeDone(0, e[1], e[2])
        <4> SUFFICES ASSUME NEW e \in Positions(Successors, k)
                     PROVE  EdgeDone(0, e[1], e[2])
          OBVIOUS
        <4>1. e[1] \in Tasks
          BY PositionsAre
        <4> QED BY <2>1, <2>3, <4>1 DEF EdgeDone
      <3>2. \A e \in Positions(Spawns, k) : SpawnDone(0, e[1], e[2])
        <4> SUFFICES ASSUME NEW e \in Positions(Spawns, k)
                     PROVE  SpawnDone(0, e[1], e[2])
          OBVIOUS
        <4>1. e[1] \in Tasks
          BY PositionsAre
        <4> QED BY <2>1, <2>3, <4>1 DEF SpawnDone
      <3>3. Open(0, k) = {}
        BY <3>1 DEF Open
      <3> QED BY <2>1, <3>2, <3>3 DEF Arrived
    <2>7. Arrivals(0) /\ Remains(0)
      BY <2>1, <2>6 DEF Arrivals, Remains
    <2> QED BY <2>4, <2>5, <2>7 DEF RoundInv
  <1>10. Rounds
    <2>1. 0 \in 0 .. graph.rounds
      BY <1>1
    <2> QED BY <1>9, <2>1 DEF Rounds
  <1> QED BY <1>2, <1>4, <1>6, <1>7, <1>10 DEF GraphInv

-----------------------------------------------------------------------------
(* The whole graph                                                         *)

\* GraphInv is an invariant of the pool, whatever graph the client builds.
THEOREM GraphInvariance == Spec => []GraphInv
  <1>1. Init => GraphInv
    BY InitGraphInv
  <1>2. IInv /\ GraphInv /\ [Next]_vars => GraphInv'
    BY NextGraphInv
  <1> QED BY <1>1, <1>2, Invariance, PTL DEF Spec

\* The open predecessors of a task are some of its predecessors.
LEMMA GraphIsTyped == IInv /\ GraphInv => TypeOK
  <1> SUFFICES ASSUME IInv, GraphInv
               PROVE  TypeOK
    OBVIOUS
  <1>1. ASSUME Steady, NEW k \in Tasks
        PROVE  remaining[k] \in 0 .. TotalPredecessors[k]
    <2>1. graph \in Graphs
      BY DEF GraphInv, Tallies
    <2> PICK n \in Nat : RoundInv(n)
      <3>1. \E n \in 0 .. graph.rounds : RoundInv(n)
        BY <1>1 DEF GraphInv, Rounds
      <3>2. graph.rounds \in Nat
        BY <2>1, GraphsTyped
      <3> QED BY <3>1, <3>2
    <2> PICK all : all = Positions(Successors, k)
      OBVIOUS
    <2> PICK open : open = Open(n, k)
      OBVIOUS
    <2> PICK total \in Nat : total = TotalPredecessors[k]
      BY <2>1, TotalCounts
    <2>2. IsFiniteSet(all) /\ total = Cardinality(all)
      BY <2>1, TotalCounts
    <2>3. open \subseteq all
      BY DEF Open
    <2>4. IsFiniteSet(open) /\ Cardinality(open) <= Cardinality(all) /\ Cardinality(open) \in Nat
      BY <2>2, <2>3, FS_Subset, FS_CardinalityType
    <2>5. remaining[k] = Cardinality(open) \/ remaining[k] = total
      BY DEF RoundInv, Remains
    <2> QED BY <2>2, <2>4, <2>5
  <1>2. GraphTyped
    BY <1>1 DEF GraphInv, Tallies, GraphTyped
  <1> QED BY <1>2 DEF IInv, TypeOK

\* The whole state of the pool and of the graph keeps its types; in particular the
\* count of a task's predecessors never underflows, nor exceeds the number of
\* Succeed() and Precede() calls, as long as the graph is submitted once or none
\* of its tasks is cancelled (threadpool.cpp:329, 343).
THEOREM GraphTypeCorrect == Spec => []TypeOK
  BY GraphInvariance, Invariance, GraphIsTyped, PTL

LEMMA GraphInOrder == GraphInv => RunAfterPredecessors
  <1> SUFFICES ASSUME GraphInv, Steady, NEW k \in Tasks, NEW p \in Predecessors(k)
               PROVE  started[k] <= ended[p]
    BY DEF RunAfterPredecessors
  <1>1. graph \in Graphs
    BY DEF GraphInv, Tallies
  <1> PICK n \in Nat : RoundInv(n)
    <2>1. \E n \in 0 .. graph.rounds : RoundInv(n)
      BY DEF GraphInv, Rounds
    <2>2. graph.rounds \in Nat
      BY <1>1, GraphsTyped
    <2> QED BY <2>1, <2>2
  <1>2. p \in Tasks
    BY DEF Predecessors
  <1> PICK i \in DOMAIN Successors[p] : Successors[p][i] = k
    BY DEF Predecessors
  <1>3. started[k] \in {n - 1, n} /\ ended[p] \in {n - 1, n}
    BY <1>2 DEF RoundInv, Counts
  <1>4. CASE started[k] = n - 1
    BY <1>3, <1>4
  <1>5. CASE started[k] = n
    <2>1. Open(n, k) = {}
      BY <1>5 DEF RoundInv, Arrivals, Arrived
    <2>2. <<p, i>> \in Positions(Successors, k)
      BY <1>2, PositionsAre
    <2>3. EdgeDone(n, <<p, i>>[1], <<p, i>>[2]) /\ <<p, i>>[1] = p
      BY <2>1, <2>2 DEF Open
    <2>4. ended[p] = n
      BY <2>3 DEF EdgeDone
    <2> QED BY <1>5, <2>4
  <1> QED BY <1>3, <1>4, <1>5

\* A task starts at most as often as each of its predecessors has ended, whatever
\* thread counts them, makes it ready, steals it or goes on with it
\* (threadpool.cpp:343-351).
THEOREM GraphOrdered == Spec => []RunAfterPredecessors
  BY GraphInvariance, GraphInOrder, PTL

LEMMA GraphComplete == GraphInv => RoundsComplete
  <1> SUFFICES ASSUME GraphInv, Cancellable = {}, batch = {},
                      NEW m \in 0 .. graph.rounds, \A r \in Roots : submits[r] = m
               PROVE  \A k \in Tasks : ended[k] = m
    BY DEF RoundsComplete
  <1>1. Tallies /\ graph \in Graphs /\ graph.rounds \in Nat
    BY GraphsTyped DEF GraphInv, Tallies
  <1> PICK n \in Nat : RoundInv(n)
    <2>1. \E n \in 0 .. graph.rounds : RoundInv(n)
      BY DEF GraphInv, Rounds, Steady
    <2> QED BY <1>1, <2>1
  <1>2. NoneAnywhere
    BY DEF RoundInv, QuietWhenEmpty, NoneAnywhere
  <1>3. CASE Roots = {}
    <2>1. ASSUME Tasks # {}
          PROVE  FALSE
      <3>1. PICK k \in Tasks : \A e \in Positions(Successors, k) \cup Positions(Spawns, k) : e[1] \in Tasks \ Tasks
        BY <1>1, <2>1, FirstOf
      <3>2. Positions(Successors, k) = {} /\ Positions(Spawns, k) = {}
        BY <3>1
      <3>3. k \in Roots
        BY <1>1, <3>2, TotalCounts
      <3> QED BY <1>3, <3>3
    <2> QED BY <2>1
  <1>4. CASE Roots # {}
    <2> PICK r \in Roots : TRUE
      BY <1>4
    <2>1. m = n - 1 \/ m = n
      BY DEF RoundInv, Counts, Roots
    <2>2. CASE m = n
      BY <1>1, <1>2, <2>2, AllDone
    <2>3. CASE m = n - 1
      <3>1. \A q \in Roots : submits[q] # n
        BY <2>3
      <3> QED BY <1>1, <2>3, <3>1, NoneBegun
    <2> QED BY <2>1, <2>2, <2>3
  <1> QED BY <1>3, <1>4

\* After wait(), every task of a graph none of whose tasks can be cancelled has run
\* as often as the graph was submitted (threadpool.cpp:300, 329).
THEOREM GraphCompleted == Spec => []RoundsComplete
  BY GraphInvariance, GraphComplete, PTL

LEMMA GraphHolds == GraphInv => CancelledOnce
  <1>a. ASSUME GraphInv, NEW k \in Tasks, verdict[k] = {"late"}
        PROVE  started[k] > 0
    BY <1>a DEF GraphInv, Verdicts, Told
  <1> SUFFICES ASSUME GraphInv, graph.rounds <= 1, NEW k \in Tasks, k \notin Resettable,
                      "held" \in verdict[k]
               PROVE  NeverInvoked(k)
    BY <1>a DEF CancelledOnce
  <1>1. started[k] = 0 /\ Steady
    BY DEF GraphInv, Verdicts, HeldBack, Steady
  <1>2. started \in [Tasks -> Nat] /\ ended \in [Tasks -> Nat] /\ graph \in Graphs
    BY DEF GraphInv, Tallies
  <1>3. ended[k] <= started[k]
    <2>1. \E n \in 0 .. graph.rounds : RoundInv(n)
      BY <1>1 DEF GraphInv, Rounds
    <2> QED BY <2>1 DEF RoundInv, Counts
  <1>4. ASSUME NEW s \in Tasks, k \in Predecessors(s)
        PROVE  started[s] = 0
    <2>1. started[s] <= ended[k]
      BY <1>1, <1>4, GraphInOrder DEF RunAfterPredecessors
    <2> QED BY <1>1, <1>2, <1>3, <2>1
  <1> QED BY <1>1, <1>4 DEF NeverInvoked

\* Both answers of Cancel() are true: a task it called too late to cancel has been
\* invoked, and in a graph that is submitted once neither a task it cancelled in
\* time nor any of its successors is ever invoked (threadpool.cpp:145-151).
THEOREM CancelledHolds == Spec => []CancelledOnce
  BY GraphInvariance, GraphHolds, PTL

=============================================================================
