-------------------------- MODULE ThreadPoolProofs ---------------------------
(***************************************************************************)
(* The count of pstd::ThreadPool, for any number of workers, any graph of  *)
(* tasks and any tasks that tasks submit: it is exact at every moment, no  *)
(* notification is lost, and the pool implements JobPool.                  *)
(***************************************************************************)
EXTENDS ThreadPool, FiniteSetTheorems, SequenceTheorems, TLAPS

-----------------------------------------------------------------------------
(* The threads and their queues                                            *)

LEMMA ConstantsTyped == Workers \in Nat \ {0} /\ None \notin Tasks /\ MaxAttempts \in Nat
  BY ThreadPoolAssumption

\* What each graph has.
LEMMA GraphsTyped ==
  ASSUME graph \in Graphs
  PROVE  /\ Successors \in [Tasks -> Seq(Tasks)] /\ Spawns \in [Tasks -> Seq(Tasks)]
         /\ Cancellable \subseteq Tasks /\ Resettable \subseteq Tasks /\ graph.rounds \in Nat
  BY ThreadPoolAssumption DEF Successors, Spawns, Cancellable, Resettable

\* There are finitely many threads, and the client is one of them.
LEMMA ThreadsFinite ==
  /\ IsFiniteSet(Threads)
  /\ 0 \in Threads
  /\ Threads \subseteq Nat
  /\ \E t \in Threads \ {0} : TRUE
  /\ Workers \in Nat /\ QueuesCount = Workers + 1
  <1>1. Workers \in Nat \ {0}
    BY ConstantsTyped
  <1>2. IsFiniteSet(0 .. Workers)
    BY <1>1, FS_Interval
  <1>3. 1 \in Threads \ {0}
    BY <1>1 DEF Threads
  <1> QED BY <1>1, <1>2 DEF Threads, QueuesCount

\* The thief's victim is a thread.
LEMMA VictimIsThread ==
  ASSUME NEW t \in Threads, victim[t] \in 0 .. Workers
  PROVE  Victim(t) \in Threads
  <1>1. QueuesCount \in Nat \ {0} /\ t + victim[t] \in Nat
    BY ThreadsFinite
  <1>2. (t + victim[t]) % QueuesCount \in 0 .. QueuesCount - 1
    BY <1>1
  <1> QED BY ThreadsFinite DEF Victim, Threads

\* The places in the queues.
Places(q) == UNION {{t} \X DOMAIN q[t] : t \in Threads}

LEMMA PlacesFinite ==
  ASSUME NEW q \in [Threads -> Seq(Tasks)]
  PROVE  /\ IsFiniteSet(Places(q))
         /\ Cardinality(Places(q)) \in Nat
         /\ Cardinality(Places(q)) = 0 => \A t \in Threads : q[t] = <<>>
  <1>1. ASSUME NEW t \in Threads
        PROVE  IsFiniteSet({t} \X DOMAIN q[t])
    <2>1. IsFiniteSet({t})
      BY FS_Singleton
    <2>2. Len(q[t]) \in Int /\ 1 \in Int /\ DOMAIN q[t] = 1 .. Len(q[t])
      OBVIOUS
    <2>3. IsFiniteSet(DOMAIN q[t])
      BY FS_Interval
    <2> DEFINE one == {t}
               places == DOMAIN q[t]
    <2> HIDE DEF one, places
    <2>4. IsFiniteSet(one \X places)
      BY <2>1, <2>3, FS_Product DEF one, places
    <2> QED BY <2>4 DEF one, places
  <1>2. IsFiniteSet({{t} \X DOMAIN q[t] : t \in Threads})
    <2> DEFINE all == {{t} \X DOMAIN q[t] : t \in Threads}
               of == [t \in Threads |-> {t} \X DOMAIN q[t]]
    <2>1. of \in Surjection(Threads, all)
      BY DEF Surjection
    <2> HIDE DEF of, all
    <2>2. IsFiniteSet(all)
      BY <2>1, ThreadsFinite, FS_Surjection
    <2> QED BY <2>2 DEF all
  <1>3. \A S \in {{t} \X DOMAIN q[t] : t \in Threads} : IsFiniteSet(S)
    BY <1>1
  <1>4. IsFiniteSet(Places(q))
    BY <1>2, <1>3, FS_UNION DEF Places
  <1>5. Cardinality(Places(q)) \in Nat
    BY <1>4, FS_CardinalityType
  <1>6. ASSUME Cardinality(Places(q)) = 0, NEW t \in Threads
        PROVE  q[t] = <<>>
    <2>1. Places(q) = {}
      BY <1>4, <1>6, FS_EmptySet
    <2>2. ASSUME Len(q[t]) # 0
          PROVE  FALSE
      <3>1. q[t] \in Seq(Tasks)
        OBVIOUS
      <3>2. 1 \in DOMAIN q[t]
        BY <2>2
      <3>3. <<t, 1>> \in {t} \X DOMAIN q[t]
        BY <3>2
      <3>4. <<t, 1>> \in Places(q)
        BY <3>3 DEF Places
      <3> QED BY <2>1, <3>4
    <2> QED BY <2>2
  <1> QED BY <1>4, <1>5, <1>6

\* A queue that gets one task more, or one less.
LEMMA OneMore ==
  ASSUME NEW q \in [Threads -> Seq(Tasks)], NEW r \in [Threads -> Seq(Tasks)],
         NEW t \in Threads,
         Len(r[t]) = Len(q[t]) + 1,
         \A u \in Threads \ {t} : r[u] = q[u]
  PROVE  Cardinality(Places(r)) = Cardinality(Places(q)) + 1
  <1> DEFINE new == <<t, Len(q[t]) + 1>>
  <1>1. Places(r) = Places(q) \cup {new}
    <2>1. /\ q[t] \in Seq(Tasks) /\ r[t] \in Seq(Tasks) /\ Len(q[t]) \in Nat
          /\ DOMAIN q[t] = 1 .. Len(q[t]) /\ DOMAIN r[t] = 1 .. Len(q[t]) + 1
      OBVIOUS
    <2>2. ASSUME NEW u \in Threads
          PROVE  {u} \X DOMAIN r[u] =
                 ({u} \X DOMAIN q[u]) \cup (IF u = t THEN {new} ELSE {})
      OBVIOUS
    <2>3. Places(r) \subseteq Places(q) \cup {new}
      BY DEF Places
    <2>4. Places(q) \cup {new} \subseteq Places(r)
      BY DEF Places
    <2> QED BY <2>3, <2>4
  <1>2. new \notin Places(q)
    <2>1. q[t] \in Seq(Tasks) /\ Len(q[t]) \in Nat /\ DOMAIN q[t] = 1 .. Len(q[t])
      OBVIOUS
    <2>2. ASSUME NEW u \in Threads, new \in {u} \X DOMAIN q[u]
          PROVE  FALSE
      BY <2>2
    <2> QED BY DEF Places
  <1> QED BY ZenonT(60), <1>1, <1>2, PlacesFinite, FS_AddElement

\* What the owner takes and what it leaves.
LEMMA WithoutTheLast ==
  ASSUME NEW s \in Seq(Tasks), s # <<>>
  PROVE  /\ Last(s) \in Tasks
         /\ Front(s) \in Seq(Tasks)
         /\ Len(s) = Len(Front(s)) + 1
         /\ Front(s) = <<>> => Len(s) = 1
  <1>1. Len(s) \in Nat \ {0}
    OBVIOUS
  <1>2. Last(s) \in Tasks
    BY DEF Last
  <1>3. Front(s) \in Seq(Tasks)
    BY DEF Front
  <1>4. Len(Front(s)) = Len(s) - 1
    <2>1. \A i \in 1 .. Len(s) - 1 : s[i] \in Tasks
      OBVIOUS
    <2>2. 1 \in Int /\ Len(s) - 1 \in Int
      OBVIOUS
    <2>3. Len(SubSeq(s, 1, Len(s) - 1))
          = IF 1 <= Len(s) - 1 THEN (Len(s) - 1) - 1 + 1 ELSE 0
      OBVIOUS
    <2> DEFINE n == Len(s)
               l == Len(SubSeq(s, 1, Len(s) - 1))
    <2>4. l = n - 1
      <3>1. n \in Nat \ {0} /\ l = IF 1 <= n - 1 THEN (n - 1) - 1 + 1 ELSE 0
        OBVIOUS
      <3> HIDE DEF n, l
      <3> QED BY <3>1
    <2> QED BY <2>4 DEF Front
  <1>5. Front(s) = <<>> => Len(s) = 1
    BY <1>4
  <1> QED BY <1>2, <1>3, <1>4

LEMMA QueuedCounts == Queued = Cardinality(Places(queues))
  BY DEF Queued, Places

-----------------------------------------------------------------------------
(* Counting threads                                                        *)

BusyThreads == {t \in Threads : Busy(t)}
PushingThreads == {t \in Threads : pc[t] = "pushing"}

LEMMA CountsFinite ==
  /\ IsFiniteSet(BusyThreads) /\ Cardinality(BusyThreads) \in Nat
  /\ IsFiniteSet(PushingThreads) /\ Cardinality(PushingThreads) \in Nat
  /\ IsFiniteSet(BusyThreads') /\ Cardinality(BusyThreads') \in Nat
  /\ IsFiniteSet(PushingThreads') /\ Cardinality(PushingThreads') \in Nat
  <1>1. /\ BusyThreads \subseteq Threads /\ PushingThreads \subseteq Threads
        /\ BusyThreads' \subseteq Threads /\ PushingThreads' \subseteq Threads
    BY DEF BusyThreads, PushingThreads
  <1> QED BY <1>1, ThreadsFinite, FS_Subset, FS_CardinalityType

\* What JobPool sees of the pool.
Jobs == <<Cardinality(PushingThreads), Cardinality(Places(queues)), Cardinality(BusyThreads)>>

PoolStep == [Pool!PoolNext]_(Pool!poolVars)

Waits == pc[0] \in {"waiting", "blocking", "asleep", "woken"}
Raised == pc[0] \in {"rousing", "joining", "joined"}

\* A step that moves no job, neither counts one nor raises the count.
Quiet ==
  /\ queues' = queues
  /\ tasks_count' = tasks_count
  /\ \A t \in Threads : Busy(t)' <=> Busy(t)
  /\ \A t \in Threads : pc'[t] = "pushing" <=> pc[t] = "pushing"
  /\ Raised' <=> Raised

LEMMA QuietCounts ==
  ASSUME IInv, Quiet
  PROVE  CountExact' /\ Jobs' = Jobs
  <1>1. BusyThreads' = BusyThreads
    BY DEF Quiet, BusyThreads
  <1>2. PushingThreads' = PushingThreads
    BY DEF Quiet, PushingThreads
  <1>3. Queued' = Queued
    BY DEF Quiet, Queued
  <1>4. CountExact
    BY DEF IInv
  <1>5. CountExact'
    BY <1>3, <1>4 DEF CountExact, Quiet, Raised
  <1> QED BY <1>1, <1>2, <1>5 DEF Jobs, Quiet

\* What a thief saw is there as long as it aims at it and the queues are left alone.
LEMMA AimKept ==
  ASSUME AimTrue, queues' = queues, NEW t \in Threads, aim[t] => pc'[t] = "taking",
         aim'[t] => aim[t] /\ victim'[t] = victim[t]
  PROVE  aim'[t] => pc'[t] = "taking" /\ queues'[Victim(t)'] # <<>>
  BY Zenon DEF AimTrue, Victim

\* JobPool does not see it, but for a call of wait().
LEMMA QuietPool ==
  ASSUME IInv, Quiet, Waits' <=> Waits
  PROVE  PoolStep
  <1>1. Jobs' = Jobs
    BY QuietCounts
  <1>2. Pool!poolVars' = Pool!poolVars
    BY <1>1 DEF Queued, Places, Jobs, Pool!poolVars, Waits, BusyThreads, PushingThreads
  <1> QED BY <1>2 DEF PoolStep

\* Nothing is in a queue, and nobody is busy or pushing, while the count is zero.
LEMMA NothingQueued ==
  ASSUME IInv, tasks_count = 0
  PROVE  /\ \A t \in Threads : queues[t] = <<>>
         /\ Jobs = <<0, 0, 0>>
         /\ ~ Raised
  <1>1. queues \in [Threads -> Seq(Tasks)]
    BY DEF IInv, ThreadsTyped
  <1> DEFINE q == Cardinality(Places(queues))
             b == Cardinality(BusyThreads)
             p == Cardinality(PushingThreads)
             extra == IF Raised THEN QueuesCount ELSE 0
  <1>2. 0 = q + b + p + extra
    BY QueuedCounts DEF IInv, CountExact, BusyThreads, PushingThreads, Raised
  <1>3. q \in Nat /\ b \in Nat /\ p \in Nat /\ QueuesCount \in Nat \ {0}
    BY <1>1, PlacesFinite, CountsFinite, ThreadsFinite
  <1>4. extra \in Nat
    BY <1>3
  <1>5. q = 0 /\ b = 0 /\ p = 0 /\ extra = 0
    <2> HIDE DEF q, b, p, extra
    <2> QED BY <1>2, <1>3, <1>4
  <1>6. ~ Raised
    BY <1>3, <1>5
  <1> QED BY <1>1, <1>5, <1>6, PlacesFinite DEF Jobs

\* A call of wait(), which JobPool allows at any moment, and its return.
LEMMA CallOfWait ==
  ASSUME IInv, Quiet, Waits', ~ Waits
  PROVE  PoolStep
  <1>1. Jobs' = Jobs
    BY QuietCounts
  <1>2. Pool!Wait
    BY <1>1 DEF Queued, Places, Jobs, Pool!Wait, Waits, BusyThreads, PushingThreads
  <1> QED BY <1>2 DEF PoolStep, Pool!PoolNext

LEMMA ReturnOfWait ==
  ASSUME IInv, Quiet, Waits, ~ Waits', tasks_count = 0
  PROVE  PoolStep
  <1>1. Jobs' = Jobs /\ Jobs = <<0, 0, 0>>
    BY QuietCounts, NothingQueued
  <1>2. Pool!Return
    BY <1>1 DEF Queued, Places, Jobs, Pool!Return, Waits, BusyThreads, PushingThreads
  <1> QED BY <1>2 DEF PoolStep, Pool!PoolNext

\* What a step that moves one job does to the counts.
LEMMA Recount ==
  ASSUME IInv, NEW dq \in Int, NEW db \in Int, NEW dp \in Int,
         queues' \in [Threads -> Seq(Tasks)],
         Cardinality(Places(queues')) = Cardinality(Places(queues)) + dq,
         Cardinality(BusyThreads') = Cardinality(BusyThreads) + db,
         Cardinality(PushingThreads') = Cardinality(PushingThreads) + dp,
         tasks_count' = tasks_count + dq + db + dp,
         Raised' <=> Raised
  PROVE  CountExact'
  <1> DEFINE q == Cardinality(Places(queues))
             b == Cardinality(BusyThreads)
             p == Cardinality(PushingThreads)
             extra == IF Raised THEN QueuesCount ELSE 0
  <1>1. tasks_count = q + b + p + extra
    BY QueuedCounts DEF IInv, CountExact, BusyThreads, PushingThreads, Raised
  <1>2. q \in Nat /\ b \in Nat /\ p \in Nat /\ QueuesCount \in Nat
    <2>1. queues \in [Threads -> Seq(Tasks)]
      BY DEF IInv, ThreadsTyped
    <2> QED BY <2>1, PlacesFinite, CountsFinite, ThreadsFinite
  <1>3. extra \in Nat
    BY <1>2
  <1>4. extra' = extra
    OBVIOUS
  <1>5. q' = q + dq /\ b' = b + db /\ p' = p + dp
    OBVIOUS
  <1>6. tasks_count' = q' + b' + p' + extra'
    <2> HIDE DEF q, b, p, extra
    <2> QED BY <1>1, <1>2, <1>3, <1>4, <1>5
  <1>7. Queued' = Cardinality(Places(queues)')
    BY DEF Queued, Places
  <1> QED BY <1>6, <1>7 DEF CountExact, BusyThreads, PushingThreads, Raised

\* A thread takes a task from queue w.
LEMMA Taken ==
  ASSUME IInv, NEW t \in Threads, NEW w \in Threads,
         pc[t] \in {"popping", "taking"}, pc' = [pc EXCEPT ![t] = "starting"],
         queues' \in [Threads -> Seq(Tasks)],
         Len(queues[w]) = Len(queues'[w]) + 1,
         \A u \in Threads \ {w} : queues'[u] = queues[u],
         \A u \in Threads \ {t} : task'[u] = task[u],
         tasks_count' = tasks_count
  PROVE  CountExact' /\ PoolStep
  <1>1. Cardinality(Places(queues)) = Cardinality(Places(queues')) + 1
    BY OneMore DEF IInv, ThreadsTyped
  <1>2. BusyThreads' = BusyThreads \cup {t} /\ t \notin BusyThreads
    BY DEF IInv, ThreadsTyped, BusyThreads, Busy
  <1>3. Cardinality(BusyThreads') = Cardinality(BusyThreads) + 1
    BY <1>2, CountsFinite, FS_AddElement
  <1>4. PushingThreads' = PushingThreads
    BY DEF PushingThreads
  <1>5. /\ Cardinality(Places(queues)) \in Nat /\ Cardinality(Places(queues')) \in Nat
        /\ Cardinality(BusyThreads) \in Nat
        /\ Cardinality(PushingThreads) \in Nat
    BY PlacesFinite, CountsFinite DEF IInv, ThreadsTyped
  <1>6. Cardinality(Places(queues')) = Cardinality(Places(queues)) + (-1)
    BY <1>1, <1>5
  <1>7. (Raised' <=> Raised) /\ (Waits' <=> Waits)
    BY DEF Raised, Waits
  <1>8. CountExact'
    <2>1. tasks_count' = tasks_count + (-1) + 1 + 0
      BY DEF IInv, ThreadsTyped
    <2>2. Cardinality(PushingThreads') = Cardinality(PushingThreads) + 0
      BY <1>4, <1>5
    <2> QED BY <2>1, <2>2, <1>3, <1>6, <1>7, Recount
  <1>9. Pool!Take
    <2>1. Queued = Cardinality(Places(queues)) /\ Queued' = Cardinality(Places(queues'))
      BY DEF Queued, Places
    <2>2. Queued > 0 /\ Queued' = Queued - 1
      <3> DEFINE q == Cardinality(Places(queues))
                 r == Cardinality(Places(queues'))
      <3>1. Queued = q /\ Queued' = r /\ q \in Nat /\ r \in Nat /\ q = r + 1
        BY <1>1, <1>5, <2>1
      <3> HIDE DEF q, r
      <3> QED BY <3>1
    <2>3. (pc[0] \in {"waiting", "blocking", "asleep", "woken"})'
          = (pc[0] \in {"waiting", "blocking", "asleep", "woken"})
      OBVIOUS
    <2> QED BY <1>3, <1>4, <2>2, <2>3 DEF Pool!Take, BusyThreads, PushingThreads
  <1> QED BY <1>8, <1>9 DEF PoolStep, Pool!PoolNext

-----------------------------------------------------------------------------
(* submit()                                                                *)

\* The work is counted before it can be seen.
LEMMA CountTaskInv ==
  ASSUME IInv, NEW t \in Threads, CountTask(t)
  PROVE  IInv' /\ PoolStep
  <1>1. /\ pc[t] = "counting" /\ pc' = [pc EXCEPT ![t] = "pushing"]
        /\ tasks_count' = tasks_count + 1
        /\ UNCHANGED <<queues, aim, victim, attempts, task, next, todo, sub, expected, closing, stop>>
    BY DEF CountTask, SubmitOrder, Goto, queueVars, execVars
  <1>2. ThreadsTyped'
    <2>1. tasks_count + 1 \in Nat
      BY DEF IInv, ThreadsTyped
    <2>2. /\ pc' \in [Threads -> Points \cup ClientPoints \cup WorkerPoints]
          /\ pc'[0] \notin WorkerPoints
          /\ \A u \in Threads \ {0} : pc'[u] \notin ClientPoints
      BY <1>1 DEF IInv, ThreadsTyped, Points, ClientPoints, WorkerPoints
    <2> QED BY <1>1, <2>2 DEF IInv, ThreadsTyped
  <1>3. TaskHeld'
    BY <1>1 DEF IInv, TaskHeld, ClientPoints, WorkerPoints
  <1>4. AimTrue'
    BY <1>1 DEF IInv, AimTrue, Victim
  <1>5. /\ BusyThreads' = BusyThreads
        /\ PushingThreads' = PushingThreads \cup {t} /\ t \notin PushingThreads
    BY <1>1 DEF IInv, ThreadsTyped, BusyThreads, Busy, PushingThreads
  <1>6. Cardinality(PushingThreads') = Cardinality(PushingThreads) + 1
    BY <1>5, CountsFinite, FS_AddElement
  <1>7. (Raised' <=> Raised) /\ (Waits' <=> Waits)
    BY <1>1 DEF Raised, Waits
  <1>8. CountExact'
    <2>1. queues' \in [Threads -> Seq(Tasks)] /\ tasks_count' = tasks_count + 0 + 0 + 1
      BY <1>1 DEF IInv, ThreadsTyped
    <2>2. /\ Cardinality(Places(queues')) = Cardinality(Places(queues)) + 0
          /\ Cardinality(BusyThreads') = Cardinality(BusyThreads) + 0
      <3>1. queues \in [Threads -> Seq(Tasks)] /\ queues' = queues
        BY <1>1 DEF IInv, ThreadsTyped
      <3>2. Cardinality(Places(queues)) \in Nat
        BY <3>1, PlacesFinite
      <3> QED BY <1>5, <3>1, <3>2, CountsFinite
    <2> QED BY <2>1, <2>2, <1>6, <1>7, Recount
  <1>9. NoLostWakeup'
    BY <1>1 DEF IInv, NoLostWakeup
  <1>10. PoolStep
    <2>1. Cardinality(BusyThreads) > 0 \/ ~ Waits
      <3>1. CASE t = 0
        BY <1>1, <3>1 DEF Waits
      <3>2. CASE t # 0
        <4>1. t \in BusyThreads
          BY <1>1, <3>2 DEF IInv, TaskHeld, BusyThreads, Busy
        <4>2. Cardinality(BusyThreads) # 0
          BY <4>1, CountsFinite, FS_EmptySet
        <4> QED BY <4>2, CountsFinite
      <3> QED BY <3>1, <3>2
    <2>2. Queued' = Queued
      BY <1>1 DEF Queued
    <2>3. Waits' = Waits
      BY <1>7 DEF Waits
    <2>4. Pool!Promise
      BY <1>5, <1>6, <2>1, <2>2, <2>3 DEF Pool!Promise, BusyThreads, PushingThreads, Waits
    <2> QED BY <2>4 DEF PoolStep, Pool!PoolNext
  <1> QED BY <1>2, <1>3, <1>4, <1>8, <1>9, <1>10 DEF IInv

\* The task is pushed, and somebody will be notified.
LEMMA PushTaskInv ==
  ASSUME IInv, NEW t \in Threads, PushTask(t)
  PROVE  IInv' /\ PoolStep
  <1>1. /\ pc[t] = "pushing" /\ pc' = [pc EXCEPT ![t] = "notifying"]
        /\ queues' = [queues EXCEPT ![t] = Append(queues[t], sub[t])]
        /\ UNCHANGED <<tasks_count, aim, victim, attempts, task, next, todo, sub, expected, closing, stop>>
    BY DEF PushTask, SubmitOrder, Goto, execVars, countVars
  <1>2. /\ queues \in [Threads -> Seq(Tasks)] /\ queues[t] \in Seq(Tasks) /\ sub[t] \in Tasks
        /\ Append(queues[t], sub[t]) \in Seq(Tasks)
        /\ Len(Append(queues[t], sub[t])) = Len(queues[t]) + 1
        /\ Append(queues[t], sub[t]) # <<>>
    <2>1. queues[t] \in Seq(Tasks) /\ sub[t] \in Tasks
      BY <1>1 DEF IInv, ThreadsTyped, TaskHeld
    <2>2. queues \in [Threads -> Seq(Tasks)]
      BY DEF IInv, ThreadsTyped
    <2>3. /\ Append(queues[t], sub[t]) \in Seq(Tasks)
          /\ Len(Append(queues[t], sub[t])) = Len(queues[t]) + 1
          /\ Len(queues[t]) \in Nat
      BY <2>1
    <2>4. ASSUME Append(queues[t], sub[t]) = <<>>
          PROVE  FALSE
      BY <2>3, <2>4
    <2> QED BY <2>2, <2>3
  <1> DEFINE grown == Append(queues[t], sub[t])
  <1> HIDE DEF grown
  <1>3. /\ queues' \in [Threads -> Seq(Tasks)] /\ Len(queues'[t]) = Len(queues[t]) + 1
        /\ queues'[t] # <<>>
        /\ \A u \in Threads \ {t} : queues'[u] = queues[u]
    BY <1>1, <1>2
  <1>4. ThreadsTyped'
    BY <1>1, <1>3 DEF IInv, ThreadsTyped, Points, ClientPoints, WorkerPoints
  <1>5. TaskHeld'
    BY <1>1 DEF IInv, TaskHeld, ClientPoints, WorkerPoints
  <1>6. AimTrue'
    BY <1>1, <1>2, <1>3, VictimIsThread DEF IInv, AimTrue, Victim, ThreadsTyped
  <1>7. /\ BusyThreads' = BusyThreads
        /\ PushingThreads' = PushingThreads \ {t} /\ t \in PushingThreads
    BY <1>1 DEF IInv, ThreadsTyped, BusyThreads, Busy, PushingThreads
  <1>8. Cardinality(PushingThreads') = Cardinality(PushingThreads) - 1
    BY <1>7, CountsFinite, FS_RemoveElement
  <1>9. Cardinality(Places(queues')) = Cardinality(Places(queues)) + 1
    BY <1>2, <1>3, OneMore
  <1>10. (Raised' <=> Raised) /\ (Waits' <=> Waits)
    BY <1>1 DEF Raised, Waits
  <1>11. CountExact'
    <2>1. tasks_count' = tasks_count + 1 + 0 + (-1)
      BY <1>1 DEF IInv, ThreadsTyped
    <2>2. /\ Cardinality(PushingThreads') = Cardinality(PushingThreads) + (-1)
          /\ Cardinality(BusyThreads') = Cardinality(BusyThreads) + 0
      BY <1>7, <1>8, CountsFinite
    <2> QED BY <2>1, <2>2, <1>3, <1>9, <1>10, Recount
  <1>12. NoLostWakeup'
    BY <1>1 DEF IInv, ThreadsTyped, NoLostWakeup
  <1>13. PoolStep
    <2>1. Queued' = Queued + 1
      <3>1. Queued = Cardinality(Places(queues)) /\ Queued' = Cardinality(Places(queues'))
        BY DEF Queued, Places
      <3> QED BY <3>1, <1>9
    <2>2. Cardinality(PushingThreads) > 0
      <3>1. Cardinality(PushingThreads) # 0
        BY <1>7, CountsFinite, FS_EmptySet
      <3> QED BY <3>1, CountsFinite
    <2>3. Waits' = Waits
      BY <1>10 DEF Waits
    <2>4. Pool!Push
      BY <1>7, <1>8, <2>1, <2>2, <2>3 DEF Pool!Push, BusyThreads, PushingThreads, Waits
    <2> QED BY <2>4 DEF PoolStep, Pool!PoolNext
  <1> QED BY <1>4, <1>5, <1>6, <1>11, <1>12, <1>13 DEF IInv

\* The submitter wakes one thread: itself is awake, and so somebody is.
LEMMA NotifyOneInv ==
  ASSUME IInv, NEW t \in Threads, NotifyOne(t)
  PROVE  IInv' /\ PoolStep
  <1>1. /\ pc[t] = "notifying"
        /\ \E p \in {"idle", "running", "releasing"} :
              /\ p = "idle" <=> task[t] = None
              /\ \/ /\ \A v \in Threads : pc[v] # "asleep"
                    /\ pc' = [pc EXCEPT ![t] = p]
                 \/ \E v \in Threads :
                       /\ pc[v] = "asleep" /\ v # t
                       /\ pc' = [pc EXCEPT ![t] = p, ![v] = "woken"]
        /\ sub' = [sub EXCEPT ![t] = None]
        /\ attempts' = attempts /\ queues' = queues /\ aim' = aim /\ victim' = victim
        /\ tasks_count' = tasks_count /\ expected' = expected /\ closing' = closing /\ stop' = stop
        /\ task' = task /\ next' = next /\ todo' = todo
    BY DEF NotifyOne, Caller, Asleep, Goto, queueVars, countVars
  <1>2. /\ pc[t] = "notifying" /\ (pc'[t] = "idle" <=> task[t] = None)
        /\ pc'[t] \in {"idle", "running", "releasing"}
        /\ task'[t] = task[t] /\ sub'[t] = None /\ (t # 0 => task[t] # None)
    BY <1>1 DEF IInv, ThreadsTyped, TaskHeld
  <1>3. /\ \A u \in Threads \ {t} : pc'[u] = pc[u] \/ (pc[u] = "asleep" /\ pc'[u] = "woken")
        /\ \A u \in Threads \ {t} : task'[u] = task[u] /\ sub'[u] = sub[u]
    BY <1>1 DEF IInv, ThreadsTyped
  <1>4. ThreadsTyped'
    <2>1. pc' \in [Threads -> Points \cup ClientPoints \cup WorkerPoints]
      BY ZenonT(60), <1>1 DEF IInv, ThreadsTyped, Points, ClientPoints, WorkerPoints
    <2>2. pc'[0] \notin WorkerPoints
      BY <1>2, <1>3, ThreadsFinite DEF IInv, ThreadsTyped, WorkerPoints
    <2>3. \A u \in Threads \ {0} : pc'[u] \notin ClientPoints
      BY <1>2, <1>3 DEF IInv, ThreadsTyped, ClientPoints
    <2> QED BY <1>1, <2>1, <2>2, <2>3 DEF IInv, ThreadsTyped
  <1>5. TaskHeld'
    <2> SUFFICES ASSUME NEW u \in Threads
                 PROVE  /\ pc'[u] \in {"starting", "invoking", "running", "visiting", "releasing"} => task'[u] # None
                        /\ pc'[u] \in {"counting", "pushing", "notifying"}
                           => sub'[u] # None /\ (u # 0 => task'[u] # None)
                        /\ pc'[u] \in {"finishing", "announcing"} \cup ClientPoints \cup WorkerPoints
                                   \cup {"asleep", "woken", "popping", "stealing", "taking", "missed"}
                           => task'[u] = None
      BY DEF TaskHeld
    <2>1. CASE u = t
      BY <1>2, <2>1 DEF ClientPoints, WorkerPoints
    <2>2. CASE u # t
      BY <1>3, <2>2 DEF IInv, TaskHeld
    <2> QED BY <2>1, <2>2
  <1>6. AimTrue'
    BY <1>1 DEF IInv, AimTrue, Victim, ThreadsTyped
  <1>7. Quiet
    <2>1. Busy(t)' <=> Busy(t)
      BY <1>2 DEF Busy
    <2>2. \A u \in Threads \ {t} : Busy(u)' <=> Busy(u)
      BY <1>3 DEF Busy
    <2>3. \A u \in Threads : pc'[u] = "pushing" <=> pc[u] = "pushing"
      BY <1>2, <1>3
    <2>4. Raised' <=> Raised
      BY <1>2, <1>3, ThreadsFinite DEF Raised
    <2> QED BY <1>1, <2>1, <2>2, <2>3, <2>4 DEF Quiet
  <1>8. CountExact'
    BY <1>7, QuietCounts
  <1>9. NoLostWakeup'
    <2>1. CASE t # 0
      BY <1>2, <2>1 DEF NoLostWakeup
    <2>2. CASE t = 0
      <3>1. PICK v \in Threads \ {0} : pc'[v] # "asleep"
        <4>1. \A u \in Threads \ {0} : pc[u] # "asleep" => pc'[u] # "asleep"
          BY <1>3, <2>2
        <4>2. CASE \E u \in Threads : pc[u] = "asleep" /\ u # t /\ pc'[u] = "woken"
          BY <4>2, <2>2
        <4>3. CASE \A u \in Threads : pc[u] # "asleep"
          BY <4>1, <4>3, ThreadsFinite
        <4> QED BY <1>1, <4>3 DEF IInv, ThreadsTyped
      <3> QED BY <3>1 DEF NoLostWakeup
    <2> QED BY <2>1, <2>2
  <1>10. PoolStep
    <2>1. Waits' <=> Waits
      BY <1>2, <1>3, ThreadsFinite DEF Waits
    <2> QED BY <2>1, <1>7, QuietPool
  <1> QED BY <1>4, <1>5, <1>6, <1>8, <1>9, <1>10 DEF IInv

-----------------------------------------------------------------------------
(* run() and getTask()                                                     *)

\* A worker goes to sleep only while the count is zero.
LEMMA LoopInv ==
  ASSUME IInv, NEW t \in Threads \ {0}, Loop(t)
  PROVE  IInv' /\ PoolStep
  <1>1. ThreadsTyped'
    <2>1. attempts' \in [Threads -> 0 .. MaxAttempts + 1]
      <3>1. attempts[t] \in 0 .. MaxAttempts + 1 /\ MaxAttempts \in Nat
        BY ConstantsTyped DEF IInv, ThreadsTyped
      <3>2. (IF attempts[t] > MaxAttempts THEN attempts[t] ELSE attempts[t] + 1) \in 0 .. MaxAttempts + 1
        BY <3>1
      <3> QED BY <3>2 DEF IInv, ThreadsTyped, Loop
    <2>2. /\ pc' \in [Threads -> Points \cup ClientPoints \cup WorkerPoints]
          /\ pc'[0] \notin WorkerPoints
          /\ \A u \in Threads \ {0} : pc'[u] \notin ClientPoints
      BY DEF IInv, ThreadsTyped, Points, ClientPoints, Loop, Goto
    <2> QED BY <2>1, <2>2 DEF IInv, ThreadsTyped, Loop, queueVars, execVars, countVars
  <1>2. TaskHeld'
    BY DEF IInv, TaskHeld, WorkerPoints, Loop, Goto, execVars
  <1>3. AimTrue'
    BY DEF IInv, AimTrue, Victim, Loop, Goto, queueVars
  <1>4. Quiet
    BY DEF Quiet, Busy, Raised, Loop, Goto, queueVars, execVars, countVars
  <1>5. CountExact'
    BY <1>4, QuietCounts
  <1>6. NoLostWakeup'
    <2>1. tasks_count = 0 => \A u \in Threads : queues[u] = <<>>
      BY NothingQueued
    <2> QED BY <2>1, <1>4 DEF Quiet, NoLostWakeup, Loop, Sleeps, Goto
  <1>7. PoolStep
    <2>1. Waits' <=> Waits
      BY DEF Waits, Loop, Goto
    <2> QED BY <2>1, <1>4, QuietPool
  <1> QED BY <1>1, <1>2, <1>3, <1>5, <1>6, <1>7 DEF IInv

\* A thread looks at the count again and sleeps only over an empty pool.
LEMMA RecheckInv ==
  ASSUME IInv, NEW t \in Threads, Recheck(t)
  PROVE  IInv' /\ PoolStep
  <1>1. ThreadsTyped'
    BY DEF IInv, ThreadsTyped, Points, ClientPoints, WorkerPoints, Recheck, Goto, queueVars,
           execVars, countVars
  <1>2. TaskHeld'
    BY DEF IInv, TaskHeld, ThreadsTyped, Recheck, Goto, execVars
  <1>3. AimTrue'
    BY DEF IInv, AimTrue, Victim, ThreadsTyped, Recheck, Goto, queueVars
  <1>4. Quiet
    BY DEF Quiet, Busy, Raised, Recheck, Goto, queueVars, execVars, countVars
  <1>5. CountExact'
    BY <1>4, QuietCounts
  <1>6. NoLostWakeup'
    <2>1. tasks_count = 0 => \A u \in Threads : queues[u] = <<>>
      BY NothingQueued
    <2> QED BY <2>1, <1>4 DEF Quiet, IInv, NoLostWakeup, ThreadsTyped, Recheck, Goto
  <1>7. PoolStep
    <2>1. Waits' <=> Waits
      BY DEF Waits, Recheck, Goto
    <2> QED BY <2>1, <1>4, QuietPool
  <1> QED BY <1>1, <1>2, <1>3, <1>5, <1>6, <1>7 DEF IInv

\* The owner takes the back of its own queue, or turns to the others.
LEMMA PopOwnInv ==
  ASSUME IInv, NEW t \in Threads, PopOwn(t)
  PROVE  IInv' /\ PoolStep
  <1>1. /\ pc[t] = "popping" /\ task[t] = None /\ queues[t] \in Seq(Tasks)
        /\ UNCHANGED <<attempts, next, todo, sub, tasks_count, expected, closing, stop>>
    BY DEF IInv, ThreadsTyped, TaskHeld, PopOwn, Take, execVars, countVars
  <1>2. CASE queues[t] = <<>>
    <2>1. /\ pc' = [pc EXCEPT ![t] = "stealing"]
          /\ victim' = [victim EXCEPT ![t] = 1]
          /\ UNCHANGED <<queues, aim, task>>
      BY <1>2 DEF PopOwn, Goto, execVars
    <2>2. ThreadsTyped'
      <3>1. 1 \in 0 .. Workers
        BY ConstantsTyped
      <3>2. /\ pc' \in [Threads -> Points \cup ClientPoints \cup WorkerPoints]
            /\ pc'[0] \notin WorkerPoints
            /\ \A u \in Threads \ {0} : pc'[u] \notin ClientPoints
        BY <2>1 DEF IInv, ThreadsTyped, Points, ClientPoints, WorkerPoints
      <3> QED BY <1>1, <2>1, <3>1, <3>2 DEF IInv, ThreadsTyped
    <2>3. TaskHeld'
      BY <1>1, <2>1 DEF IInv, TaskHeld
    <2>4. AimTrue'
      BY <1>1, <2>1 DEF IInv, AimTrue, Victim
    <2>5. Quiet
      BY <1>1, <2>1 DEF Quiet, Busy, Raised
    <2>6. NoLostWakeup'
      BY <1>1, <2>1 DEF IInv, NoLostWakeup, ThreadsTyped
    <2>7. Waits' <=> Waits
      BY <1>1, <2>1 DEF Waits
    <2> QED BY <2>2, <2>3, <2>4, <2>5, <2>6, <2>7, QuietCounts, QuietPool DEF IInv
  <1>3. CASE queues[t] # <<>>
    <2>1. /\ Last(queues[t]) \in Tasks
          /\ Front(queues[t]) \in Seq(Tasks)
          /\ Len(queues[t]) = Len(Front(queues[t])) + 1
          /\ Front(queues[t]) = <<>> => Len(queues[t]) = 1
      BY <1>1, <1>3, WithoutTheLast
    <2> DEFINE rest == Front(queues[t])
    <2>2. /\ pc' = [pc EXCEPT ![t] = "starting"]
          /\ \E k \in Tasks : task' = [task EXCEPT ![t] = k]
          /\ queues' = [queues EXCEPT ![t] = rest]
          /\ aim' = aim \/ LoseAim(t)
          /\ rest = <<>> => LoseAim(t)
          /\ victim' = victim
      BY <2>1 DEF PopOwn, Take, Goto
    <2> HIDE DEF rest
    <2>3. /\ queues' \in [Threads -> Seq(Tasks)] /\ queues'[t] = rest
          /\ Len(queues[t]) = Len(queues'[t]) + 1
          /\ \A u \in Threads \ {t} : queues'[u] = queues[u]
      BY <2>2, <2>1 DEF IInv, ThreadsTyped, rest
    <2>4. /\ aim' \in [Threads -> BOOLEAN]
          /\ \A u \in Threads : aim'[u] => aim[u]
          /\ rest = <<>> => \A u \in Threads : aim'[u] => Victim(u) # t
      BY <2>2 DEF IInv, ThreadsTyped, LoseAim, Victim
    <2>5. ThreadsTyped'
      <3>1. /\ pc' \in [Threads -> Points \cup ClientPoints \cup WorkerPoints]
            /\ pc'[0] \notin WorkerPoints
            /\ \A u \in Threads \ {0} : pc'[u] \notin ClientPoints
        BY <2>2 DEF IInv, ThreadsTyped, Points, ClientPoints, WorkerPoints
      <3>2. task' \in [Threads -> Tasks \cup {None}]
        BY <2>2 DEF IInv, ThreadsTyped
      <3> QED BY <1>1, <2>2, <2>3, <2>4, <3>1 DEF IInv, ThreadsTyped
    <2>6. TaskHeld'
      BY <1>1, <2>2, ConstantsTyped
         DEF IInv, ThreadsTyped, TaskHeld, ClientPoints, WorkerPoints
    <2>7. AimTrue'
      <3> SUFFICES ASSUME NEW u \in Threads, aim'[u]
                   PROVE  pc'[u] = "taking" /\ queues'[Victim(u)'] # <<>>
        BY DEF AimTrue
      <3>1. aim[u] /\ pc[u] = "taking" /\ queues[Victim(u)] # <<>> /\ u # t
        BY <1>1, <2>4 DEF IInv, AimTrue
      <3>2. pc'[u] = "taking" /\ Victim(u)' = Victim(u)
        BY <2>2, <3>1 DEF Victim
      <3>3. Victim(u) \in Threads
        BY VictimIsThread DEF IInv, ThreadsTyped
      <3> QED BY <2>3, <2>4, <3>1, <3>2, <3>3
    <2>8. NoLostWakeup'
      BY <1>1, <1>3, <2>2, <2>3 DEF IInv, NoLostWakeup, ThreadsTyped
    <2>9. CountExact' /\ PoolStep
      BY <1>1, <2>2, <2>3, Taken DEF IInv, ThreadsTyped
    <2> QED BY <2>5, <2>6, <2>7, <2>8, <2>9 DEF IInv
  <1> QED BY <1>2, <1>3

\* A thief looks at the front of a queue that is not empty.
LEMMA LookAtFrontInv ==
  ASSUME IInv, NEW t \in Threads, LookAtFront(t)
  PROVE  IInv' /\ PoolStep
  <1>1. /\ pc[t] = "stealing" /\ task[t] = None
        /\ \/ /\ pc' = [pc EXCEPT ![t] = "missed"]
              /\ victim' = [victim EXCEPT ![t] = 0] /\ aim' = aim
           \/ /\ pc' = [pc EXCEPT ![t] = "stealing"]
              /\ victim' = [victim EXCEPT ![t] = victim[t] + 1] /\ aim' = aim
              /\ victim[t] + 1 \in 0 .. Workers
           \/ /\ pc' = [pc EXCEPT ![t] = "taking"]
              /\ victim' = victim /\ aim' = [aim EXCEPT ![t] = TRUE]
              /\ queues[Victim(t)] # <<>>
        /\ attempts' = attempts /\ queues' = queues
        /\ tasks_count' = tasks_count /\ expected' = expected /\ closing' = closing /\ stop' = stop
        /\ task' = task /\ next' = next /\ sub' = sub /\ todo' = todo
    <2>1. pc[t] = "stealing" /\ task[t] = None
      BY DEF IInv, TaskHeld, LookAtFront
    <2>2. victim[t] \in 0 .. Workers /\ Workers \in Nat
      BY ConstantsTyped DEF IInv, ThreadsTyped
    <2>3. CASE queues[Victim(t)] = <<>>
      <3>1. CASE victim[t] = Workers
        BY <2>1, <3>1 DEF LookAtFront, NextVictim, Goto, execVars, countVars
      <3>2. CASE victim[t] # Workers
        <4>1. victim[t] + 1 \in 0 .. Workers
          BY <2>2, <3>2
        <4> QED BY <2>1, <4>1 DEF LookAtFront, NextVictim, Goto, execVars, countVars
      <3> QED BY <3>1, <3>2
    <2>4. CASE queues[Victim(t)] # <<>>
      BY <2>1, <2>4 DEF LookAtFront, Goto, execVars, countVars
    <2> QED BY <2>3, <2>4
  <1>2. /\ pc[t] = "stealing" /\ pc'[t] \in {"missed", "stealing", "taking"}
        /\ task[t] = None /\ task'[t] = None
    BY <1>1 DEF IInv, ThreadsTyped
  <1>3. /\ \A u \in Threads \ {t} : pc'[u] = pc[u]
        /\ \A u \in Threads \ {t} : task'[u] = task[u] /\ sub'[u] = sub[u]
    BY <1>1 DEF IInv, ThreadsTyped
  <1>4. ThreadsTyped'
    <2>1. pc' \in [Threads -> Points \cup ClientPoints \cup WorkerPoints]
      BY <1>1 DEF IInv, ThreadsTyped, Points
    <2>2. pc'[0] \notin WorkerPoints
      BY <1>2, <1>3, ThreadsFinite DEF IInv, ThreadsTyped, WorkerPoints
    <2>3. \A u \in Threads \ {0} : pc'[u] \notin ClientPoints
      BY <1>2, <1>3 DEF IInv, ThreadsTyped, ClientPoints
    <2>4. victim' \in [Threads -> 0 .. Workers] /\ aim' \in [Threads -> BOOLEAN]
      <3>1. 0 \in 0 .. Workers /\ TRUE \in BOOLEAN
        BY ThreadsFinite
      <3>2. victim \in [Threads -> 0 .. Workers] /\ aim \in [Threads -> BOOLEAN]
        BY DEF IInv, ThreadsTyped
      <3> QED BY <1>1, <3>1, <3>2
    <2> QED BY <1>1, <2>1, <2>2, <2>3, <2>4 DEF IInv, ThreadsTyped
  <1>5. TaskHeld'
    <2> SUFFICES ASSUME NEW u \in Threads
                 PROVE  /\ pc'[u] \in {"starting", "invoking", "running", "visiting", "releasing"} => task'[u] # None
                        /\ pc'[u] \in {"counting", "pushing", "notifying"}
                           => sub'[u] # None /\ (u # 0 => task'[u] # None)
                        /\ pc'[u] \in {"finishing", "announcing"} \cup ClientPoints \cup WorkerPoints
                                   \cup {"asleep", "woken", "popping", "stealing", "taking", "missed"}
                           => task'[u] = None
      BY DEF TaskHeld
    <2>1. CASE u = t
      BY <1>2, <2>1
    <2>2. CASE u # t
      BY <1>3, <2>2 DEF IInv, TaskHeld
    <2> QED BY <2>1, <2>2
  <1>6. AimTrue'
    <2>1. ASSUME NEW u \in Threads \ {t}
          PROVE  aim'[u] => pc'[u] = "taking" /\ queues'[Victim(u)'] # <<>>
      <3>1. queues' = queues /\ aim'[u] = aim[u] /\ victim'[u] = victim[u] /\ pc'[u] = pc[u]
        BY <1>1, <1>3 DEF IInv, ThreadsTyped
      <3>2. aim[u] => pc[u] = "taking"
        BY DEF IInv, AimTrue
      <3> QED BY <3>1, <3>2, AimKept DEF IInv
    <2>2. aim'[t] => pc'[t] = "taking" /\ queues'[Victim(t)'] # <<>>
      <3>1. ~ aim[t]
        BY <1>1 DEF IInv, AimTrue
      <3>2. aim'[t] => pc'[t] = "taking" /\ victim' = victim /\ queues[Victim(t)] # <<>>
        BY <1>1, <3>1 DEF IInv, ThreadsTyped
      <3>3. victim' = victim => Victim(t)' = Victim(t)
        BY Zenon DEF Victim
      <3> QED BY <1>1, <3>2, <3>3
    <2> QED BY <2>1, <2>2 DEF AimTrue
  <1>7. Quiet
    <2>1. Busy(t)' <=> Busy(t)
      BY <1>2 DEF Busy
    <2>2. \A u \in Threads \ {t} : Busy(u)' <=> Busy(u)
      BY <1>3 DEF Busy
    <2>3. \A u \in Threads : pc'[u] = "pushing" <=> pc[u] = "pushing"
      BY <1>2, <1>3
    <2>4. Raised' <=> Raised
      BY <1>2, <1>3, ThreadsFinite DEF Raised
    <2> QED BY <1>1, <2>1, <2>2, <2>3, <2>4 DEF Quiet
  <1>8. CountExact'
    BY <1>7, QuietCounts
  <1>9. NoLostWakeup'
    BY <1>1, <1>2, <1>3 DEF IInv, NoLostWakeup
  <1>10. PoolStep
    <2>1. Waits' <=> Waits
      BY <1>2, <1>3, ThreadsFinite DEF Waits
    <2> QED BY <2>1, <1>7, QuietPool
  <1> QED BY <1>4, <1>5, <1>6, <1>8, <1>9, <1>10 DEF IInv

\* A thief takes the front it has looked at, unless it is gone.
LEMMA TakeFrontInv ==
  ASSUME IInv, NEW t \in Threads, TakeFront(t)
  PROVE  IInv' /\ PoolStep
  <1>1. /\ pc[t] = "taking" /\ task[t] = None
        /\ UNCHANGED <<attempts, next, todo, sub, tasks_count, expected, closing, stop>>
    BY DEF IInv, TaskHeld, TakeFront, Take, execVars, countVars
  <1>2. CASE ~ aim[t]
    <2>1. /\ \/ /\ pc' = [pc EXCEPT ![t] = "missed"]
                /\ victim' = [victim EXCEPT ![t] = 0]
             \/ /\ pc' = [pc EXCEPT ![t] = "stealing"]
                /\ victim' = [victim EXCEPT ![t] = victim[t] + 1]
                /\ victim[t] # Workers
          /\ UNCHANGED <<queues, aim, task>>
      BY <1>2 DEF TakeFront, NextVictim, Goto, execVars
    <2>2. ThreadsTyped'
      <3>1. victim' \in [Threads -> 0 .. Workers]
        <4>1. victim[t] \in 0 .. Workers /\ victim \in [Threads -> 0 .. Workers]
          BY DEF IInv, ThreadsTyped
        <4>2. 0 \in 0 .. Workers /\ (victim[t] # Workers => victim[t] + 1 \in 0 .. Workers)
          BY <4>1, ConstantsTyped
        <4> QED BY <2>1, <4>1, <4>2
      <3>2. /\ pc' \in [Threads -> Points \cup ClientPoints \cup WorkerPoints]
            /\ pc'[0] \notin WorkerPoints
            /\ \A u \in Threads \ {0} : pc'[u] \notin ClientPoints
        BY <2>1, ThreadsFinite DEF IInv, ThreadsTyped, Points, ClientPoints, WorkerPoints
      <3> QED BY <1>1, <2>1, <3>1, <3>2 DEF IInv, ThreadsTyped
    <2>3. TaskHeld'
      BY <1>1, <2>1 DEF IInv, ThreadsTyped, TaskHeld
    <2>4. AimTrue'
      BY <1>2, <2>1 DEF IInv, ThreadsTyped, AimTrue, Victim
    <2>5. Quiet
      BY <1>1, <2>1, ThreadsFinite DEF IInv, ThreadsTyped, Quiet, Busy, Raised
    <2>6. NoLostWakeup'
      BY <1>1, <2>1 DEF IInv, ThreadsTyped, NoLostWakeup
    <2>7. Waits' <=> Waits
      BY <1>1, <2>1, ThreadsFinite DEF IInv, ThreadsTyped, Waits
    <2> QED BY <2>2, <2>3, <2>4, <2>5, <2>6, <2>7, QuietCounts, QuietPool DEF IInv
  <1>3. CASE aim[t]
    <2> DEFINE w == Victim(t)
               rest == Tail(queues[w])
    <2>1. w \in Threads /\ queues[w] \in Seq(Tasks) /\ queues[w] # <<>>
      <3>1. w \in Threads
        BY VictimIsThread DEF IInv, ThreadsTyped
      <3> QED BY <1>3, <3>1 DEF IInv, ThreadsTyped, AimTrue
    <2>2. /\ Head(queues[w]) \in Tasks
          /\ rest \in Seq(Tasks)
          /\ Len(queues[w]) = Len(rest) + 1
      <3> HIDE DEF w
      <3> QED BY <2>1
    <2>3. /\ pc' = [pc EXCEPT ![t] = "starting"]
          /\ \E k \in Tasks : task' = [task EXCEPT ![t] = k]
          /\ queues' = [queues EXCEPT ![w] = rest]
          /\ LoseAim(w)
          /\ victim' = [victim EXCEPT ![t] = 0]
      BY <1>3, <2>2 DEF TakeFront, Take, Goto
    <2>4. /\ aim' \in [Threads -> BOOLEAN]
          /\ \A u \in Threads : aim'[u] => aim[u] /\ Victim(u) # w
      BY <2>3 DEF LoseAim, Victim
    <2>5. aim'[t] = FALSE
      BY <2>4
    <2> HIDE DEF rest, w
    <2>6. /\ queues' \in [Threads -> Seq(Tasks)] /\ queues'[w] = rest
          /\ Len(queues[w]) = Len(queues'[w]) + 1
          /\ \A u \in Threads \ {w} : queues'[u] = queues[u]
      BY <2>3, <2>2, <2>1 DEF IInv, ThreadsTyped
    <2>7. ThreadsTyped'
      <3>1. /\ pc' \in [Threads -> Points \cup ClientPoints \cup WorkerPoints]
            /\ pc'[0] \notin WorkerPoints
            /\ \A u \in Threads \ {0} : pc'[u] \notin ClientPoints
        BY <2>3 DEF IInv, ThreadsTyped, Points, ClientPoints, WorkerPoints
      <3>2. task' \in [Threads -> Tasks \cup {None}]
        BY <2>3 DEF IInv, ThreadsTyped
      <3>3. victim' \in [Threads -> 0 .. Workers]
        BY <2>3, ConstantsTyped DEF IInv, ThreadsTyped
      <3> QED BY <1>1, <2>6, <2>4, <3>1, <3>2, <3>3 DEF IInv, ThreadsTyped
    <2>8. TaskHeld'
      BY <1>1, <2>3, ConstantsTyped
         DEF IInv, ThreadsTyped, TaskHeld, ClientPoints, WorkerPoints
    <2>9. AimTrue'
      <3> SUFFICES ASSUME NEW u \in Threads, aim'[u]
                   PROVE  pc'[u] = "taking" /\ queues'[Victim(u)'] # <<>>
        BY DEF AimTrue
      <3>1. aim[u] /\ pc[u] = "taking" /\ queues[Victim(u)] # <<>> /\ u # t /\ Victim(u) # w
        BY <2>4, <2>5 DEF IInv, AimTrue
      <3>2. pc'[u] = "taking" /\ Victim(u)' = Victim(u)
        BY <2>3, <3>1 DEF Victim
      <3>3. Victim(u) \in Threads
        BY VictimIsThread DEF IInv, ThreadsTyped
      <3> QED BY <2>6, <3>1, <3>2, <3>3
    <2>10. NoLostWakeup'
      BY <1>1, <2>3, <2>1 DEF IInv, NoLostWakeup
    <2>11. CountExact' /\ PoolStep
      BY <1>1, <2>1, <2>3, <2>6, Taken DEF IInv, ThreadsTyped
    <2> QED BY <2>7, <2>8, <2>9, <2>10, <2>11 DEF IInv
  <1> QED BY <1>2, <1>3

\* A thread that has found nothing has nothing.
LEMMA MissInv ==
  ASSUME IInv, NEW t \in Threads, Miss(t)
  PROVE  IInv' /\ PoolStep
  <1>1. ThreadsTyped'
    BY DEF IInv, ThreadsTyped, ClientPoints, WorkerPoints, Miss, Goto, queueVars, execVars,
           countVars
  <1>2. TaskHeld'
    BY DEF IInv, TaskHeld, ClientPoints, Miss, Goto, execVars
  <1>3. AimTrue'
    BY DEF IInv, AimTrue, Victim, Miss, Goto, queueVars
  <1>4. Quiet
    BY DEF Quiet, Busy, Raised, Miss, Goto, queueVars, execVars, countVars
  <1>5. CountExact'
    BY <1>4, QuietCounts
  <1>6. NoLostWakeup'
    BY DEF IInv, NoLostWakeup, Miss, Goto, queueVars
  <1>7. PoolStep
    <2>1. Waits' <=> Waits
      BY DEF Waits, Miss, Goto
    <2> QED BY <2>1, <1>4, QuietPool
  <1> QED BY <1>1, <1>2, <1>3, <1>5, <1>6, <1>7 DEF IInv

-----------------------------------------------------------------------------
(* execute()                                                               *)

\* The thread starts the task it has.
LEMMA StartInv ==
  ASSUME IInv, NEW t \in Threads, Start(t)
  PROVE  IInv' /\ PoolStep
  <1>1. ThreadsTyped'
    BY DEF IInv, ThreadsTyped, Points, ClientPoints, WorkerPoints, Start, Goto, queueVars,
           execVars, countVars
  <1>2. TaskHeld'
    BY DEF IInv, TaskHeld, ThreadsTyped, ClientPoints, WorkerPoints, Start, Goto, execVars
  <1>3. AimTrue'
    BY DEF IInv, AimTrue, Victim, ThreadsTyped, Start, Goto, queueVars
  <1>4. Quiet
    BY DEF Quiet, Busy, Raised, Start, Goto, queueVars, execVars, countVars
  <1>5. CountExact'
    BY <1>4, QuietCounts
  <1>6. NoLostWakeup'
    BY DEF IInv, NoLostWakeup, ThreadsTyped, Start, Goto, queueVars
  <1>7. PoolStep
    <2>1. Waits' <=> Waits
      BY DEF Waits, Start, Goto
    <2> QED BY <2>1, <1>4, QuietPool
  <1> QED BY <1>1, <1>2, <1>3, <1>5, <1>6, <1>7 DEF IInv

\* The task is invoked, or is found cancelled.
LEMMA InvokeInv ==
  ASSUME IInv, graph \in Graphs, NEW t \in Threads, Invoke(t)
  PROVE  IInv' /\ PoolStep
  <1>1. /\ pc[t] = "invoking" /\ task[t] \in Tasks
        /\ \/ /\ pc' = [pc EXCEPT ![t] = "finishing"]
              /\ task' = [task EXCEPT ![t] = None] /\ todo' = todo
           \/ /\ pc' = [pc EXCEPT ![t] = "running"]
              /\ task' = task /\ todo' = [todo EXCEPT ![t] = Spawns[task[t]]]
        /\ attempts' = attempts /\ queues' = queues /\ aim' = aim /\ victim' = victim
        /\ tasks_count' = tasks_count /\ expected' = expected /\ closing' = closing /\ stop' = stop
        /\ next' = next /\ sub' = sub
    BY DEF IInv, ThreadsTyped, TaskHeld, Invoke, Leave, Goto, queueVars, countVars
  <1>2. /\ pc[t] = "invoking" /\ task[t] # None
        /\ \/ pc'[t] = "finishing" /\ task'[t] = None
           \/ pc'[t] = "running" /\ task'[t] = task[t]
    BY <1>1, ConstantsTyped DEF IInv, ThreadsTyped
  <1>3. /\ \A u \in Threads \ {t} : pc'[u] = pc[u]
        /\ \A u \in Threads \ {t} : task'[u] = task[u] /\ sub'[u] = sub[u]
    BY <1>1 DEF IInv, ThreadsTyped
  <1>4. ThreadsTyped'
    <2>1. pc' \in [Threads -> Points \cup ClientPoints \cup WorkerPoints]
      BY <1>1 DEF IInv, ThreadsTyped, Points, ClientPoints, WorkerPoints
    <2>2. pc'[0] \notin WorkerPoints
      BY <1>2, <1>3, ThreadsFinite DEF IInv, ThreadsTyped, WorkerPoints
    <2>3. \A u \in Threads \ {0} : pc'[u] \notin ClientPoints
      BY <1>2, <1>3 DEF IInv, ThreadsTyped, ClientPoints
    <2> QED BY ZenonT(60), <1>1, <2>1, <2>2, <2>3, GraphsTyped DEF IInv, ThreadsTyped
  <1>5. TaskHeld'
    <2> SUFFICES ASSUME NEW u \in Threads
                 PROVE  /\ pc'[u] \in {"starting", "invoking", "running", "visiting", "releasing"} => task'[u] # None
                        /\ pc'[u] \in {"counting", "pushing", "notifying"}
                           => sub'[u] # None /\ (u # 0 => task'[u] # None)
                        /\ pc'[u] \in {"finishing", "announcing"} \cup ClientPoints \cup WorkerPoints
                                   \cup {"asleep", "woken", "popping", "stealing", "taking", "missed"}
                           => task'[u] = None
      BY DEF TaskHeld
    <2>1. CASE u = t
      BY <1>2, <2>1 DEF ClientPoints, WorkerPoints
    <2>2. CASE u # t
      BY <1>3, <2>2 DEF IInv, TaskHeld
    <2> QED BY <2>1, <2>2
  <1>6. AimTrue'
    BY <1>1 DEF IInv, AimTrue, Victim, ThreadsTyped
  <1>7. Quiet
    <2>1. Busy(t)' <=> Busy(t)
      BY <1>2 DEF Busy
    <2>2. \A u \in Threads \ {t} : Busy(u)' <=> Busy(u)
      BY <1>3 DEF Busy
    <2>3. \A u \in Threads : pc'[u] = "pushing" <=> pc[u] = "pushing"
      BY <1>2, <1>3
    <2>4. Raised' <=> Raised
      BY <1>2, <1>3, ThreadsFinite DEF Raised
    <2> QED BY <1>1, <2>1, <2>2, <2>3, <2>4 DEF Quiet
  <1>8. CountExact'
    BY <1>7, QuietCounts
  <1>9. NoLostWakeup'
    BY <1>1, <1>2, <1>3 DEF IInv, NoLostWakeup
  <1>10. PoolStep
    <2>1. Waits' <=> Waits
      BY <1>2, <1>3, ThreadsFinite DEF Waits
    <2> QED BY <2>1, <1>7, QuietPool
  <1> QED BY <1>4, <1>5, <1>6, <1>8, <1>9, <1>10 DEF IInv

\* The function of a task enters submit().
LEMMA FunctionSubmitsInv ==
  ASSUME IInv, NEW t \in Threads, FunctionSubmits(t)
  PROVE  IInv' /\ PoolStep
  <1>1. todo[t] # <<>> => Head(todo[t]) \in Tasks /\ Tail(todo[t]) \in Seq(Tasks)
    BY DEF IInv, ThreadsTyped
  <1>2. ThreadsTyped'
    BY DEF IInv, ThreadsTyped, Points, ClientPoints, WorkerPoints, FunctionSubmits, EnterSubmit,
           SubmitOrder, Goto, queueVars, countVars
  <1>3. TaskHeld'
    BY ConstantsTyped
       DEF IInv, TaskHeld, ThreadsTyped, ClientPoints, WorkerPoints, FunctionSubmits,
           EnterSubmit, SubmitOrder, Goto
  <1>4. AimTrue'
    BY DEF IInv, AimTrue, Victim, ThreadsTyped, FunctionSubmits, EnterSubmit, Goto, queueVars
  <1>5. Quiet
    BY DEF IInv, TaskHeld, Quiet, Busy, Raised, FunctionSubmits, EnterSubmit, SubmitOrder, Goto,
           queueVars, countVars
  <1>6. CountExact'
    BY <1>5, QuietCounts
  <1>7. NoLostWakeup'
    BY DEF IInv, NoLostWakeup, ThreadsTyped, FunctionSubmits, EnterSubmit, SubmitOrder, Goto,
           queueVars
  <1>8. PoolStep
    <2>1. Waits' <=> Waits
      BY DEF Waits, FunctionSubmits, EnterSubmit, SubmitOrder, Goto
    <2> QED BY <2>1, <1>5, QuietPool
  <1> QED BY <1>2, <1>3, <1>4, <1>6, <1>7, <1>8 DEF IInv

\* The function of a task returns.
LEMMA FunctionReturnsInv ==
  ASSUME IInv, graph \in Graphs, NEW t \in Threads, FunctionReturns(t)
  PROVE  IInv' /\ PoolStep
  <1>1. ThreadsTyped'
    BY GraphsTyped, ThreadsFinite
       DEF IInv, TaskHeld, ThreadsTyped, Points, ClientPoints, WorkerPoints, FunctionReturns,
           Goto, queueVars, countVars
  <1>2. TaskHeld'
    BY DEF IInv, TaskHeld, ThreadsTyped, ClientPoints, WorkerPoints, FunctionReturns, Goto
  <1>3. AimTrue'
    BY DEF IInv, AimTrue, Victim, FunctionReturns, Goto, queueVars
  <1>4. Quiet
    BY DEF Quiet, Busy, Raised, FunctionReturns, Goto, queueVars, countVars
  <1>5. CountExact'
    BY <1>4, QuietCounts
  <1>6. NoLostWakeup'
    BY DEF IInv, NoLostWakeup, ThreadsTyped, FunctionReturns, Goto, queueVars
  <1>7. PoolStep
    <2>1. Waits' <=> Waits
      BY DEF Waits, FunctionReturns, Goto
    <2> QED BY <2>1, <1>4, QuietPool
  <1> QED BY <1>1, <1>2, <1>3, <1>5, <1>6, <1>7 DEF IInv

\* A successor becomes the thread's next task, or is about to be counted.
LEMMA VisitSuccessorInv ==
  ASSUME IInv, NEW t \in Threads, VisitSuccessor(t)
  PROVE  IInv' /\ PoolStep
  <1>1. /\ pc[t] \in {"visiting", "releasing"} /\ task[t] # None
        /\ \/ pc' = pc /\ next' = next /\ sub' = sub
           \/ /\ pc' = [pc EXCEPT ![t] = "releasing"]
              /\ \E s \in Tasks : next' = [next EXCEPT ![t] = s]
              /\ sub' = sub
           \/ /\ pc' = [pc EXCEPT ![t] = "counting"]
              /\ next' = next
              /\ \E s \in Tasks : sub' = [sub EXCEPT ![t] = s]
        /\ \E rest \in Seq(Tasks) : todo' = [todo EXCEPT ![t] = rest]
        /\ attempts' = attempts /\ queues' = queues /\ aim' = aim /\ victim' = victim
        /\ tasks_count' = tasks_count /\ expected' = expected /\ closing' = closing /\ stop' = stop
        /\ task' = task
    <2>1. pc[t] \in {"visiting", "releasing"} /\ task[t] # None
      BY DEF IInv, TaskHeld, VisitSuccessor
    <2>2. Head(todo[t]) \in Tasks /\ Tail(todo[t]) \in Seq(Tasks)
      <3>1. todo[t] \in Seq(Tasks) /\ todo[t] # <<>>
        BY DEF IInv, ThreadsTyped, VisitSuccessor
      <3> QED BY <3>1
    <2> QED BY <2>1, <2>2
         DEF VisitSuccessor, EnterSubmit, SubmitOrder, Goto, queueVars, countVars
  <1>2. /\ pc[t] \in {"visiting", "releasing"} /\ task[t] # None /\ task'[t] = task[t]
        /\ \/ pc'[t] \in {"visiting", "releasing"}
           \/ pc'[t] = "counting" /\ sub'[t] # None
    BY <1>1, ConstantsTyped DEF IInv, ThreadsTyped, TaskHeld
  <1>3. /\ \A u \in Threads \ {t} : pc'[u] = pc[u]
        /\ \A u \in Threads \ {t} : task'[u] = task[u] /\ sub'[u] = sub[u]
    BY <1>1 DEF IInv, ThreadsTyped
  <1>4. ThreadsTyped'
    <2>1. pc' \in [Threads -> Points \cup ClientPoints \cup WorkerPoints]
      BY <1>1 DEF IInv, ThreadsTyped, Points
    <2>2. pc'[0] \notin WorkerPoints
      BY <1>2, <1>3, ThreadsFinite DEF IInv, ThreadsTyped, WorkerPoints
    <2>3. \A u \in Threads \ {0} : pc'[u] \notin ClientPoints
      BY <1>2, <1>3 DEF IInv, ThreadsTyped, ClientPoints
    <2>4. next' \in [Threads -> Tasks \cup {None}] /\ sub' \in [Threads -> Tasks \cup {None}]
      <3>1. next \in [Threads -> Tasks \cup {None}] /\ sub \in [Threads -> Tasks \cup {None}]
        BY DEF IInv, ThreadsTyped
      <3> QED BY <1>1, <3>1
    <2>5. todo' \in [Threads -> Seq(Tasks)]
      BY <1>1 DEF IInv, ThreadsTyped
    <2>6. UNCHANGED <<queues, aim, victim, attempts, task, tasks_count, expected, closing, stop>>
      BY <1>1
    <2> QED BY <2>1, <2>2, <2>3, <2>4, <2>5, <2>6 DEF IInv, ThreadsTyped
  <1>5. TaskHeld'
    <2> SUFFICES ASSUME NEW u \in Threads
                 PROVE  /\ pc'[u] \in {"starting", "invoking", "running", "visiting", "releasing"} => task'[u] # None
                        /\ pc'[u] \in {"counting", "pushing", "notifying"}
                           => sub'[u] # None /\ (u # 0 => task'[u] # None)
                        /\ pc'[u] \in {"finishing", "announcing"} \cup ClientPoints \cup WorkerPoints
                                   \cup {"asleep", "woken", "popping", "stealing", "taking", "missed"}
                           => task'[u] = None
      BY DEF TaskHeld
    <2>1. CASE u = t
      BY <1>2, <2>1 DEF ClientPoints, WorkerPoints
    <2>2. CASE u # t
      BY <1>3, <2>2 DEF IInv, TaskHeld
    <2> QED BY <2>1, <2>2
  <1>6. AimTrue'
    BY <1>1 DEF IInv, AimTrue, Victim, ThreadsTyped
  <1>7. Quiet
    <2>1. Busy(t)' <=> Busy(t)
      BY <1>2 DEF Busy
    <2>2. \A u \in Threads \ {t} : Busy(u)' <=> Busy(u)
      BY <1>3 DEF Busy
    <2>3. \A u \in Threads : pc'[u] = "pushing" <=> pc[u] = "pushing"
      BY <1>2, <1>3
    <2>4. Raised' <=> Raised
      BY <1>2, <1>3, ThreadsFinite DEF Raised
    <2> QED BY <1>1, <2>1, <2>2, <2>3, <2>4 DEF Quiet
  <1>8. CountExact'
    BY <1>7, QuietCounts
  <1>9. NoLostWakeup'
    BY <1>1, <1>2, <1>3 DEF IInv, NoLostWakeup
  <1>10. PoolStep
    <2>1. Waits' <=> Waits
      BY <1>2, <1>3, ThreadsFinite DEF Waits
    <2> QED BY <2>1, <1>7, QuietPool
  <1> QED BY <1>4, <1>5, <1>6, <1>8, <1>9, <1>10 DEF IInv

\* The thread goes on with its next task, or is about to be discounted.
LEMMA EndTaskInv ==
  ASSUME IInv, NEW t \in Threads, EndTask(t)
  PROVE  IInv' /\ PoolStep
  <1>1. /\ pc[t] \in {"visiting", "releasing"} /\ task[t] # None
        /\ \/ /\ pc' = [pc EXCEPT ![t] = "finishing"]
              /\ task' = [task EXCEPT ![t] = None] /\ next' = next
           \/ /\ pc' = [pc EXCEPT ![t] = "starting"]
              /\ next[t] \in Tasks
              /\ task' = [task EXCEPT ![t] = next[t]] /\ next' = [next EXCEPT ![t] = None]
        /\ attempts' = attempts /\ queues' = queues /\ aim' = aim /\ victim' = victim
        /\ tasks_count' = tasks_count /\ expected' = expected /\ closing' = closing /\ stop' = stop
        /\ sub' = sub /\ todo' = todo
    BY DEF IInv, ThreadsTyped, TaskHeld, EndTask, Leave, Goto, queueVars, countVars
  <1>2. /\ pc[t] \in {"visiting", "releasing"} /\ task[t] # None
        /\ \/ pc'[t] = "finishing" /\ task'[t] = None
           \/ pc'[t] = "starting" /\ task'[t] # None
    BY <1>1, ConstantsTyped DEF IInv, ThreadsTyped, TaskHeld
  <1>3. /\ \A u \in Threads \ {t} : pc'[u] = pc[u]
        /\ \A u \in Threads \ {t} : task'[u] = task[u] /\ sub'[u] = sub[u]
    BY <1>1 DEF IInv, ThreadsTyped
  <1>4. ThreadsTyped'
    <2>1. pc' \in [Threads -> Points \cup ClientPoints \cup WorkerPoints]
      BY <1>1 DEF IInv, ThreadsTyped, Points
    <2>2. pc'[0] \notin WorkerPoints
      BY <1>2, <1>3, ThreadsFinite DEF IInv, ThreadsTyped, WorkerPoints
    <2>3. \A u \in Threads \ {0} : pc'[u] \notin ClientPoints
      BY <1>2, <1>3 DEF IInv, ThreadsTyped, ClientPoints
    <2> QED BY <1>1, <2>1, <2>2, <2>3 DEF IInv, ThreadsTyped
  <1>5. TaskHeld'
    <2> SUFFICES ASSUME NEW u \in Threads
                 PROVE  /\ pc'[u] \in {"starting", "invoking", "running", "visiting", "releasing"} => task'[u] # None
                        /\ pc'[u] \in {"counting", "pushing", "notifying"}
                           => sub'[u] # None /\ (u # 0 => task'[u] # None)
                        /\ pc'[u] \in {"finishing", "announcing"} \cup ClientPoints \cup WorkerPoints
                                   \cup {"asleep", "woken", "popping", "stealing", "taking", "missed"}
                           => task'[u] = None
      BY DEF TaskHeld
    <2>1. CASE u = t
      BY <1>2, <2>1 DEF ClientPoints, WorkerPoints
    <2>2. CASE u # t
      BY <1>3, <2>2 DEF IInv, TaskHeld
    <2> QED BY <2>1, <2>2
  <1>6. AimTrue'
    BY <1>1 DEF IInv, AimTrue, Victim, ThreadsTyped
  <1>7. Quiet
    <2>1. Busy(t)' <=> Busy(t)
      BY <1>2 DEF Busy
    <2>2. \A u \in Threads \ {t} : Busy(u)' <=> Busy(u)
      BY <1>3 DEF Busy
    <2>3. \A u \in Threads : pc'[u] = "pushing" <=> pc[u] = "pushing"
      BY <1>2, <1>3
    <2>4. Raised' <=> Raised
      BY <1>2, <1>3, ThreadsFinite DEF Raised
    <2> QED BY <1>1, <2>1, <2>2, <2>3, <2>4 DEF Quiet
  <1>8. CountExact'
    BY <1>7, QuietCounts
  <1>9. NoLostWakeup'
    BY <1>1, <1>2, <1>3 DEF IInv, NoLostWakeup
  <1>10. PoolStep
    <2>1. Waits' <=> Waits
      BY <1>2, <1>3, ThreadsFinite DEF Waits
    <2> QED BY <2>1, <1>7, QuietPool
  <1> QED BY <1>4, <1>5, <1>6, <1>8, <1>9, <1>10 DEF IInv

\* The work is discounted when its thread is done with all of it.
LEMMA FinishInv ==
  ASSUME IInv, NEW t \in Threads, Finish(t)
  PROVE  IInv' /\ PoolStep
  <1>1. /\ pc[t] = "finishing"
        /\ pc' = [pc EXCEPT ![t] = "announcing"]
           \/ (t = 0 /\ pc' = [pc EXCEPT ![t] = "helping"])
           \/ (t # 0 /\ pc' = [pc EXCEPT ![t] = "loop"])
        /\ attempts' = attempts \/ attempts' = [attempts EXCEPT ![t] = 0]
        /\ tasks_count' = tasks_count - 1
        /\ UNCHANGED <<queues, aim, victim, task, next, todo, sub, expected, closing, stop>>
    BY DEF Finish, Executed, Goto, queueVars, execVars
  <1>2. BusyThreads' = BusyThreads \ {t} /\ t \in BusyThreads
    BY <1>1 DEF IInv, ThreadsTyped, BusyThreads, Busy
  <1>3. PushingThreads' = PushingThreads
    BY <1>1 DEF IInv, ThreadsTyped, PushingThreads
  <1>4. Cardinality(BusyThreads') = Cardinality(BusyThreads) - 1
    BY <1>2, CountsFinite, FS_RemoveElement
  <1>5. Cardinality(BusyThreads) > 0
    <2>1. Cardinality(BusyThreads) # 0
      BY <1>2, CountsFinite, FS_EmptySet
    <2> QED BY <2>1, CountsFinite
  <1>6. tasks_count # 0
    BY <1>5, NothingQueued DEF Jobs
  <1>7. ThreadsTyped'
    <2>1. tasks_count - 1 \in Nat
      BY <1>6 DEF IInv, ThreadsTyped
    <2>2. 0 \in 0 .. MaxAttempts + 1
      BY ConstantsTyped
    <2>3. attempts' \in [Threads -> 0 .. MaxAttempts + 1]
      BY <1>1, <2>2 DEF IInv, ThreadsTyped
    <2>4. /\ pc' \in [Threads -> Points \cup ClientPoints \cup WorkerPoints]
          /\ pc'[0] \notin WorkerPoints
          /\ \A u \in Threads \ {0} : pc'[u] \notin ClientPoints
      BY ZenonT(60), <1>1, ThreadsFinite DEF IInv, ThreadsTyped, Points, ClientPoints, WorkerPoints
    <2> QED BY <1>1, <2>1, <2>3, <2>4 DEF IInv, ThreadsTyped
  <1>8. TaskHeld'
    BY <1>1 DEF IInv, ThreadsTyped, TaskHeld
  <1>9. AimTrue'
    BY <1>1 DEF IInv, ThreadsTyped, AimTrue, Victim
  <1>10. (Raised' <=> Raised) /\ (Waits' <=> Waits)
    BY <1>1, ThreadsFinite DEF IInv, ThreadsTyped, Raised, Waits
  <1>11. CountExact'
    <2>1. queues' \in [Threads -> Seq(Tasks)] /\ tasks_count' = tasks_count + 0 + (-1) + 0
      BY <1>1 DEF IInv, ThreadsTyped
    <2>2. Cardinality(Places(queues')) = Cardinality(Places(queues)) + 0
      <3>1. queues \in [Threads -> Seq(Tasks)] /\ queues' = queues
        BY <1>1 DEF IInv, ThreadsTyped
      <3>2. Cardinality(Places(queues)) \in Nat
        BY <3>1, PlacesFinite
      <3> QED BY <3>1, <3>2
    <2>3. /\ Cardinality(PushingThreads') = Cardinality(PushingThreads) + 0
          /\ Cardinality(BusyThreads') = Cardinality(BusyThreads) + (-1)
      BY <1>4, <1>3, CountsFinite
    <2> QED BY <2>1, <2>2, <2>3, <1>10, Recount
  <1>12. NoLostWakeup'
    BY <1>1 DEF IInv, ThreadsTyped, NoLostWakeup
  <1>13. PoolStep
    <2>1. Queued' = Queued
      BY <1>1 DEF Queued
    <2>2. Waits' = Waits
      BY <1>10 DEF Waits
    <2>3. Pool!Finish
      BY <1>4, <1>3, <1>5, <2>1, <2>2 DEF Pool!Finish, BusyThreads, PushingThreads, Waits
    <2> QED BY <2>3 DEF PoolStep, Pool!PoolNext
  <1> QED BY <1>7, <1>8, <1>9, <1>11, <1>12, <1>13 DEF IInv

\* Everybody is woken up when the count was found to be zero.
LEMMA AnnounceInv ==
  ASSUME IInv, NEW t \in Threads, Announce(t)
  PROVE  IInv' /\ PoolStep
  <1>1. ThreadsTyped'
    <2>1. attempts' \in [Threads -> 0 .. MaxAttempts + 1]
      <3>1. 0 \in 0 .. MaxAttempts + 1
        BY ConstantsTyped
      <3> QED BY <3>1 DEF IInv, ThreadsTyped, Announce
    <2>2. /\ pc' \in [Threads -> Points \cup ClientPoints \cup WorkerPoints]
          /\ pc'[0] \notin WorkerPoints
          /\ \A u \in Threads \ {0} : pc'[u] \notin ClientPoints
      BY ThreadsFinite
         DEF IInv, ThreadsTyped, Points, ClientPoints, WorkerPoints, Announce, NotifyAll
    <2> QED BY <2>1, <2>2 DEF IInv, ThreadsTyped, Announce, queueVars, execVars, countVars
  <1>2. TaskHeld'
    <2>1. /\ task' = task /\ sub' = sub /\ task[t] = None
          /\ pc'[t] \in {"helping", "loop"}
          /\ \A u \in Threads \ {t} : pc'[u] = pc[u] \/ (pc[u] = "asleep" /\ pc'[u] = "woken")
      BY DEF IInv, TaskHeld, Announce, NotifyAll, Asleep, execVars
    <2> QED BY <2>1 DEF IInv, TaskHeld, ClientPoints, WorkerPoints
  <1>3. AimTrue'
    BY DEF IInv, AimTrue, Victim, Announce, NotifyAll, Asleep, queueVars
  <1>4. Quiet
    BY ThreadsFinite
       DEF Quiet, Busy, Raised, Announce, NotifyAll, Asleep, queueVars, execVars, countVars
  <1>5. CountExact'
    BY <1>4, QuietCounts
  <1>6. NoLostWakeup'
    BY ThreadsFinite DEF IInv, NoLostWakeup, ThreadsTyped, Announce, NotifyAll, Asleep, queueVars
  <1>7. PoolStep
    <2>1. Waits' <=> Waits
      BY ThreadsFinite DEF Waits, Announce, NotifyAll, Asleep
    <2> QED BY <2>1, <1>4, QuietPool
  <1> QED BY <1>1, <1>2, <1>3, <1>5, <1>6, <1>7 DEF IInv

-----------------------------------------------------------------------------
(* The client                                                              *)

\* The client enters submit().
LEMMA ClientSubmitsInv ==
  ASSUME IInv, NEW r \in Roots, ClientSubmits(r)
  PROVE  IInv' /\ PoolStep
  <1>1. ThreadsTyped'
    BY ConstantsTyped, ThreadsFinite
       DEF IInv, ThreadsTyped, Points, WorkerPoints, ClientSubmits, EnterSubmit, SubmitOrder,
           Roots, Goto, queueVars, countVars
  <1>2. TaskHeld'
    BY ConstantsTyped, ThreadsFinite
       DEF IInv, TaskHeld, ThreadsTyped, Points, ClientSubmits, EnterSubmit, SubmitOrder, Roots,
           Goto
  <1>3. AimTrue'
    BY DEF IInv, AimTrue, Victim, ThreadsTyped, ClientSubmits, EnterSubmit, Goto, queueVars
  <1>4. Quiet
    BY DEF IInv, TaskHeld, Quiet, Busy, Raised, ClientPoints, ClientSubmits, EnterSubmit,
           SubmitOrder, Goto, queueVars, countVars
  <1>5. CountExact'
    BY <1>4, QuietCounts
  <1>6. NoLostWakeup'
    BY DEF IInv, NoLostWakeup, ThreadsTyped, ClientSubmits, EnterSubmit, Goto, queueVars
  <1>7. PoolStep
    <2>1. Waits' <=> Waits
      BY DEF Waits, ClientSubmits, EnterSubmit, SubmitOrder, Goto
    <2> QED BY <2>1, <1>4, QuietPool
  <1> QED BY <1>1, <1>2, <1>3, <1>5, <1>6, <1>7 DEF IInv

\* Cancel() moves no job.
LEMMA CancelInv ==
  ASSUME IInv, NEW k \in Tasks, Cancel(k)
  PROVE  IInv' /\ PoolStep
  <1>1. ThreadsTyped'
    BY DEF IInv, ThreadsTyped, Cancel, queueVars, execVars, countVars
  <1>2. TaskHeld'
    BY DEF IInv, TaskHeld, Cancel, execVars
  <1>3. AimTrue'
    BY DEF IInv, AimTrue, Victim, Cancel, queueVars
  <1>4. Quiet
    BY DEF Quiet, Busy, Raised, Cancel, queueVars, execVars, countVars
  <1>5. CountExact'
    BY <1>4, QuietCounts
  <1>6. NoLostWakeup'
    BY DEF IInv, NoLostWakeup, Cancel, queueVars
  <1>7. PoolStep
    <2>1. Waits' <=> Waits
      BY DEF Waits, Cancel
    <2> QED BY <2>1, <1>4, QuietPool
  <1> QED BY <1>1, <1>2, <1>3, <1>5, <1>6, <1>7 DEF IInv

\* Reset() moves no job.
LEMMA ResetInv ==
  ASSUME IInv, NEW k \in Tasks, Reset(k)
  PROVE  IInv' /\ PoolStep
  <1>1. ThreadsTyped'
    BY DEF IInv, ThreadsTyped, Reset, queueVars, execVars, countVars
  <1>2. TaskHeld'
    BY DEF IInv, TaskHeld, Reset, execVars
  <1>3. AimTrue'
    BY DEF IInv, AimTrue, Victim, Reset, queueVars
  <1>4. Quiet
    BY DEF Quiet, Busy, Raised, Reset, queueVars, execVars, countVars
  <1>5. CountExact'
    BY <1>4, QuietCounts
  <1>6. NoLostWakeup'
    BY DEF IInv, NoLostWakeup, Reset, queueVars
  <1>7. PoolStep
    <2>1. Waits' <=> Waits
      BY DEF Waits, Reset
    <2> QED BY <2>1, <1>4, QuietPool
  <1> QED BY <1>1, <1>2, <1>3, <1>5, <1>6, <1>7 DEF IInv

\* The client enters wait().
LEMMA WaitInv ==
  ASSUME IInv, Wait
  PROVE  IInv' /\ PoolStep
  <1>1. ThreadsTyped'
    BY DEF IInv, ThreadsTyped, ClientPoints, WorkerPoints, Wait, Goto, queueVars, execVars
  <1>2. TaskHeld'
    BY DEF IInv, TaskHeld, ClientPoints, Wait, Goto, execVars
  <1>3. AimTrue'
    BY DEF IInv, AimTrue, Victim, ThreadsTyped, Wait, Goto, queueVars
  <1>4. Quiet
    BY DEF Quiet, Busy, Raised, Wait, Goto, queueVars, execVars
  <1>5. CountExact'
    BY <1>4, QuietCounts
  <1>6. NoLostWakeup'
    BY DEF IInv, NoLostWakeup, Wait, Goto, queueVars
  <1>7. PoolStep
    <2>1. Waits' /\ ~ Waits
      BY ThreadsFinite DEF IInv, Waits, ThreadsTyped, Wait, Goto
    <2> QED BY <2>1, <1>4, CallOfWait
  <1> QED BY <1>1, <1>2, <1>3, <1>5, <1>6, <1>7 DEF IInv

\* wait() returns when the count is zero.
LEMMA LoadCountInv ==
  ASSUME IInv, LoadCount
  PROVE  IInv' /\ PoolStep
  <1>1. /\ pc[0] = "waiting" /\ task[0] = None
        /\ \/ /\ tasks_count = 0
              /\ pc' = [pc EXCEPT ![0] = "idle"] \/ pc' = [pc EXCEPT ![0] = "stopping"]
           \/ /\ tasks_count # 0
              /\ pc' = [pc EXCEPT ![0] = "blocking"]
        /\ expected' = tasks_count
        /\ attempts' = attempts /\ queues' = queues /\ aim' = aim /\ victim' = victim
        /\ tasks_count' = tasks_count /\ closing' = closing /\ stop' = stop
        /\ task' = task /\ next' = next /\ sub' = sub /\ todo' = todo
    BY ThreadsFinite DEF IInv, TaskHeld, LoadCount, Goto, ClientPoints, queueVars, execVars
  <1>2. /\ pc[0] = "waiting" /\ pc'[0] \in {"idle", "stopping", "blocking"}
        /\ task[0] = None /\ task'[0] = None
        /\ pc'[0] \in {"idle", "stopping"} <=> tasks_count = 0
    BY <1>1, ThreadsFinite DEF IInv, ThreadsTyped
  <1>3. /\ \A u \in Threads \ {0} : pc'[u] = pc[u]
        /\ \A u \in Threads \ {0} : task'[u] = task[u] /\ sub'[u] = sub[u]
    BY <1>1 DEF IInv, ThreadsTyped
  <1>4. ThreadsTyped'
    <2>1. pc' \in [Threads -> Points \cup ClientPoints \cup WorkerPoints]
      BY <1>1 DEF IInv, ThreadsTyped, Points, ClientPoints
    <2>2. pc'[0] \notin WorkerPoints
      BY <1>2 DEF WorkerPoints
    <2>3. \A u \in Threads \ {0} : pc'[u] \notin ClientPoints
      BY <1>3 DEF IInv, ThreadsTyped
    <2> QED BY <1>1, <2>1, <2>2 DEF IInv, ThreadsTyped
  <1>5. TaskHeld'
    <2> SUFFICES ASSUME NEW u \in Threads
                 PROVE  /\ pc'[u] \in {"starting", "invoking", "running", "visiting", "releasing"} => task'[u] # None
                        /\ pc'[u] \in {"counting", "pushing", "notifying"}
                           => sub'[u] # None /\ (u # 0 => task'[u] # None)
                        /\ pc'[u] \in {"finishing", "announcing"} \cup ClientPoints \cup WorkerPoints
                                   \cup {"asleep", "woken", "popping", "stealing", "taking", "missed"}
                           => task'[u] = None
      BY DEF TaskHeld
    <2>1. CASE u = 0
      BY <1>2, <2>1
    <2>2. CASE u # 0
      BY <1>3, <2>2 DEF IInv, TaskHeld
    <2> QED BY <2>1, <2>2
  <1>6. AimTrue'
    BY <1>1 DEF IInv, AimTrue, Victim, ThreadsTyped
  <1>7. Quiet
    <2>1. Busy(0)' <=> Busy(0)
      BY <1>2 DEF Busy
    <2>2. \A u \in Threads \ {0} : Busy(u)' <=> Busy(u)
      BY <1>3 DEF Busy
    <2>3. \A u \in Threads : pc'[u] = "pushing" <=> pc[u] = "pushing"
      BY <1>2, <1>3
    <2>4. Raised' <=> Raised
      BY <1>2 DEF Raised
    <2> QED BY <1>1, <2>1, <2>2, <2>3, <2>4 DEF Quiet
  <1>8. CountExact'
    BY <1>7, QuietCounts
  <1>9. NoLostWakeup'
    BY <1>1, <1>3 DEF IInv, NoLostWakeup
  <1>10. PoolStep
    <2>1. CASE tasks_count = 0
      <3>1. Waits /\ ~ Waits'
        BY <1>2, <2>1 DEF Waits
      <3> QED BY <3>1, <2>1, <1>7, ReturnOfWait
    <2>2. CASE tasks_count # 0
      <3>1. Waits' <=> Waits
        BY <1>2, <2>2 DEF Waits
      <3> QED BY <3>1, <1>7, QuietPool
    <2> QED BY <2>1, <2>2
  <1> QED BY <1>4, <1>5, <1>6, <1>8, <1>9, <1>10 DEF IInv

\* wait() blocks as long as the count has not changed.
LEMMA BlockInv ==
  ASSUME IInv, Block
  PROVE  IInv' /\ PoolStep
  <1>1. ThreadsTyped'
    BY ThreadsFinite
       DEF IInv, ThreadsTyped, Points, ClientPoints, WorkerPoints, Block, Goto, queueVars,
           execVars, countVars
  <1>2. TaskHeld'
    BY DEF IInv, TaskHeld, ClientPoints, WorkerPoints, Block, Goto, queueVars, execVars
  <1>3. AimTrue'
    BY DEF IInv, AimTrue, Victim, ThreadsTyped, Block, Goto, queueVars
  <1>4. Quiet
    BY DEF Quiet, Busy, Raised, Block, Goto, queueVars, execVars, countVars
  <1>5. CountExact'
    BY <1>4, QuietCounts
  <1>6. NoLostWakeup'
    BY DEF IInv, NoLostWakeup, Block, Goto, queueVars
  <1>7. PoolStep
    <2>1. Waits' <=> Waits
      BY DEF Waits, Block, Goto
    <2> QED BY <2>1, <1>4, QuietPool
  <1> QED BY <1>1, <1>2, <1>3, <1>5, <1>6, <1>7 DEF IInv

\* The client helps, or stops helping.
LEMMA WaitForInv ==
  ASSUME IInv, WaitFor
  PROVE  IInv' /\ PoolStep
  <1>1. /\ pc[0] \in {"idle", "helping"} /\ task[0] = None
        /\ pc' = [pc EXCEPT ![0] = "popping"] \/ pc' = [pc EXCEPT ![0] = "idle"]
        /\ attempts' = attempts /\ queues' = queues /\ aim' = aim /\ victim' = victim
        /\ tasks_count' = tasks_count /\ expected' = expected /\ closing' = closing /\ stop' = stop
        /\ task' = task /\ next' = next /\ sub' = sub /\ todo' = todo
    BY ThreadsFinite
       DEF IInv, TaskHeld, WaitFor, Goto, ClientPoints, queueVars, execVars, countVars
  <1>2. /\ pc[0] \in {"idle", "helping"} /\ pc'[0] \in {"idle", "popping"}
        /\ task[0] = None /\ task'[0] = None
    BY <1>1, ThreadsFinite DEF IInv, ThreadsTyped
  <1>3. /\ \A u \in Threads \ {0} : pc'[u] = pc[u]
        /\ \A u \in Threads \ {0} : task'[u] = task[u] /\ sub'[u] = sub[u]
    BY <1>1 DEF IInv, ThreadsTyped
  <1>4. ThreadsTyped'
    <2>1. pc' \in [Threads -> Points \cup ClientPoints \cup WorkerPoints]
      BY <1>1 DEF IInv, ThreadsTyped, Points, ClientPoints
    <2>2. pc'[0] \notin WorkerPoints
      BY <1>2 DEF WorkerPoints
    <2>3. \A u \in Threads \ {0} : pc'[u] \notin ClientPoints
      BY <1>3 DEF IInv, ThreadsTyped
    <2> QED BY <1>1, <2>1, <2>2 DEF IInv, ThreadsTyped
  <1>5. TaskHeld'
    <2> SUFFICES ASSUME NEW u \in Threads
                 PROVE  /\ pc'[u] \in {"starting", "invoking", "running", "visiting", "releasing"} => task'[u] # None
                        /\ pc'[u] \in {"counting", "pushing", "notifying"}
                           => sub'[u] # None /\ (u # 0 => task'[u] # None)
                        /\ pc'[u] \in {"finishing", "announcing"} \cup ClientPoints \cup WorkerPoints
                                   \cup {"asleep", "woken", "popping", "stealing", "taking", "missed"}
                           => task'[u] = None
      BY DEF TaskHeld
    <2>1. CASE u = 0
      BY <1>2, <2>1
    <2>2. CASE u # 0
      BY <1>3, <2>2 DEF IInv, TaskHeld
    <2> QED BY <2>1, <2>2
  <1>6. AimTrue'
    BY <1>1 DEF IInv, AimTrue, Victim, ThreadsTyped
  <1>7. Quiet
    <2>1. Busy(0)' <=> Busy(0)
      BY <1>2 DEF Busy
    <2>2. \A u \in Threads \ {0} : Busy(u)' <=> Busy(u)
      BY <1>3 DEF Busy
    <2>3. \A u \in Threads : pc'[u] = "pushing" <=> pc[u] = "pushing"
      BY <1>2, <1>3
    <2>4. Raised' <=> Raised
      BY <1>2 DEF Raised
    <2> QED BY <1>1, <2>1, <2>2, <2>3, <2>4 DEF Quiet
  <1>8. CountExact'
    BY <1>7, QuietCounts
  <1>9. NoLostWakeup'
    BY <1>1, <1>3 DEF IInv, NoLostWakeup
  <1>10. PoolStep
    <2>1. Waits' <=> Waits
      BY <1>2 DEF Waits
    <2> QED BY <2>1, <1>7, QuietPool
  <1> QED BY <1>4, <1>5, <1>6, <1>8, <1>9, <1>10 DEF IInv

\* The destructor sets stop_.
LEMMA SetStopInv ==
  ASSUME IInv, SetStop
  PROVE  IInv' /\ PoolStep
  <1>1. ThreadsTyped'
    BY DEF IInv, ThreadsTyped, ClientPoints, WorkerPoints, SetStop, Goto, queueVars, execVars
  <1>2. TaskHeld'
    BY DEF IInv, TaskHeld, ClientPoints, SetStop, Goto, execVars
  <1>3. AimTrue'
    <2> SUFFICES ASSUME NEW t \in Threads
                 PROVE  aim'[t] => pc'[t] = "taking" /\ queues'[Victim(t)'] # <<>>
      BY DEF AimTrue
    <2>1. queues' = queues /\ aim' = aim /\ victim' = victim
      BY DEF SetStop, queueVars, execVars
    <2>2. aim[t] => pc'[t] = "taking"
      BY DEF IInv, AimTrue, ThreadsTyped, SetStop, Goto
    <2> QED BY <2>1, <2>2, AimKept DEF IInv
  <1>4. Quiet
    BY DEF Quiet, Busy, Raised, SetStop, Goto, queueVars, execVars
  <1>5. CountExact'
    BY <1>4, QuietCounts
  <1>6. NoLostWakeup'
    BY DEF IInv, NoLostWakeup, SetStop, Goto, queueVars
  <1>7. PoolStep
    <2>1. Waits' <=> Waits
      BY DEF Waits, SetStop, Goto
    <2> QED BY <2>1, <1>4, QuietPool
  <1> QED BY <1>1, <1>2, <1>3, <1>5, <1>6, <1>7 DEF IInv

\* The destructor raises the count.
LEMMA RaiseCountInv ==
  ASSUME IInv, RaiseCount
  PROVE  IInv' /\ PoolStep
  <1>1. /\ pc[0] = "raising" /\ pc' = [pc EXCEPT ![0] = "rousing"]
        /\ tasks_count' = tasks_count + QueuesCount
        /\ UNCHANGED <<queues, aim, victim, attempts, task, next, todo, sub, expected, closing, stop>>
    BY DEF RaiseCount, Goto, queueVars, execVars
  <1>2. ThreadsTyped'
    <2>1. tasks_count + QueuesCount \in Nat
      BY ThreadsFinite DEF IInv, ThreadsTyped
    <2>2. /\ pc' \in [Threads -> Points \cup ClientPoints \cup WorkerPoints]
          /\ pc'[0] \notin WorkerPoints
          /\ \A u \in Threads \ {0} : pc'[u] \notin ClientPoints
      BY <1>1 DEF IInv, ThreadsTyped, ClientPoints, WorkerPoints
    <2> QED BY <1>1, <2>1, <2>2 DEF IInv, ThreadsTyped
  <1>3. TaskHeld'
    BY <1>1 DEF IInv, TaskHeld, ClientPoints
  <1>4. AimTrue'
    BY <1>1 DEF IInv, AimTrue, Victim
  <1>5. /\ BusyThreads' = BusyThreads /\ PushingThreads' = PushingThreads
        /\ ~ Raised /\ Raised' /\ ~ Waits /\ ~ Waits'
    BY <1>1, ThreadsFinite
       DEF IInv, ThreadsTyped, BusyThreads, Busy, PushingThreads, Raised, Waits
  <1>6. Queued' = Queued
    BY <1>1 DEF Queued
  <1>7. CountExact'
    <2> DEFINE q == Queued
               b == Cardinality(BusyThreads)
               p == Cardinality(PushingThreads)
    <2>1. tasks_count = q + b + p + 0
      BY <1>5 DEF IInv, CountExact, BusyThreads, PushingThreads, Raised
    <2>2. q \in Nat /\ b \in Nat /\ p \in Nat /\ QueuesCount \in Nat
      <3>1. queues \in [Threads -> Seq(Tasks)]
        BY DEF IInv, ThreadsTyped
      <3> QED BY <3>1, QueuedCounts, PlacesFinite, CountsFinite, ThreadsFinite
    <2>3. tasks_count' = q + b + p + QueuesCount
      <3> HIDE DEF q, b, p
      <3> QED BY <1>1, <2>1, <2>2
    <2>4. q' = q /\ b' = b /\ p' = p
      BY <1>5, <1>6
    <2> QED BY <2>3, <2>4, <1>5 DEF CountExact, BusyThreads, PushingThreads, Raised
  <1>8. NoLostWakeup'
    BY <1>1 DEF IInv, NoLostWakeup
  <1>9. PoolStep
    BY <1>5, <1>6 DEF PoolStep, Pool!poolVars, BusyThreads, PushingThreads, Waits
  <1> QED BY <1>2, <1>3, <1>4, <1>7, <1>8, <1>9 DEF IInv

\* The destructor wakes everybody up.
LEMMA RouseInv ==
  ASSUME IInv, Rouse
  PROVE  IInv' /\ PoolStep
  <1>1. ThreadsTyped'
    BY ThreadsFinite
       DEF IInv, ThreadsTyped, Points, ClientPoints, WorkerPoints, Rouse, NotifyAll, Asleep,
           queueVars, execVars, countVars
  <1>2. TaskHeld'
    BY ThreadsFinite
       DEF IInv, TaskHeld, ThreadsTyped, ClientPoints, WorkerPoints, Rouse, NotifyAll, Asleep, execVars
  <1>3. AimTrue'
    BY DEF IInv, AimTrue, Victim, Rouse, NotifyAll, Asleep, queueVars
  <1>4. Quiet
    BY ThreadsFinite
       DEF Quiet, Busy, Raised, Rouse, NotifyAll, Asleep, queueVars, execVars, countVars
  <1>5. CountExact'
    BY <1>4, QuietCounts
  <1>6. NoLostWakeup'
    BY ThreadsFinite DEF IInv, NoLostWakeup, ThreadsTyped, Rouse, NotifyAll, Asleep, queueVars
  <1>7. PoolStep
    <2>1. Waits' <=> Waits
      BY ThreadsFinite DEF Waits, Rouse, NotifyAll
    <2> QED BY <2>1, <1>4, QuietPool
  <1> QED BY <1>1, <1>2, <1>3, <1>5, <1>6, <1>7 DEF IInv

\* The destructor joins the workers.
LEMMA JoinInv ==
  ASSUME IInv, Join
  PROVE  IInv' /\ PoolStep
  <1>1. ThreadsTyped'
    BY DEF IInv, ThreadsTyped, ClientPoints, WorkerPoints, Join, Goto, queueVars, execVars,
           countVars
  <1>2. TaskHeld'
    BY DEF IInv, TaskHeld, ThreadsTyped, ClientPoints, Join, Goto, execVars
  <1>3. AimTrue'
    BY DEF IInv, AimTrue, Join, queueVars
  <1>4. Quiet
    BY DEF Quiet, Busy, Raised, Join, Goto, queueVars, countVars
  <1>5. CountExact'
    BY <1>4, QuietCounts
  <1>6. NoLostWakeup'
    BY ThreadsFinite DEF IInv, NoLostWakeup, Join, Goto, countVars
  <1>7. PoolStep
    <2>1. Waits' <=> Waits
      BY DEF Waits, Join, Goto
    <2> QED BY <2>1, <1>4, QuietPool
  <1> QED BY <1>1, <1>2, <1>3, <1>5, <1>6, <1>7 DEF IInv

-----------------------------------------------------------------------------
(* The whole pool                                                          *)

\* The pool starts empty.
LEMMA InitIInv == Init => IInv /\ Pool!PoolInit
  <1> SUFFICES ASSUME Init
               PROVE  IInv /\ Pool!PoolInit
    OBVIOUS
  <1>1. ThreadsTyped
    <2>1. <<>> \in Seq(Tasks)
      OBVIOUS
    <2>2. 0 \in 0 .. Workers /\ 0 \in 0 .. MaxAttempts + 1
      BY ConstantsTyped
    <2>3. /\ pc \in [Threads -> Points \cup ClientPoints \cup WorkerPoints]
          /\ pc[0] \notin WorkerPoints
          /\ \A u \in Threads \ {0} : pc[u] \notin ClientPoints
      BY ThreadsFinite DEF Init, Points, ClientPoints, WorkerPoints
    <2> QED BY <2>1, <2>2, <2>3 DEF Init, ThreadsTyped
  <1>2. TaskHeld /\ AimTrue
    BY ThreadsFinite DEF Init, TaskHeld, AimTrue, ClientPoints, WorkerPoints
  <1>3. BusyThreads = {} /\ PushingThreads = {}
    BY ThreadsFinite DEF Init, BusyThreads, PushingThreads, Busy
  <1>4. Places(queues) = {}
    <2>1. \A u \in Threads : DOMAIN queues[u] = {}
      BY DEF Init
    <2> QED BY <2>1 DEF Places
  <1>5. /\ Queued = 0 /\ Cardinality(BusyThreads) = 0 /\ Cardinality(PushingThreads) = 0
        /\ ~ Raised /\ ~ Waits
    BY <1>3, <1>4, QueuedCounts, FS_EmptySet, ThreadsFinite DEF Init, Raised, Waits
  <1>6. CountExact
    BY <1>5 DEF Init, CountExact, BusyThreads, PushingThreads, Raised
  <1>7. NoLostWakeup
    BY DEF Init, NoLostWakeup
  <1>8. Pool!PoolInit
    BY <1>5 DEF Pool!PoolInit, BusyThreads, PushingThreads, Waits
  <1> QED BY <1>1, <1>2, <1>6, <1>7, <1>8 DEF IInv

\* Every step of the pool keeps the invariant, and is a step of JobPool or none.
LEMMA NextIInv == IInv /\ graph \in Graphs /\ [Next]_vars => IInv' /\ PoolStep
  <1> SUFFICES ASSUME IInv, graph \in Graphs, [Next]_vars
               PROVE  IInv' /\ PoolStep
    OBVIOUS
  <1>1. ASSUME NEW t \in Threads, Step(t)
        PROVE  IInv' /\ PoolStep
    <2>1. CASE Submit(t)
      BY <2>1, CountTaskInv, PushTaskInv, NotifyOneInv DEF Submit
    <2>2. CASE GetTask(t)
      BY <2>2, PopOwnInv, LookAtFrontInv, TakeFrontInv, MissInv DEF GetTask
    <2>3. CASE Recheck(t)
      BY <2>3, RecheckInv
    <2>4. CASE Execute(t)
      BY <2>4, StartInv, InvokeInv, FunctionSubmitsInv, FunctionReturnsInv, VisitSuccessorInv,
         EndTaskInv, FinishInv, AnnounceInv
         DEF Execute
    <2> QED BY <1>1, <2>1, <2>2, <2>3, <2>4 DEF Step
  <1>2. CASE \E t \in Threads \ {0} : WorkerStep(t)
    BY <1>1, <1>2, LoopInv DEF WorkerStep
  <1>3. CASE ClientStep
    BY <1>1, <1>3, ThreadsFinite, LoadCountInv, BlockInv, SetStopInv, RaiseCountInv, RouseInv,
       JoinInv
       DEF ClientStep, WaitStep
  <1>4. CASE \/ \E r \in Roots : ClientSubmits(r)
             \/ \E k \in Cancellable : Cancel(k)
             \/ \E k \in Resettable : Reset(k)
    <2>1. Roots \subseteq Tasks
      BY DEF Roots
    <2> QED BY <1>4, <2>1, GraphsTyped, ClientSubmitsInv, CancelInv, ResetInv
  <1>5. CASE Wait \/ WaitFor
    BY <1>5, WaitInv, WaitForInv
  <1>6. CASE UNCHANGED vars
    <2>1. Quiet /\ (Waits' <=> Waits)
      BY <1>6 DEF vars, queueVars, execVars, countVars, Quiet, Busy, Raised, Waits
    <2>2. CountExact' /\ PoolStep
      BY <2>1, QuietCounts, QuietPool
    <2> QED BY <1>6, <2>2
         DEF vars, queueVars, execVars, countVars, IInv, ThreadsTyped, TaskHeld, AimTrue,
             Victim, NoLostWakeup
  <1> QED BY <1>2, <1>3, <1>4, <1>5, <1>6 DEF Next, Terminating

\* The client's graph stays what it is.
LEMMA GraphKept == Spec => [](graph \in Graphs)
  <1>1. Init => graph \in Graphs
    BY DEF Init
  <1>2. graph \in Graphs /\ [Next]_vars => (graph \in Graphs)'
    BY DEF Next, vars, graphVars, WorkerStep, ClientStep, Step, WaitStep, Submit, GetTask, Execute,
           CountTask, PushTask, NotifyOne, Loop, Recheck, PopOwn, LookAtFront, TakeFront, Miss,
           Start, Invoke, FunctionSubmits, FunctionReturns, VisitSuccessor, EndTask, Finish,
           Announce, ClientSubmits, Cancel, Reset, Wait, LoadCount, Block, WaitFor, SetStop,
           RaiseCount, Rouse, Join, Terminating
  <1> QED BY <1>1, <1>2, PTL DEF Spec

\* IInv is an invariant of the pool.
THEOREM Invariance == Spec => []IInv
  <1>1. Init => IInv
    BY InitIInv
  <1>2. IInv /\ graph \in Graphs /\ [Next]_vars => IInv'
    BY NextIInv
  <1> QED BY <1>1, <1>2, GraphKept, PTL DEF Spec

\* The threads, their queues and the counts keep their types.
THEOREM TypeCorrect == Spec => []ThreadsTyped
  <1>1. IInv => ThreadsTyped
    BY DEF IInv
  <1> QED BY <1>1, Invariance, PTL

\* tasks_count_ counts at every moment what is queued, being pushed or being
\* executed, and nothing else (threadpool.cpp:250, 353).
THEOREM CountIsExact == Spec => []CountExact
  <1>1. IInv => CountExact
    BY DEF IInv
  <1> QED BY <1>1, Invariance, PTL

\* The pool does not sleep over work in a queue (threadpool.cpp:316).
THEOREM NoWakeupLost == Spec => []NoLostWakeup
  <1>1. IInv => NoLostWakeup
    BY DEF IInv
  <1> QED BY <1>1, Invariance, PTL

\* wait() returns only when there is nothing left of what was promised: the
\* pool implements JobPool (threadpool.cpp:300).
THEOREM Refinement == Spec => ImplementsJobPool
  <1>1. Init => Pool!PoolInit
    BY InitIInv
  <1>2. IInv /\ graph \in Graphs /\ [Next]_vars => [Pool!PoolNext]_(Pool!poolVars)
    BY NextIInv DEF PoolStep
  <1> QED BY <1>1, <1>2, GraphKept, Invariance, PTL DEF Spec, ImplementsJobPool, Pool!PoolSpec

=============================================================================
