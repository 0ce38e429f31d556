-------------------------- MODULE ContainersProofs --------------------------
(***************************************************************************)
(* Proofs about the containers, for any threads, items and capacities: no  *)
(* slot of a ring is lost or shared, nobody is forgotten asleep, the three *)
(* rings are first-in, first-out queues, and the deque hands each item out *)
(* once.  What is proved of locking_queue is taken over for each of the    *)
(* three ways in which it is used.                                         *)
(***************************************************************************)
EXTENDS MCContainers, FiniteSetTheorems, SequenceTheorems, TLAPS

BlockingProofs ==
    INSTANCE LockingQueueProofs
    WITH pc <- lpc, head <- lhead, tail <- ltail, buffer <- lbuffer, out <- lout,
         Pushers <- Producers, TryPushers <- Producers, Poppers <- Consumers,
         TryPoppers <- {}, Drainers <- {}

DrainingProofs ==
    INSTANCE LockingQueueProofs
    WITH pc <- lpc, head <- lhead, tail <- ltail, buffer <- lbuffer, out <- lout,
         Pushers <- Producers, TryPushers <- {}, Poppers <- {},
         TryPoppers <- {}, Drainers <- {Loop}

TryingProofs ==
    INSTANCE LockingQueueProofs
    WITH pc <- lpc, head <- lhead, tail <- ltail, buffer <- lbuffer, out <- lout,
         Pushers <- {}, TryPushers <- Producers, Poppers <- Consumers,
         TryPoppers <- Consumers, Drainers <- {}

(***************************************************************************)
(* spsc_lock_free_queue.                                                   *)
(***************************************************************************)

LEMMA CapacityPositive == Capacity \in Nat \ {0}
<1>1. PICK n \in 1 .. Capacity : Capacity = 2^n
  BY SpscAssumption
<1> QED
  BY <1>1, SpscAssumption

\* The mask steps to the next slot, and round from the last to the first; no
\* two slots have the same next one.
LEMMA NextSlot ==
    ASSUME NEW i \in Slots, NEW j \in Slots
    PROVE  /\ NextIndex(i) = IF i = Capacity - 1 THEN 0 ELSE i + 1
           /\ NextIndex(i) \in Slots
           /\ NextIndex(i) = NextIndex(j) => i = j
<1>1. /\ NextIndex(i) = IF i = Capacity - 1 THEN 0 ELSE i + 1
      /\ NextIndex(j) = IF j = Capacity - 1 THEN 0 ELSE j + 1
  BY CapacityPositive, BlockingProofs!RingNext DEF NextIndex, Slots
<1> QED
  BY <1>1, CapacityPositive DEF Slots

\* The number of items in the ring.
SpscFilled == (tail + Capacity - head) % Capacity

LEMMA SpscRing ==
    ASSUME head \in Slots, tail \in Slots
    PROVE  /\ SpscFilled = IF head <= tail THEN tail - head ELSE tail + Capacity - head
           /\ SpscFilled \in 0 .. Capacity - 1
           /\ (head + SpscFilled) % Capacity = tail
<1>1. SpscFilled = IF head <= tail THEN tail - head ELSE tail + Capacity - head
  BY CapacityPositive, BlockingProofs!RingDistance DEF Slots, SpscFilled
<1>2. SpscFilled \in 0 .. Capacity - 1
  BY <1>1, CapacityPositive DEF Slots
<1>3. (head + SpscFilled) % Capacity = tail
  <2> DEFINE k == head + SpscFilled
  <2>1. k \in 0 .. 2 * Capacity - 1 /\ k = IF head <= tail THEN tail ELSE tail + Capacity
    BY <1>1, CapacityPositive DEF Slots
  <2>2. k % Capacity = IF k < Capacity THEN k ELSE k - Capacity
    <3> HIDE DEF k
    <3> QED
      BY CapacityPositive, <2>1, BlockingProofs!GoesRound
  <2> QED
    BY <2>1, <2>2, CapacityPositive DEF Slots
<1> QED
  BY <1>1, <1>2, <1>3

\* The producer that has seen room fills the last but one free slot at most,
\* and the consumer that has seen an item keeps seeing it: each of them relies
\* on an index that only the other one moves, and only in its favour.  What was
\* written and what was read is in the slot until the index has moved.
RInv ==
    /\ TypeOK
    /\ producer # "idle" => NextIndex(tail) # head /\ input \in Items
    /\ producer = "publishing" => buffer[tail] = input
    /\ consumer # "idle" => head # tail
    /\ consumer = "publishing" => item = buffer[head]

LEMMA InitRInv == Init => RInv
<1>1. 0 \in Slots
  BY CapacityPositive DEF Slots
<1> QED
  BY <1>1 DEF Init, RInv, TypeOK

LEMMA NextRInv == RInv /\ [Next]_vars => RInv'
<1> SUFFICES ASSUME RInv, [Next]_vars
             PROVE  RInv'
  OBVIOUS
<1> USE DEF RInv, TypeOK
<1>1. CASE PushLook
  BY <1>1 DEF PushLook, HasRoom, NextIndex
\* The consumer, if it is at its slot, is not at the one that is written.
<1>2. CASE PushWrite
  BY <1>2 DEF PushWrite, NextIndex
\* The tail moves away from the head, if it is there, and not onto it.
<1>3. CASE PushPublish
  <2>1. NextIndex(tail) \in Slots /\ NextIndex(tail) # head
    BY <1>3, NextSlot DEF PushPublish
  <2> QED
    BY <1>3, <2>1 DEF PushPublish
<1>4. CASE PopLook
  BY <1>4 DEF PopLook, HasItem, NextIndex
<1>5. CASE PopRead
  BY <1>5 DEF PopRead, NextIndex
\* The head moves on from a slot that is not the tail, so that the slot after
\* the tail is not the one it comes to.
<1>6. CASE PopPublish
  <2>1. head # tail
    BY <1>6 DEF PopPublish
  <2>2. NextIndex(head) \in Slots /\ NextIndex(tail) # NextIndex(head)
    BY <2>1, NextSlot
  <2>3. tail' = tail /\ head' = NextIndex(head) /\ NextIndex(tail)' = NextIndex(tail)
    BY <1>6 DEF PopPublish, NextIndex
  <2> QED
    BY <1>6, <2>2, <2>3 DEF PopPublish
<1>7. CASE UNCHANGED vars
  BY <1>7 DEF vars, NextIndex
<1> QED
  BY <1>1, <1>2, <1>3, <1>4, <1>5, <1>6, <1>7 DEF Next

\* push() puts its item into the queue when it moves the tail, and pop() takes
\* it when it moves the head; the slot that is written is outside of the queue.
LEMMA NextQueues ==
    ASSUME RInv, [Next]_vars
    PROVE  [Queue!QueueNext]_(Queue!queueVars)
<1> DEFINE Cells == Items \cup {None}
           n == SpscFilled
<1>1. /\ head \in 0 .. Capacity - 1 /\ tail \in 0 .. Capacity - 1
      /\ buffer \in [0 .. Capacity - 1 -> Cells]
      /\ n \in 0 .. Capacity - 1 /\ (head + n) % Capacity = tail
  BY SpscRing DEF RInv, TypeOK, Slots
<1>2. Content = BlockingProofs!RingItems(Capacity, head, n, buffer)
  BY DEF Content, SpscFilled, BlockingProofs!RingItems
<1>3. CASE PushWrite
  <2>1. /\ buffer' = [buffer EXCEPT ![tail] = input]
        /\ UNCHANGED <<head, tail, out>>
    BY <1>3 DEF PushWrite
  <2>2. Content' = BlockingProofs!RingItems(Capacity, head, n, buffer')
    BY <2>1 DEF Content, SpscFilled, BlockingProofs!RingItems
  <2>3. \A j \in 0 .. Capacity - 1 : j # (head + n) % Capacity => buffer'[j] = buffer[j]
    BY <1>1, <2>1
  <2>4. Content' = Content
    <3> HIDE DEF n
    <3> QED
      BY <1>1, <1>2, <2>2, <2>3, CapacityPositive, BlockingProofs!RingKept
  <2> QED
    BY <2>1, <2>4 DEF Queue!queueVars
<1>4. CASE PushPublish
  <2>1. /\ producer = "publishing" /\ tail' = NextIndex(tail)
        /\ UNCHANGED <<head, buffer, out>>
    BY <1>4 DEF PushPublish
  <2>2. input \in Items /\ buffer[tail] = input /\ NextIndex(tail) # head
    BY <2>1 DEF RInv
  <2>3. n # Capacity - 1 /\ SpscFilled' = n + 1
    <3>1. NextIndex(tail) = (IF tail = Capacity - 1 THEN 0 ELSE tail + 1) /\ NextIndex(tail) \in Slots
      BY NextSlot DEF RInv, TypeOK
    <3>2. SpscFilled' = IF head' <= tail' THEN tail' - head' ELSE tail' + Capacity - head'
      BY <2>1, <3>1, CapacityPositive, BlockingProofs!RingDistance DEF Slots, SpscFilled, RInv, TypeOK
    <3>3. n = IF head <= tail THEN tail - head ELSE tail + Capacity - head
      BY SpscRing DEF RInv, TypeOK
    <3> QED
      BY <1>1, <2>1, <2>2, <3>1, <3>2, <3>3, CapacityPositive
  <2>4. Content' = BlockingProofs!RingItems(Capacity, head, n + 1, buffer)
    BY <2>1, <2>3 DEF Content, SpscFilled, BlockingProofs!RingItems
  <2>5. Content' = Append(Content, input)
    <3> HIDE DEF n, Cells
    <3> QED
      BY <1>1, <1>2, <2>2, <2>4, CapacityPositive, BlockingProofs!RingAppend
  <2>6. Len(Content) < Capacity - 1
    <3> HIDE DEF n
    <3> QED
      BY <1>1, <1>2, <2>3, CapacityPositive DEF BlockingProofs!RingItems
  <2> QED
    BY <2>1, <2>2, <2>5, <2>6 DEF Queue!QueueNext, Queue!Enqueue
<1>5. CASE PopPublish
  <2>1. /\ consumer = "publishing" /\ head' = NextIndex(head) /\ out' = item
        /\ UNCHANGED <<tail, buffer>>
    BY <1>5 DEF PopPublish
  <2>2. item = buffer[head] /\ head # tail
    BY <2>1 DEF RInv
  <2>3. n # 0 /\ SpscFilled' = n - 1
    <3>1. NextIndex(head) = (IF head = Capacity - 1 THEN 0 ELSE head + 1) /\ NextIndex(head) \in Slots
      BY NextSlot DEF RInv, TypeOK
    <3>2. SpscFilled' = IF head' <= tail' THEN tail' - head' ELSE tail' + Capacity - head'
      BY <2>1, <3>1, CapacityPositive, BlockingProofs!RingDistance DEF Slots, SpscFilled, RInv, TypeOK
    <3>3. n = IF head <= tail THEN tail - head ELSE tail + Capacity - head
      BY SpscRing DEF RInv, TypeOK
    <3> QED
      BY <1>1, <2>1, <2>2, <3>1, <3>2, <3>3, CapacityPositive
  <2>4. Content' = BlockingProofs!RingItems(Capacity, (head + 1) % Capacity, n - 1, buffer)
    BY <2>1, <2>3 DEF Content, SpscFilled, NextIndex, BlockingProofs!RingItems
  <2>5. n \in 1 .. Capacity
    BY <1>1, <2>3, CapacityPositive
  <2>6. Content # <<>> /\ Head(Content) = buffer[head] /\ Tail(Content) = Content'
    <3> HIDE DEF n, Cells
    <3> QED
      BY ZenonT(60), <1>1, <1>2, <2>4, <2>5, CapacityPositive, BlockingProofs!RingTake
  <2> QED
    BY <2>1, <2>2, <2>6 DEF Queue!QueueNext, Queue!Dequeue
<1>6. CASE PushLook \/ PopLook \/ PopRead \/ UNCHANGED vars
  BY <1>6 DEF PushLook, PopLook, PopRead, vars, Queue!queueVars, Content
<1> QED
  BY <1>3, <1>4, <1>5, <1>6 DEF Next

LEMMA InitQueues == Init => Queue!QueueInit
<1>1. ASSUME Init
      PROVE  SpscFilled = 0
  BY <1>1, InitRInv, SpscRing DEF Init, RInv, TypeOK
<1> QED
  BY <1>1 DEF Init, Queue!QueueInit, Content, SpscFilled

(***************************************************************************)
(* semaphore_queue.                                                        *)
(***************************************************************************)

\* One thread comes into a set of threads, or goes.
LEMMA OneComes ==
    ASSUME NEW T, IsFiniteSet(T), NEW R \in SUBSET T, NEW S, NEW t \in T \ R, S = R \cup {t}
    PROVE  Cardinality(R) \in Nat /\ Cardinality(S) = Cardinality(R) + 1
BY FS_Subset, FS_CardinalityType, FS_AddElement

LEMMA OneGoes ==
    ASSUME NEW T, IsFiniteSet(T), NEW R \in SUBSET T, NEW S, NEW t \in R, S = R \ {t}
    PROVE  Cardinality(R) \in Nat /\ Cardinality(S) = Cardinality(R) - 1
BY FS_Subset, FS_CardinalityType, FS_RemoveElement

LEMMA Counted ==
    ASSUME NEW T, IsFiniteSet(T), NEW R \in SUBSET T
    PROVE  Cardinality(R) \in Nat
BY FS_Subset, FS_CardinalityType

\* The calls that hold a slot, that have stored, and that are to load an item.
Holders == {t \in Semaphore!Threads : spc[t] \in {"storing", "freeing"}}
Storers == {t \in Semaphore!Threads : spc[t] = "releasing"}
Loaders == {t \in Semaphore!Threads : spc[t] = "loading"}

LEMMA SameCardinality ==
    ASSUME NEW S
    PROVE  Semaphore!Cardinality(S) = Cardinality(S)
BY DEF Cardinality, Semaphore!Cardinality

LEMMA CallsCounted ==
    ASSUME IsFiniteSet(Semaphore!Threads)
    PROVE  /\ Semaphore!Stored = Cardinality(Storers) + semFull + Cardinality(Loaders)
           /\ Semaphore!SlotsExact <=> semEmpty + Cardinality(Holders) + Semaphore!Stored = Capacity
           /\ Cardinality(Holders) \in Nat /\ Cardinality(Storers) \in Nat /\ Cardinality(Loaders) \in Nat
<1>1. Holders \in SUBSET Semaphore!Threads /\ Storers \in SUBSET Semaphore!Threads
      /\ Loaders \in SUBSET Semaphore!Threads
  BY DEF Holders, Storers, Loaders
<1>2. Cardinality(Holders) \in Nat /\ Cardinality(Storers) \in Nat /\ Cardinality(Loaders) \in Nat
  BY <1>1, Counted
<1>3. Semaphore!Stored = Cardinality(Storers) + semFull + Cardinality(Loaders)
  BY SameCardinality DEF Semaphore!Stored, Storers, Loaders
<1>4. Semaphore!SlotsExact <=> semEmpty + Cardinality(Holders) + Semaphore!Stored = Capacity
  BY SameCardinality DEF Semaphore!SlotsExact, Holders
<1> QED
  BY <1>2, <1>3, <1>4

\* The counts and the indices agree on how many items there are.
SInv ==
    /\ Semaphore!TypeOK
    /\ Semaphore!SlotsExact
    /\ stail = (shead + Semaphore!Stored) % Capacity
    /\ \A t \in Semaphore!Threads : spc[t] = "storing" => sitem[t] \in Items

\* A call moves from one set of calls to the next; only a store and a load change
\* how many items there are, and what they take for granted is there.
LEMMA SemaphoreCounts ==
    ASSUME IsFiniteSet(Semaphore!Threads), SInv, NEW t \in Semaphore!Threads,
           Semaphore!PushStep(t) \/ Semaphore!PopStep(t)
    PROVE  /\ Semaphore!SlotsExact'
           /\ Semaphore!PushStore(t) =>
                 Semaphore!Stored \in 0 .. Capacity - 1 /\ Semaphore!Stored' = Semaphore!Stored + 1
           /\ Semaphore!PopLoad(t) =>
                 Semaphore!Stored \in 1 .. Capacity /\ Semaphore!Stored' = Semaphore!Stored - 1
           /\ ~ Semaphore!PushStore(t) /\ ~ Semaphore!PopLoad(t) =>
                 Semaphore!Stored' = Semaphore!Stored
           /\ semEmpty' \in 0 .. Capacity /\ semFull' \in 0 .. Capacity
<1> DEFINE h == Cardinality(Holders)
           s == Cardinality(Storers)
           l == Cardinality(Loaders)
           n == Semaphore!Stored
           e == semEmpty
           f == semFull
<1>1. /\ h \in Nat /\ s \in Nat /\ l \in Nat /\ e \in Nat /\ f \in Nat /\ Capacity \in Nat
      /\ n = s + f + l /\ e + h + n = Capacity
  BY CallsCounted, CapacityPositive DEF SInv, Semaphore!TypeOK
<1>2. /\ h' \in Nat /\ s' \in Nat /\ l' \in Nat
      /\ n' = s' + f' + l'
      /\ Semaphore!SlotsExact' <=> e' + h' + n' = Capacity
  <2>1. Holders' \in SUBSET Semaphore!Threads /\ Storers' \in SUBSET Semaphore!Threads
        /\ Loaders' \in SUBSET Semaphore!Threads
    BY DEF Holders, Storers, Loaders
  <2>2. h' \in Nat /\ s' \in Nat /\ l' \in Nat
    BY <2>1, Counted
  <2>3. n' = s' + f' + l'
    BY SameCardinality DEF Semaphore!Stored, Storers, Loaders
  <2>4. Semaphore!SlotsExact' <=> e' + h' + n' = Capacity
    BY SameCardinality DEF Semaphore!SlotsExact, Holders
  <2> QED
    BY <2>2, <2>3, <2>4
<1>3. /\ Holders \in SUBSET Semaphore!Threads /\ Storers \in SUBSET Semaphore!Threads
      /\ Loaders \in SUBSET Semaphore!Threads
  BY DEF Holders, Storers, Loaders
<1>4. ASSUME NEW p, spc' = [spc EXCEPT ![t] = p]
      PROVE  spc'[t] = p /\ \A u \in Semaphore!Threads \ {t} : spc'[u] = spc[u]
  BY <1>4 DEF SInv, Semaphore!TypeOK
<1> HIDE DEF n
<1>5. CASE Semaphore!PushAcquire(t)
  <2>1. /\ spc[t] = "idle" /\ spc' = [spc EXCEPT ![t] = "storing"]
        /\ e > 0 /\ e' = e - 1 /\ f' = f
    BY <1>5 DEF Semaphore!PushAcquire, Semaphore!Goto
  <2>2. spc'[t] = "storing" /\ \A u \in Semaphore!Threads \ {t} : spc'[u] = spc[u]
    BY <1>4, <2>1
  <2>3. Holders' = Holders \cup {t} /\ t \notin Holders /\ Storers' = Storers /\ Loaders' = Loaders
    BY <2>1, <2>2 DEF Holders, Storers, Loaders
  <2>4. h' = h + 1 /\ s' = s /\ l' = l
    BY <1>3, <2>3, OneComes
  <2>5. n' = n /\ e' + h' + n' = Capacity /\ e' \in 0 .. Capacity /\ f' \in 0 .. Capacity
    <3> HIDE DEF h, s, l, e, f
    <3> QED
      BY <1>1, <1>2, <2>1, <2>4
  <2> QED
    BY <1>2, <2>1, <2>5 DEF Semaphore!PushStore, Semaphore!PopLoad, n
<1>6. CASE Semaphore!PushStore(t)
  <2>1. /\ spc[t] = "storing" /\ spc' = [spc EXCEPT ![t] = "releasing"]
        /\ e' = e /\ f' = f
    BY <1>6 DEF Semaphore!PushStore, Semaphore!Goto
  <2>2. spc'[t] = "releasing" /\ \A u \in Semaphore!Threads \ {t} : spc'[u] = spc[u]
    BY <1>4, <2>1
  <2>3. /\ Holders' = Holders \ {t} /\ t \in Holders
        /\ Storers' = Storers \cup {t} /\ t \notin Storers /\ Loaders' = Loaders
    BY <2>1, <2>2 DEF Holders, Storers, Loaders
  <2>4. h' = h - 1 /\ s' = s + 1 /\ l' = l
    BY <1>3, <2>3, OneComes, OneGoes
  <2>5. /\ n' = n + 1 /\ n \in 0 .. Capacity - 1
        /\ e' + h' + n' = Capacity /\ e' \in 0 .. Capacity /\ f' \in 0 .. Capacity
    <3> HIDE DEF h, s, l, e, f
    <3> QED
      BY <1>1, <1>2, <2>1, <2>4
  <2> QED
    BY <1>2, <1>6, <2>1, <2>5 DEF Semaphore!PopLoad, n
<1>7. CASE Semaphore!PushRelease(t)
  <2>1. /\ spc[t] = "releasing" /\ spc' = [spc EXCEPT ![t] = "idle"]
        /\ e' = e /\ f' = f + 1
    BY <1>7 DEF Semaphore!PushRelease, Semaphore!Goto
  <2>2. spc'[t] = "idle" /\ \A u \in Semaphore!Threads \ {t} : spc'[u] = spc[u]
    BY <1>4, <2>1
  <2>3. Storers' = Storers \ {t} /\ t \in Storers /\ Holders' = Holders /\ Loaders' = Loaders
    BY <2>1, <2>2 DEF Holders, Storers, Loaders
  <2>4. h' = h /\ s' = s - 1 /\ l' = l
    BY <1>3, <2>3, OneGoes
  <2>5. n' = n /\ e' + h' + n' = Capacity /\ e' \in 0 .. Capacity /\ f' \in 0 .. Capacity
    <3> HIDE DEF h, s, l, e, f
    <3> QED
      BY <1>1, <1>2, <2>1, <2>4
  <2> QED
    BY <1>2, <2>1, <2>5 DEF Semaphore!PushStore, Semaphore!PopLoad, n
<1>8. CASE Semaphore!PopAcquire(t)
  <2>1. /\ spc[t] = "idle" /\ spc' = [spc EXCEPT ![t] = "loading"]
        /\ f > 0 /\ e' = e /\ f' = f - 1
    BY <1>8 DEF Semaphore!PopAcquire, Semaphore!FilledSlot, Semaphore!Goto
  <2>2. spc'[t] = "loading" /\ \A u \in Semaphore!Threads \ {t} : spc'[u] = spc[u]
    BY <1>4, <2>1
  <2>3. Loaders' = Loaders \cup {t} /\ t \notin Loaders /\ Holders' = Holders /\ Storers' = Storers
    BY <2>1, <2>2 DEF Holders, Storers, Loaders
  <2>4. h' = h /\ s' = s /\ l' = l + 1
    BY <1>3, <2>3, OneComes
  <2>5. n' = n /\ e' + h' + n' = Capacity /\ e' \in 0 .. Capacity /\ f' \in 0 .. Capacity
    <3> HIDE DEF h, s, l, e, f
    <3> QED
      BY <1>1, <1>2, <2>1, <2>4
  <2> QED
    BY <1>2, <2>1, <2>5 DEF Semaphore!PushStore, Semaphore!PopLoad, n
<1>9. CASE Semaphore!PopLoad(t)
  <2>1. /\ spc[t] = "loading" /\ spc' = [spc EXCEPT ![t] = "freeing"]
        /\ e' = e /\ f' = f
    BY <1>9 DEF Semaphore!PopLoad, Semaphore!Goto
  <2>2. spc'[t] = "freeing" /\ \A u \in Semaphore!Threads \ {t} : spc'[u] = spc[u]
    BY <1>4, <2>1
  <2>3. /\ Holders' = Holders \cup {t} /\ t \notin Holders
        /\ Loaders' = Loaders \ {t} /\ t \in Loaders /\ Storers' = Storers
    BY <2>1, <2>2 DEF Holders, Storers, Loaders
  <2>4. h' = h + 1 /\ s' = s /\ l' = l - 1
    BY <1>3, <2>3, OneComes, OneGoes
  <2>5. /\ n' = n - 1 /\ n \in 1 .. Capacity
        /\ e' + h' + n' = Capacity /\ e' \in 0 .. Capacity /\ f' \in 0 .. Capacity
    <3> HIDE DEF h, s, l, e, f
    <3> QED
      BY <1>1, <1>2, <2>1, <2>4
  <2> QED
    BY <1>2, <1>9, <2>1, <2>5 DEF Semaphore!PushStore, n
<1>10. CASE Semaphore!PopRelease(t)
  <2>1. /\ spc[t] = "freeing" /\ spc' = [spc EXCEPT ![t] = "idle"]
        /\ e' = e + 1 /\ f' = f
    BY <1>10 DEF Semaphore!PopRelease, Semaphore!Goto
  <2>2. spc'[t] = "idle" /\ \A u \in Semaphore!Threads \ {t} : spc'[u] = spc[u]
    BY <1>4, <2>1
  <2>3. Holders' = Holders \ {t} /\ t \in Holders /\ Storers' = Storers /\ Loaders' = Loaders
    BY <2>1, <2>2 DEF Holders, Storers, Loaders
  <2>4. h' = h - 1 /\ s' = s /\ l' = l
    BY <1>3, <2>3, OneGoes
  <2>5. n' = n /\ e' + h' + n' = Capacity /\ e' \in 0 .. Capacity /\ f' \in 0 .. Capacity
    <3> HIDE DEF h, s, l, e, f
    <3> QED
      BY <1>1, <1>2, <2>1, <2>4
  <2> QED
    BY <1>2, <2>1, <2>5 DEF Semaphore!PushStore, Semaphore!PopLoad, n
<1> QED
  BY <1>5, <1>6, <1>7, <1>8, <1>9, <1>10 DEF Semaphore!PushStep, Semaphore!PopStep

LEMMA InitSInv ==
    ASSUME IsFiniteSet(Semaphore!Threads), Semaphore!Init
    PROVE  SInv /\ Semaphore!Queue!QueueInit
<1>1. Semaphore!TypeOK
  BY CapacityPositive DEF Semaphore!Init, Semaphore!TypeOK, Semaphore!Points, Semaphore!Slots
<1>2. Semaphore!Stored = 0 /\ Cardinality(Holders) = 0
  <2>1. Storers = {} /\ Loaders = {} /\ Holders = {} /\ semFull = 0
    BY DEF Semaphore!Init, Storers, Loaders, Holders
  <2> QED
    BY <2>1, CallsCounted, FS_EmptySet
<1>3. Semaphore!SlotsExact /\ stail = (shead + Semaphore!Stored) % Capacity
  <2>1. semEmpty = Capacity /\ shead = 0 /\ stail = 0
    BY DEF Semaphore!Init
  <2>2. 0 % Capacity = 0
    BY CapacityPositive
  <2> QED
    BY <1>2, <2>1, <2>2, CallsCounted, CapacityPositive
<1>4. Semaphore!Queue!QueueInit
  BY <1>2 DEF Semaphore!Init, Semaphore!Queue!QueueInit, Semaphore!Content
<1> QED
  BY <1>1, <1>3, <1>4 DEF SInv, Semaphore!Init

\* The tail goes on with the n-th item, and the head leaves the first.
LEMMA RingEnds ==
    ASSUME NEW C \in Nat \ {0}, NEW h \in 0 .. C - 1, NEW n \in 0 .. C,
           NEW t, t = (h + n) % C
    PROVE  /\ n < C => (t + 1) % C = (h + (n + 1)) % C
           /\ n > 0 => (((h + 1) % C) + (n - 1)) % C = t
           /\ t \in 0 .. C - 1
<1> DEFINE k == h + n
           m == h + (n + 1)
           g == (h + 1) % C
           j == g + (n - 1)
<1>1. k \in 0 .. 2 * C - 1 /\ m = k + 1
  OBVIOUS
<1>2. g = (IF h = C - 1 THEN 0 ELSE h + 1)
  BY BlockingProofs!RingNext
<1>3. t = (IF k < C THEN k ELSE k - C) /\ t \in 0 .. C - 1
  <2> HIDE DEF k
  <2>1. k % C = (IF k < C THEN k ELSE k - C) /\ k % C \in 0 .. C - 1
    BY <1>1, BlockingProofs!GoesRound
  <2>2. t = k % C
    BY DEF k
  <2> QED
    BY <2>1, <2>2
<1>4. ASSUME n < C
      PROVE  (t + 1) % C = m % C
  <2>1. m \in 0 .. 2 * C - 1
    BY <1>4
  <2>2. m % C = (IF m < C THEN m ELSE m - C)
    <3> HIDE DEF m
    <3> QED
      BY <2>1, BlockingProofs!GoesRound
  <2>3. (t + 1) % C = (IF t = C - 1 THEN 0 ELSE t + 1)
    BY <1>3, BlockingProofs!RingNext
  <2> QED
    BY <1>1, <1>3, <1>4, <2>2, <2>3
<1>5. ASSUME n > 0
      PROVE  j % C = t
  <2> HIDE DEF g
  <2>1. j \in 0 .. 2 * C - 1 /\ j = (IF h = C - 1 THEN k - C ELSE k)
    BY <1>2, <1>5
  <2> HIDE DEF j
  <2>2. j % C = (IF j < C THEN j ELSE j - C)
    BY <2>1, BlockingProofs!GoesRound
  <2> QED
    BY <1>1, <1>3, <1>5, <2>1, <2>2
<1> QED
  BY <1>3, <1>4, <1>5

LEMMA NextSInv ==
    ASSUME IsFiniteSet(Semaphore!Threads), SInv, Semaphore!Next
    PROVE  SInv'
<1>1. PICK t \in Semaphore!Threads : Semaphore!PushStep(t) \/ Semaphore!PopStep(t)
  BY DEF Semaphore!Next, Semaphore!Threads
<1> DEFINE n == Semaphore!Stored
<1>2. n \in 0 .. Capacity /\ Capacity \in Nat \ {0}
  <2>1. /\ semEmpty \in Nat /\ semFull \in Nat /\ semEmpty + Cardinality(Holders) + n = Capacity
        /\ n = Cardinality(Storers) + semFull + Cardinality(Loaders)
        /\ Cardinality(Holders) \in Nat /\ Cardinality(Storers) \in Nat /\ Cardinality(Loaders) \in Nat
    BY CallsCounted, CapacityPositive DEF SInv, Semaphore!TypeOK
  <2> DEFINE h == Cardinality(Holders)
             s == Cardinality(Storers)
             l == Cardinality(Loaders)
  <2> HIDE DEF h, s, l, n
  <2> QED
    BY <2>1, CapacityPositive DEF h, s, l
<1>3. /\ shead \in 0 .. Capacity - 1 /\ stail = (shead + n) % Capacity
      /\ n < Capacity => Semaphore!NextIndex(stail) = (shead + (n + 1)) % Capacity
      /\ n > 0 => (Semaphore!NextIndex(shead) + (n - 1)) % Capacity = stail
      /\ Semaphore!NextIndex(stail) \in Semaphore!Slots
      /\ Semaphore!NextIndex(shead) \in Semaphore!Slots
  <2>1. shead \in 0 .. Capacity - 1 /\ stail \in 0 .. Capacity - 1 /\ stail = (shead + n) % Capacity
    BY DEF SInv, Semaphore!TypeOK, Semaphore!Slots
  <2>2. /\ n < Capacity => (stail + 1) % Capacity = (shead + (n + 1)) % Capacity
        /\ n > 0 => (((shead + 1) % Capacity) + (n - 1)) % Capacity = stail
    <3> HIDE DEF n
    <3> QED
      BY <1>2, <2>1, RingEnds
  <2>3. (stail + 1) % Capacity \in 0 .. Capacity - 1 /\ (shead + 1) % Capacity \in 0 .. Capacity - 1
    BY <1>2, <2>1, BlockingProofs!RingNext
  <2> QED
    BY <2>1, <2>2, <2>3 DEF Semaphore!NextIndex, Semaphore!Slots
<1>4. stail' = (shead' + n') % Capacity
  <2>1. CASE Semaphore!PushStore(t)
    <3>1. n < Capacity /\ n' = n + 1
      BY <1>1, <1>2, <2>1, SemaphoreCounts
    <3>2. stail' = Semaphore!NextIndex(stail) /\ shead' = shead
      BY <2>1 DEF Semaphore!PushStore
    <3> QED
      BY <1>3, <3>1, <3>2
  <2>2. CASE Semaphore!PopLoad(t)
    BY <1>1, <1>2, <1>3, <2>2, SemaphoreCounts DEF Semaphore!PopLoad
  <2>3. CASE ~ Semaphore!PushStore(t) /\ ~ Semaphore!PopLoad(t)
    <3>1. n' = n
      BY <1>1, <2>3, SemaphoreCounts
    <3>2. UNCHANGED <<shead, stail>>
      BY <1>1, <2>3 DEF Semaphore!PushStep, Semaphore!PopStep, Semaphore!PushAcquire,
         Semaphore!PushRelease, Semaphore!PopAcquire, Semaphore!PopRelease
    <3> QED
      BY <1>3, <3>1, <3>2
  <2> QED
    BY <2>1, <2>2, <2>3
<1>5. /\ Semaphore!SlotsExact' /\ semEmpty' \in 0 .. Capacity /\ semFull' \in 0 .. Capacity
  BY <1>1, SemaphoreCounts
<1>6. /\ Semaphore!TypeOK'
      /\ \A u \in Semaphore!Threads : spc'[u] = "storing" => sitem'[u] \in Items
  <2> USE DEF Semaphore!Goto, Semaphore!Points
  <2>1. /\ Semaphore!TypeOK /\ \A u \in Semaphore!Threads : spc[u] = "storing" => sitem[u] \in Items
    BY DEF SInv
  <2>2. CASE Semaphore!PushAcquire(t)
    BY <1>5, <2>1, <2>2 DEF Semaphore!PushAcquire, Semaphore!TypeOK
  <2>3. CASE Semaphore!PushStore(t)
    BY <1>3, <1>5, <2>1, <2>3 DEF Semaphore!PushStore, Semaphore!TypeOK
  <2>4. CASE Semaphore!PushRelease(t)
    BY <1>5, <2>1, <2>4 DEF Semaphore!PushRelease, Semaphore!TypeOK
  <2>5. CASE Semaphore!PopAcquire(t)
    BY <1>5, <2>1, <2>5 DEF Semaphore!PopAcquire, Semaphore!TypeOK
  <2>6. CASE Semaphore!PopLoad(t)
    BY <1>3, <1>5, <2>1, <2>6 DEF Semaphore!PopLoad, Semaphore!TypeOK
  <2>7. CASE Semaphore!PopRelease(t)
    BY <1>5, <2>1, <2>7 DEF Semaphore!PopRelease, Semaphore!TypeOK
  <2> QED
    BY <1>1, <2>2, <2>3, <2>4, <2>5, <2>6, <2>7 DEF Semaphore!PushStep, Semaphore!PopStep
<1> QED
  BY <1>4, <1>5, <1>6 DEF SInv

\* push() puts its item into the queue when it stores, and pop() takes it when it
\* loads, whoever has released or waited for which slot.
LEMMA NextSemaphoreQueues ==
    ASSUME IsFiniteSet(Semaphore!Threads), SInv, Semaphore!Next
    PROVE  [Semaphore!Queue!QueueNext]_(Semaphore!Queue!queueVars)
<1>1. PICK t \in Semaphore!Threads : Semaphore!PushStep(t) \/ Semaphore!PopStep(t)
  BY DEF Semaphore!Next, Semaphore!Threads
<1> DEFINE Cells == Items \cup {None}
           n == Semaphore!Stored
<1>2. /\ shead \in 0 .. Capacity - 1 /\ stail \in 0 .. Capacity - 1 /\ stail = (shead + n) % Capacity
      /\ sbuffer \in [0 .. Capacity - 1 -> Cells]
  BY DEF SInv, Semaphore!TypeOK, Semaphore!Slots
<1>3. Semaphore!Content = BlockingProofs!RingItems(Capacity, shead, n, sbuffer)
  BY DEF Semaphore!Content, BlockingProofs!RingItems
<1>4. CASE Semaphore!PushStore(t)
  <2>1. /\ spc[t] = "storing" /\ sbuffer' = [sbuffer EXCEPT ![stail] = sitem[t]]
        /\ UNCHANGED <<shead, sout>>
    BY <1>4 DEF Semaphore!PushStore
  <2>2. n \in 0 .. Capacity - 1 /\ n' = n + 1
    BY <1>1, <1>4, SemaphoreCounts
  <2>3. sitem[t] \in Items
    BY <2>1 DEF SInv
  <2>4. sbuffer' \in [0 .. Capacity - 1 -> Cells] /\ sbuffer'[(shead + n) % Capacity] = sitem[t]
    BY <1>2, <2>1, <2>3
  <2>5. Semaphore!Content' = BlockingProofs!RingItems(Capacity, shead, n + 1, sbuffer')
    BY <2>1, <2>2 DEF Semaphore!Content, BlockingProofs!RingItems
  <2>6. BlockingProofs!RingItems(Capacity, shead, n + 1, sbuffer')
           = Append(BlockingProofs!RingItems(Capacity, shead, n, sbuffer'), sitem[t])
    <3> DEFINE b == sbuffer'
    <3>1. /\ n \in 0 .. Capacity - 1 /\ b \in [0 .. Capacity - 1 -> Cells]
          /\ b[(shead + n) % Capacity] = sitem[t]
      BY <2>2, <2>4
    <3> HIDE DEF Cells, n, b
    <3>2. BlockingProofs!RingItems(Capacity, shead, n + 1, b)
             = Append(BlockingProofs!RingItems(Capacity, shead, n, b), b[(shead + n) % Capacity])
      BY <1>2, <3>1, CapacityPositive, BlockingProofs!RingAppend
    <3> QED
      BY <3>1, <3>2 DEF b
  <2>7. BlockingProofs!RingItems(Capacity, shead, n, sbuffer') = Semaphore!Content
    <3>1. \A j \in 0 .. Capacity - 1 : j # (shead + n) % Capacity => sbuffer'[j] = sbuffer[j]
      BY <1>2, <2>1
    <3> HIDE DEF n
    <3> QED
      BY SMTT(30), <1>2, <1>3, <2>2, <3>1, CapacityPositive, BlockingProofs!RingKept
  <2>8. Len(Semaphore!Content) < Capacity
    <3> HIDE DEF n
    <3> QED
      BY <1>3, <2>2, CapacityPositive DEF BlockingProofs!RingItems
  <2> QED
    BY <2>1, <2>3, <2>5, <2>6, <2>7, <2>8 DEF Semaphore!Queue!QueueNext, Semaphore!Queue!Enqueue
<1>5. CASE Semaphore!PopLoad(t)
  <2>1. /\ shead' = Semaphore!NextIndex(shead) /\ sout' = sbuffer[shead]
        /\ sbuffer' = sbuffer
    BY <1>5 DEF Semaphore!PopLoad
  <2>2. n \in 1 .. Capacity /\ n' = n - 1
    BY <1>1, <1>5, SemaphoreCounts
  <2>3. Semaphore!Content' = BlockingProofs!RingItems(Capacity, (shead + 1) % Capacity, n - 1, sbuffer)
    BY <2>1, <2>2 DEF Semaphore!Content, Semaphore!NextIndex, BlockingProofs!RingItems
  <2>4. /\ Semaphore!Content # <<>> /\ Head(Semaphore!Content) = sbuffer[shead]
        /\ Tail(Semaphore!Content) = Semaphore!Content'
    <3> HIDE DEF Cells, n
    <3> QED
      BY ZenonT(60), <1>2, <1>3, <2>2, <2>3, CapacityPositive, BlockingProofs!RingTake
  <2> QED
    BY <2>1, <2>4 DEF Semaphore!Queue!QueueNext, Semaphore!Queue!Dequeue
<1>6. CASE ~ Semaphore!PushStore(t) /\ ~ Semaphore!PopLoad(t)
  <2>1. n' = n
    BY <1>1, <1>6, SemaphoreCounts
  <2>2. UNCHANGED <<shead, sbuffer, sout>>
    BY <1>1, <1>6 DEF Semaphore!PushStep, Semaphore!PopStep, Semaphore!PushAcquire,
       Semaphore!PushRelease, Semaphore!PopAcquire, Semaphore!PopRelease
  <2> QED
    BY <2>1, <2>2 DEF Semaphore!Queue!queueVars, Semaphore!Content
<1> QED
  BY <1>4, <1>5, <1>6

(***************************************************************************)
(* locking_queue, as the other threads of the pool, io::Scheduler and a    *)
(* queue without waiting producers use it.                                 *)
(***************************************************************************)

LEMMA SameFiniteness ==
    ASSUME NEW S, IsFiniteSet(S)
    PROVE  BlockingProofs!IsFiniteSet(S) /\ DrainingProofs!IsFiniteSet(S) /\ TryingProofs!IsFiniteSet(S)
BY DEF IsFiniteSet, BlockingProofs!IsFiniteSet, DrainingProofs!IsFiniteSet, TryingProofs!IsFiniteSet

LEMMA UsesAllowed ==
    /\ BlockingProofs!LockingParameters /\ DrainingProofs!LockingParameters
    /\ TryingProofs!LockingParameters /\ DrainingProofs!OneDrainer
    /\ BlockingProofs!RingParameters /\ DrainingProofs!RingParameters /\ TryingProofs!RingParameters
<1>1. /\ BlockingProofs!RingParameters /\ DrainingProofs!RingParameters /\ TryingProofs!RingParameters
  BY CapacityPositive DEF BlockingProofs!RingParameters, DrainingProofs!RingParameters,
     TryingProofs!RingParameters
<1>2. IsFiniteSet(Producers \cup Consumers) /\ IsFiniteSet(Producers \cup {Loop})
  <2>1. IsFiniteSet({Loop})
    BY FS_Singleton
  <2> QED
    BY <2>1, ContainersAssumption, FS_Union
<1>3. BlockingProofs!LockingParameters
  <2>1. Producers \cup Producers \cup Consumers \cup {} \cup {} = Producers \cup Consumers
    OBVIOUS
  <2> QED
    BY <1>1, <1>2, <2>1, SameFiniteness DEF BlockingProofs!LockingParameters
<1>4. TryingProofs!LockingParameters
  <2>1. {} \cup Producers \cup Consumers \cup Consumers \cup {} = Producers \cup Consumers
    OBVIOUS
  <2> QED
    BY <1>1, <1>2, <2>1, SameFiniteness DEF TryingProofs!LockingParameters
<1>5. DrainingProofs!LockingParameters
  <2>1. Producers \cup {} \cup {} \cup {} \cup {Loop} = Producers \cup {Loop}
    OBVIOUS
  <2> QED
    BY <1>1, <1>2, <2>1, SameFiniteness DEF DrainingProofs!LockingParameters
<1>6. DrainingProofs!OneDrainer
  BY ContainersAssumption DEF DrainingProofs!OneDrainer
<1> QED
  BY <1>1, <1>3, <1>4, <1>5, <1>6

\* The instances speak of the same steps.
LEMMA BlockingSteps == Blocking!Next => BlockingProofs!Next
BY DEF
   Blocking!Next, Blocking!Step, Blocking!Enter, Blocking!SeeItem, Blocking!Lock, Blocking!Sleep,
   Blocking!PushWaits, Blocking!PopWaits, Blocking!GiveUp, Blocking!Store, Blocking!Load,
   Blocking!Notify, Blocking!Rouse, Blocking!Goto, Blocking!Calls, Blocking!Condition,
   Blocking!IsEmpty, Blocking!IsFull, Blocking!SeesItem, Blocking!NextIndex, Blocking!Threads,
   Blocking!Conditions, Blocking!ring, BlockingProofs!Next, BlockingProofs!Step,
   BlockingProofs!Enter, BlockingProofs!SeeItem, BlockingProofs!Lock, BlockingProofs!Sleep,
   BlockingProofs!PushWaits, BlockingProofs!PopWaits, BlockingProofs!GiveUp, BlockingProofs!Store,
   BlockingProofs!Load, BlockingProofs!Notify, BlockingProofs!Rouse, BlockingProofs!Goto,
   BlockingProofs!Calls, BlockingProofs!Condition, BlockingProofs!IsEmpty, BlockingProofs!IsFull,
   BlockingProofs!SeesItem, BlockingProofs!NextIndex, BlockingProofs!Threads,
   BlockingProofs!Conditions, BlockingProofs!ring

LEMMA DrainingSteps == Draining!Next => DrainingProofs!Next
BY DEF
   Draining!Next, Draining!Step, Draining!Enter, Draining!SeeItem, Draining!Lock, Draining!Sleep,
   Draining!PushWaits, Draining!PopWaits, Draining!GiveUp, Draining!Store, Draining!Load,
   Draining!Notify, Draining!Rouse, Draining!Goto, Draining!Calls, Draining!Condition,
   Draining!IsEmpty, Draining!IsFull, Draining!SeesItem, Draining!NextIndex, Draining!Threads,
   Draining!Conditions, Draining!ring, DrainingProofs!Next, DrainingProofs!Step,
   DrainingProofs!Enter, DrainingProofs!SeeItem, DrainingProofs!Lock, DrainingProofs!Sleep,
   DrainingProofs!PushWaits, DrainingProofs!PopWaits, DrainingProofs!GiveUp, DrainingProofs!Store,
   DrainingProofs!Load, DrainingProofs!Notify, DrainingProofs!Rouse, DrainingProofs!Goto,
   DrainingProofs!Calls, DrainingProofs!Condition, DrainingProofs!IsEmpty, DrainingProofs!IsFull,
   DrainingProofs!SeesItem, DrainingProofs!NextIndex, DrainingProofs!Threads,
   DrainingProofs!Conditions, DrainingProofs!ring

LEMMA TryingSteps == Trying!Next => TryingProofs!Next
BY DEF
   Trying!Next, Trying!Step, Trying!Enter, Trying!SeeItem, Trying!Lock, Trying!Sleep,
   Trying!PushWaits, Trying!PopWaits, Trying!GiveUp, Trying!Store, Trying!Load, Trying!Notify,
   Trying!Rouse, Trying!Goto, Trying!Calls, Trying!Condition, Trying!IsEmpty, Trying!IsFull,
   Trying!SeesItem, Trying!NextIndex, Trying!Threads, Trying!Conditions, Trying!ring,
   TryingProofs!Next, TryingProofs!Step, TryingProofs!Enter, TryingProofs!SeeItem,
   TryingProofs!Lock, TryingProofs!Sleep, TryingProofs!PushWaits, TryingProofs!PopWaits,
   TryingProofs!GiveUp, TryingProofs!Store, TryingProofs!Load, TryingProofs!Notify,
   TryingProofs!Rouse, TryingProofs!Goto, TryingProofs!Calls, TryingProofs!Condition,
   TryingProofs!IsEmpty, TryingProofs!IsFull, TryingProofs!SeesItem, TryingProofs!NextIndex,
   TryingProofs!Threads, TryingProofs!Conditions, TryingProofs!ring

\* Whichever way the queue is used, what is proved of that way holds.
LInv ==
    /\ kind \notin {"draining", "trying"} => BlockingProofs!IInv
    /\ kind = "draining" => DrainingProofs!IInv /\ DrainingProofs!DrainInv
    /\ kind = "trying" => TryingProofs!IInv

LEMMA InitLInv == ContainersInit => LInv
<1> SUFFICES ASSUME ContainersInit
             PROVE  LInv
  OBVIOUS
<1>1. CASE kind = "draining"
  <2>1. DrainingProofs!Init
    BY <1>1 DEF ContainersInit, Draining!Init, DrainingProofs!Init, Draining!Threads,
       DrainingProofs!Threads, Draining!Conditions, DrainingProofs!Conditions,
       Draining!Slots, DrainingProofs!Slots
  <2>2. DrainingProofs!IInv
    BY <2>1, UsesAllowed, DrainingProofs!InitIInv
  <2>3. DrainingProofs!DrainInv
    BY <2>1, UsesAllowed, DrainingProofs!InitDrains
  <2> QED
    BY <1>1, <2>2, <2>3 DEF LInv
<1>2. CASE kind # "draining"
  <2>1. BlockingProofs!Init /\ TryingProofs!Init
    BY <1>2 DEF ContainersInit, Blocking!Init, BlockingProofs!Init, TryingProofs!Init,
       Blocking!Threads, BlockingProofs!Threads, TryingProofs!Threads, Blocking!Conditions,
       BlockingProofs!Conditions, TryingProofs!Conditions, Blocking!Slots, BlockingProofs!Slots,
       TryingProofs!Slots
  <2>2. BlockingProofs!IInv
    BY <2>1, UsesAllowed, BlockingProofs!InitIInv
  <2>3. TryingProofs!IInv
    BY <2>1, UsesAllowed, TryingProofs!InitIInv
  <2> QED
    BY <1>2, <2>2, <2>3 DEF LInv
<1> QED
  BY <1>1, <1>2

\* The queue makes its steps in behaviours that are about it, and rests in others.
LEMMA LockSteps ==
    ASSUME [ContainersNext]_all
    PROVE  /\ kind' = kind
           /\ kind \notin {"draining", "trying"} => [BlockingProofs!Next]_(BlockingProofs!vars)
           /\ kind = "draining" => [DrainingProofs!Next]_(DrainingProofs!vars)
           /\ kind = "trying" => [TryingProofs!Next]_(TryingProofs!vars)
<1>1. CASE UNCHANGED lockVars
  <2>1. /\ UNCHANGED BlockingProofs!vars /\ UNCHANGED DrainingProofs!vars
        /\ UNCHANGED TryingProofs!vars
    BY <1>1 DEF lockVars, BlockingProofs!vars, DrainingProofs!vars, TryingProofs!vars,
       BlockingProofs!ring, DrainingProofs!ring, TryingProofs!ring
  <2>2. kind' = kind
    BY DEF ContainersNext, all
  <2> QED
    BY <2>1, <2>2
<1>2. CASE ~ UNCHANGED lockVars
  <2>1. /\ kind' = kind
        /\ \/ kind = "blocking" /\ Blocking!Next
           \/ kind = "draining" /\ Draining!Next
           \/ kind = "trying" /\ Trying!Next
    BY <1>2 DEF ContainersNext, all
  <2> QED
    BY <2>1, BlockingSteps, DrainingSteps, TryingSteps
<1> QED
  BY <1>1, <1>2

LEMMA NextLInv == LInv /\ [ContainersNext]_all => LInv'
<1> SUFFICES ASSUME LInv, [ContainersNext]_all
             PROVE  LInv'
  OBVIOUS
<1>1. CASE kind \notin {"draining", "trying"}
  <2>1. BlockingProofs!IInv'
    BY <1>1, LockSteps, UsesAllowed, BlockingProofs!NextIInv DEF LInv
  <2> QED
    BY <1>1, <2>1, LockSteps DEF LInv
<1>2. CASE kind = "draining"
  <2>1. DrainingProofs!IInv'
    BY <1>2, LockSteps, UsesAllowed, DrainingProofs!NextIInv DEF LInv
  <2>2. DrainingProofs!DrainInv'
    BY <1>2, LockSteps, UsesAllowed, DrainingProofs!NextDrains DEF LInv
  <2> QED
    BY <1>2, <2>1, <2>2, LockSteps DEF LInv
<1>3. CASE kind = "trying"
  <2>1. TryingProofs!IInv'
    BY <1>3, LockSteps, UsesAllowed, TryingProofs!NextIInv DEF LInv
  <2> QED
    BY <1>3, <2>1, LockSteps DEF LInv
<1> QED
  BY <1>1, <1>2, <1>3

\* What is left of it for the properties.
LEMMA LInvSuffices ==
    ASSUME LInv
    PROVE  NoSleeperForgotten /\ DrainerNeverSleeps
<1>1. DrainerNeverSleeps
  BY DEF LInv, DrainerNeverSleeps, Draining!DrainerNeverSleeps, DrainingProofs!DrainInv
<1>2. CASE kind \notin {"draining", "trying"}
  <2>1. BlockingProofs!NoSleeperForgotten
    BY <1>2, UsesAllowed, BlockingProofs!AttendedAreNotForgotten DEF LInv
  <2> QED
    BY <1>1, <1>2, <2>1 DEF NoSleeperForgotten, Blocking!NoSleeperForgotten,
       BlockingProofs!NoSleeperForgotten, Blocking!IsFull, BlockingProofs!IsFull,
       Blocking!IsEmpty, BlockingProofs!IsEmpty, Blocking!NextIndex, BlockingProofs!NextIndex,
       Blocking!Threads, BlockingProofs!Threads
<1>3. CASE kind = "draining"
  <2>1. DrainingProofs!NoSleeperForgotten
    BY <1>3, UsesAllowed, DrainingProofs!AttendedAreNotForgotten DEF LInv
  <2> QED
    BY <1>1, <1>3, <2>1 DEF NoSleeperForgotten, Draining!NoSleeperForgotten,
       DrainingProofs!NoSleeperForgotten, Draining!IsFull, DrainingProofs!IsFull,
       Draining!IsEmpty, DrainingProofs!IsEmpty, Draining!NextIndex, DrainingProofs!NextIndex,
       Draining!Threads, DrainingProofs!Threads
<1>4. CASE kind = "trying"
  <2>1. TryingProofs!NoSleeperForgotten
    BY <1>4, UsesAllowed, TryingProofs!AttendedAreNotForgotten DEF LInv
  <2> QED
    BY <1>1, <1>4, <2>1 DEF NoSleeperForgotten, Blocking!NoSleeperForgotten,
       TryingProofs!NoSleeperForgotten, Blocking!IsFull, TryingProofs!IsFull,
       Blocking!IsEmpty, TryingProofs!IsEmpty, Blocking!NextIndex, TryingProofs!NextIndex,
       Blocking!Threads, TryingProofs!Threads
<1> QED
  BY <1>2, <1>3, <1>4

\* The ring does what a queue does in all three.
LEMMA LockQueues ==
    ASSUME LInv, [ContainersNext]_all
    PROVE  [Blocking!Queue!QueueNext]_(Blocking!Queue!queueVars)
<1>1. CASE kind \notin {"draining", "trying"}
  <2>1. [BlockingProofs!Queue!QueueNext]_(BlockingProofs!Queue!queueVars)
    BY <1>1, LockSteps, UsesAllowed, BlockingProofs!NextQueues DEF LInv, BlockingProofs!IInv
  <2> QED
    BY <2>1 DEF Blocking!Queue!QueueNext, Blocking!Queue!queueVars, Blocking!Queue!Enqueue,
       Blocking!Queue!Dequeue, Blocking!Content, Blocking!Filled, BlockingProofs!Queue!QueueNext,
       BlockingProofs!Queue!queueVars, BlockingProofs!Queue!Enqueue,
       BlockingProofs!Queue!Dequeue, BlockingProofs!Content, BlockingProofs!Filled
<1>2. CASE kind = "draining"
  <2>1. [DrainingProofs!Queue!QueueNext]_(DrainingProofs!Queue!queueVars)
    BY <1>2, LockSteps, UsesAllowed, DrainingProofs!NextQueues DEF LInv, DrainingProofs!IInv
  <2> QED
    BY <2>1 DEF Blocking!Queue!QueueNext, Blocking!Queue!queueVars, Blocking!Queue!Enqueue,
       Blocking!Queue!Dequeue, Blocking!Content, Blocking!Filled, DrainingProofs!Queue!QueueNext,
       DrainingProofs!Queue!queueVars, DrainingProofs!Queue!Enqueue,
       DrainingProofs!Queue!Dequeue, DrainingProofs!Content, DrainingProofs!Filled
<1>3. CASE kind = "trying"
  <2>1. [TryingProofs!Queue!QueueNext]_(TryingProofs!Queue!queueVars)
    BY <1>3, LockSteps, UsesAllowed, TryingProofs!NextQueues DEF LInv, TryingProofs!IInv
  <2> QED
    BY <2>1 DEF Blocking!Queue!QueueNext, Blocking!Queue!queueVars, Blocking!Queue!Enqueue,
       Blocking!Queue!Dequeue, Blocking!Content, Blocking!Filled, TryingProofs!Queue!QueueNext,
       TryingProofs!Queue!queueVars, TryingProofs!Queue!Enqueue,
       TryingProofs!Queue!Dequeue, TryingProofs!Content, TryingProofs!Filled
<1> QED
  BY <1>1, <1>2, <1>3

LEMMA InitLockQueues ==
    ASSUME ContainersInit
    PROVE  Blocking!Queue!QueueInit
<1>1. lhead = 0 /\ ltail = 0 /\ lout = None
  BY DEF ContainersInit, Blocking!Init, Draining!Init
<1>2. Blocking!Filled = 0
  BY <1>1, CapacityPositive DEF Blocking!Filled
<1> QED
  BY <1>1, <1>2 DEF Blocking!Queue!QueueInit, Blocking!Content

(***************************************************************************)
(* The deque.                                                              *)
(***************************************************************************)

\* Where the items end that a thief may still take: the owner's claim counts only
\* when it has seen that no thief can be at the claimed item.
DequeEnd == IF dpc[Owner] \in {"claimed", "racing"} THEN bottom + 1 ELSE bottom

Committed(t) == dpc[t] \in {"bottomed", "reading", "taking"}

\* top_ does not pass the end: a thief that has seen an item at top_ takes it only
\* if top_ is still there, and then the item is, too.  After a claim that missed,
\* bottom_ is one behind top_, and nothing can move top_ before it is put back.
DequeTyped ==
    /\ dpc \in [Deque!Threads -> Deque!OwnerPoints \cup Deque!ThiefPoints]
    /\ dpc[Owner] \in Deque!OwnerPoints
    /\ top \in Nat /\ bottom \in Int
    /\ ltop \in [Deque!Threads -> Nat] /\ lbottom \in [Deque!Threads -> Int]

OwnerKnows ==
    /\ dpc[Owner] # "restoring" => top <= DequeEnd
    /\ dpc[Owner] \notin {"idle", "restoring"} => lbottom[Owner] = bottom
    /\ dpc[Owner] = "racing" => ltop[Owner] = bottom /\ bottom <= top
    /\ dpc[Owner] = "restoring" => ltop[Owner] = top /\ top = bottom + 1

ThiefKnows(t) ==
    /\ dpc[t] # "idle" => ltop[t] <= top
    /\ Committed(t) /\ ltop[t] = top => top < DequeEnd

DInv == DequeTyped /\ OwnerKnows /\ \A t \in DequeThieves : ThiefKnows(t)

LEMMA DequeThreads == Owner \in Deque!Threads /\ DequeThieves \subseteq Deque!Threads /\ Owner \notin DequeThieves
BY ContainersAssumption DEF Deque!Threads, Deque!DequeParameters

LEMMA InitDInv == Deque!Init => DInv
BY DequeThreads DEF Deque!Init, DInv, DequeTyped, OwnerKnows, ThiefKnows, Deque!OwnerPoints, Deque!ThiefPoints, DequeEnd, Committed

\* The owner's steps.
LEMMA OwnerDInv ==
    ASSUME DInv, Deque!PushStep(Owner) \/ Deque!PopStep(Owner)
    PROVE  DInv'
<1> USE DequeThreads DEF Deque!Goto
<1>1. ASSUME NEW p, dpc' = [dpc EXCEPT ![Owner] = p]
      PROVE  dpc'[Owner] = p /\ \A t \in DequeThieves : dpc'[t] = dpc[t] /\ (Committed(t)' <=> Committed(t))
  BY <1>1 DEF DInv, DequeTyped, Committed
<1>2. CASE Deque!PushBegin(Owner)
  <2>1. /\ dpc[Owner] = "idle" /\ dpc' = [dpc EXCEPT ![Owner] = "fitting"]
        /\ lbottom' = [lbottom EXCEPT ![Owner] = bottom]
        /\ UNCHANGED <<top, bottom, ltop>>
    BY <1>2 DEF Deque!PushBegin
  <2>2. DequeTyped'
    BY <1>1, <2>1 DEF DInv, DequeTyped, OwnerKnows, Deque!OwnerPoints
  <2>3. OwnerKnows'
    BY <1>1, <2>1 DEF DInv, DequeTyped, OwnerKnows, DequeEnd
  <2>4. ASSUME NEW t \in DequeThieves
        PROVE  ThiefKnows(t)'
    <3>1. /\ dpc'[t] = dpc[t] /\ ltop'[t] = ltop[t] /\ ltop[t] \in Nat
          /\ Committed(t)' <=> Committed(t)
          /\ ThiefKnows(t) /\ dpc'[Owner] = "fitting"
      BY <1>1, <2>1 DEF DInv, DequeTyped
    <3> QED
      BY <2>1, <3>1 DEF DInv, DequeTyped, OwnerKnows, ThiefKnows, DequeEnd
  <2> QED
    BY <2>2, <2>3, <2>4 DEF DInv
<1>3. CASE Deque!PushFit(Owner) \/ Deque!PushPut(Owner)
  <2>1. /\ dpc[Owner] \in {"fitting", "putting"} /\ dpc' = [dpc EXCEPT ![Owner] = dpc'[Owner]]
        /\ dpc'[Owner] \in {"putting", "publishing"}
        /\ UNCHANGED <<top, bottom, ltop, lbottom>>
    BY <1>3 DEF Deque!PushFit, Deque!PushPut, DInv, DequeTyped
  <2>2. DequeTyped'
    BY <1>1, <2>1 DEF DInv, DequeTyped, OwnerKnows, Deque!OwnerPoints
  <2>3. OwnerKnows'
    BY <1>1, <2>1 DEF DInv, DequeTyped, OwnerKnows, DequeEnd
  <2>4. ASSUME NEW t \in DequeThieves
        PROVE  ThiefKnows(t)'
    <3>1. /\ dpc'[t] = dpc[t] /\ ltop'[t] = ltop[t] /\ ltop[t] \in Nat
          /\ Committed(t)' <=> Committed(t)
          /\ ThiefKnows(t)
      BY <1>1, <2>1 DEF DInv, DequeTyped
    <3> QED
      BY <2>1, <3>1 DEF DInv, DequeTyped, OwnerKnows, ThiefKnows, DequeEnd
  <2> QED
    BY <2>2, <2>3, <2>4 DEF DInv
<1>4. CASE Deque!PushPublish(Owner)
  <2>1. /\ dpc[Owner] = "publishing" /\ dpc' = [dpc EXCEPT ![Owner] = "idle"]
        /\ bottom' = lbottom[Owner] + 1
        /\ UNCHANGED <<top, ltop, lbottom>>
    BY <1>4 DEF Deque!PushPublish
  <2>2. DequeTyped'
    BY <1>1, <2>1 DEF DInv, DequeTyped, OwnerKnows, Deque!OwnerPoints
  <2>3. OwnerKnows'
    BY <1>1, <2>1 DEF DInv, DequeTyped, OwnerKnows, DequeEnd
  <2>4. ASSUME NEW t \in DequeThieves
        PROVE  ThiefKnows(t)'
    <3>1. /\ dpc'[t] = dpc[t] /\ ltop'[t] = ltop[t] /\ ltop[t] \in Nat
          /\ Committed(t)' <=> Committed(t)
          /\ ThiefKnows(t) /\ dpc'[Owner] = "idle"
      BY <1>1, <2>1 DEF DInv, DequeTyped
    <3> QED
      BY <2>1, <3>1 DEF DInv, DequeTyped, OwnerKnows, ThiefKnows, DequeEnd
  <2> QED
    BY <2>2, <2>3, <2>4 DEF DInv
<1>5. CASE Deque!PopClaim(Owner)
  <2>1. /\ dpc[Owner] = "idle" /\ dpc' = [dpc EXCEPT ![Owner] = "claimed"]
        /\ bottom' = bottom - 1 /\ lbottom' = [lbottom EXCEPT ![Owner] = bottom - 1]
        /\ UNCHANGED <<top, ltop>>
    BY <1>5 DEF Deque!PopClaim
  <2>2. DequeTyped'
    BY <1>1, <2>1 DEF DInv, DequeTyped, OwnerKnows, Deque!OwnerPoints
  <2>3. OwnerKnows'
    BY <1>1, <2>1 DEF DInv, DequeTyped, OwnerKnows, DequeEnd
  <2>4. ASSUME NEW t \in DequeThieves
        PROVE  ThiefKnows(t)'
    <3>1. /\ dpc'[t] = dpc[t] /\ ltop'[t] = ltop[t] /\ ltop[t] \in Nat
          /\ Committed(t)' <=> Committed(t)
          /\ ThiefKnows(t) /\ dpc'[Owner] = "claimed"
      BY <1>1, <2>1 DEF DInv, DequeTyped
    <3> QED
      BY <2>1, <3>1 DEF DInv, DequeTyped, OwnerKnows, ThiefKnows, DequeEnd
  <2> QED
    BY <2>2, <2>3, <2>4 DEF DInv
<1>6. CASE Deque!PopLook(Owner)
  <2>1. /\ dpc[Owner] = "claimed" /\ dpc' = [dpc EXCEPT ![Owner] = dpc'[Owner]]
        /\ ltop' = [ltop EXCEPT ![Owner] = top]
        /\ UNCHANGED <<top, bottom, lbottom>>
        /\ \/ dpc'[Owner] = "idle" /\ top < lbottom[Owner]
           \/ dpc'[Owner] = "racing" /\ top = lbottom[Owner]
           \/ dpc'[Owner] = "restoring" /\ ~ (top < lbottom[Owner]) /\ top # lbottom[Owner]
    BY <1>6 DEF Deque!PopLook, Deque!Behind, DInv, DequeTyped
  <2>2. DequeTyped'
    BY <1>1, <2>1 DEF DInv, DequeTyped, OwnerKnows, Deque!OwnerPoints
  <2>3. OwnerKnows'
    BY <1>1, <2>1 DEF DInv, DequeTyped, OwnerKnows, DequeEnd
  <2>4. ASSUME NEW t \in DequeThieves
        PROVE  ThiefKnows(t)'
    <3>1. /\ dpc'[t] = dpc[t] /\ ltop'[t] = ltop[t] /\ ltop[t] \in Nat
          /\ Committed(t)' <=> Committed(t)
          /\ ThiefKnows(t)
      BY <1>1, <2>1 DEF DInv, DequeTyped
    <3> QED
      BY <2>1, <3>1 DEF DInv, DequeTyped, OwnerKnows, ThiefKnows, DequeEnd
  <2> QED
    BY <2>2, <2>3, <2>4 DEF DInv
<1>7. CASE Deque!PopRace(Owner)
  <2>1. /\ dpc[Owner] = "racing" /\ dpc' = [dpc EXCEPT ![Owner] = "restoring"]
        /\ ltop' = [ltop EXCEPT ![Owner] = top'] /\ top' = IF top = ltop[Owner] THEN top + 1 ELSE top
        /\ UNCHANGED <<bottom, lbottom>>
    BY <1>7 DEF Deque!PopRace
  <2>2. DequeTyped'
    BY <1>1, <2>1 DEF DInv, DequeTyped, OwnerKnows, Deque!OwnerPoints
  <2>3. OwnerKnows'
    BY <1>1, <2>1 DEF DInv, DequeTyped, OwnerKnows, DequeEnd
  <2>4. ASSUME NEW t \in DequeThieves
        PROVE  ThiefKnows(t)'
    <3>1. /\ dpc'[t] = dpc[t] /\ ltop'[t] = ltop[t] /\ ltop[t] \in Nat
          /\ Committed(t)' <=> Committed(t)
          /\ ThiefKnows(t) /\ dpc'[Owner] = "restoring"
      BY <1>1, <2>1 DEF DInv, DequeTyped
    <3>2. DequeEnd = bottom + 1 /\ bottom <= top /\ top <= bottom + 1 /\ ltop[Owner] = bottom
      BY <2>1 DEF DInv, OwnerKnows, DequeEnd
    <3>3. top \in Nat /\ bottom \in Int
      BY DEF DInv, DequeTyped
    <3>4. CASE top = ltop[Owner]
      <4>1. top' = top + 1
        BY <2>1, <3>4
      <4> QED
        BY <3>1, <3>3, <4>1 DEF ThiefKnows, Committed
    <3>5. CASE top # ltop[Owner]
      <4>1. top' = top /\ top = bottom + 1
        BY <2>1, <3>2, <3>3, <3>5
      <4>2. ~ (Committed(t) /\ ltop[t] = top)
        BY <3>1, <3>2, <3>3, <4>1 DEF ThiefKnows
      <4> QED
        BY <3>1, <4>1, <4>2 DEF ThiefKnows
    <3> QED
      BY <3>4, <3>5
  <2> QED
    BY <2>2, <2>3, <2>4 DEF DInv
<1>8. CASE Deque!PopRestore(Owner)
  <2>1. /\ dpc[Owner] = "restoring" /\ dpc' = [dpc EXCEPT ![Owner] = "idle"]
        /\ bottom' = ltop[Owner]
        /\ UNCHANGED <<top, ltop, lbottom>>
    BY <1>8 DEF Deque!PopRestore
  <2>2. DequeTyped'
    BY <1>1, <2>1 DEF DInv, DequeTyped, OwnerKnows, Deque!OwnerPoints
  <2>3. OwnerKnows'
    BY <1>1, <2>1 DEF DInv, DequeTyped, OwnerKnows, DequeEnd
  <2>4. ASSUME NEW t \in DequeThieves
        PROVE  ThiefKnows(t)'
    <3>1. /\ dpc'[t] = dpc[t] /\ ltop'[t] = ltop[t] /\ ltop[t] \in Nat
          /\ Committed(t)' <=> Committed(t)
          /\ ThiefKnows(t) /\ dpc'[Owner] = "idle"
      BY <1>1, <2>1 DEF DInv, DequeTyped
    <3> QED
      BY <2>1, <3>1 DEF DInv, DequeTyped, OwnerKnows, ThiefKnows, DequeEnd
  <2> QED
    BY <2>2, <2>3, <2>4 DEF DInv
<1> QED
  BY <1>2, <1>3, <1>4, <1>5, <1>6, <1>7, <1>8 DEF Deque!PushStep, Deque!PopStep

\* A thief's steps.
LEMMA ThiefDInv ==
    ASSUME DInv, NEW t \in DequeThieves, Deque!StealStep(t)
    PROVE  DInv'
<1> USE DequeThreads DEF Deque!Goto
<1>1. ASSUME NEW p, dpc' = [dpc EXCEPT ![t] = p]
      PROVE  /\ dpc'[t] = p /\ dpc'[Owner] = dpc[Owner]
             /\ \A u \in DequeThieves \ {t} : dpc'[u] = dpc[u] /\ (Committed(u)' <=> Committed(u))
  BY <1>1 DEF DInv, DequeTyped, Committed
<1>2. CASE Deque!StealTop(t)
  <2>1. /\ dpc' = [dpc EXCEPT ![t] = "topped"] /\ ltop' = [ltop EXCEPT ![t] = top]
        /\ UNCHANGED <<top, bottom, lbottom>>
    BY <1>2 DEF Deque!StealTop
  <2>2. ~ Committed(t)'
    BY <1>1, <2>1 DEF Committed
  <2>3. DequeTyped'
    BY <1>1, <2>1 DEF DInv, DequeTyped, Deque!ThiefPoints
  <2>4. OwnerKnows'
    BY <1>1, <2>1, <2>2 DEF DInv, DequeTyped, OwnerKnows, ThiefKnows, DequeEnd
  <2>5. ASSUME NEW u \in DequeThieves
        PROVE  ThiefKnows(u)'
    <3>1. CASE u = t
      BY <1>1, <2>1, <2>2, <3>1 DEF DInv, DequeTyped, OwnerKnows, ThiefKnows, DequeEnd
    <3>2. CASE u # t
      <4>1. /\ dpc'[u] = dpc[u] /\ ltop'[u] = ltop[u] /\ ltop[u] \in Nat
            /\ Committed(u)' <=> Committed(u)
            /\ ThiefKnows(u) /\ dpc'[Owner] = dpc[Owner]
        BY <1>1, <2>1, <3>2 DEF DInv, DequeTyped
      <4> QED
        BY <2>1, <4>1 DEF DInv, DequeTyped, OwnerKnows, ThiefKnows, DequeEnd
    <3> QED
      BY <3>1, <3>2
  <2> QED
    BY <2>3, <2>4, <2>5 DEF DInv
<1>3. CASE Deque!StealBottom(t)
  <2>1. /\ dpc[t] = "topped" /\ dpc' = [dpc EXCEPT ![t] = IF ltop[t] >= bottom THEN "idle" ELSE "bottomed"]
        /\ UNCHANGED <<top, bottom, ltop, lbottom>>
    BY <1>3 DEF Deque!StealBottom
  <2>2. Committed(t)' => ltop[t] < bottom
    BY <1>1, <2>1 DEF Committed, DInv, DequeTyped
  <2>3. DequeTyped'
    BY <1>1, <2>1 DEF DInv, DequeTyped, Deque!ThiefPoints
  <2>4. OwnerKnows'
    BY <1>1, <2>1, <2>2 DEF DInv, DequeTyped, OwnerKnows, ThiefKnows, DequeEnd
  <2>5. ASSUME NEW u \in DequeThieves
        PROVE  ThiefKnows(u)'
    <3>1. CASE u = t
      BY <1>1, <2>1, <2>2, <3>1 DEF DInv, DequeTyped, OwnerKnows, ThiefKnows, DequeEnd
    <3>2. CASE u # t
      <4>1. /\ dpc'[u] = dpc[u] /\ ltop'[u] = ltop[u] /\ ltop[u] \in Nat
            /\ Committed(u)' <=> Committed(u)
            /\ ThiefKnows(u) /\ dpc'[Owner] = dpc[Owner]
        BY <1>1, <2>1, <3>2 DEF DInv, DequeTyped
      <4> QED
        BY <2>1, <4>1 DEF DInv, DequeTyped, OwnerKnows, ThiefKnows, DequeEnd
    <3> QED
      BY <3>1, <3>2
  <2> QED
    BY <2>3, <2>4, <2>5 DEF DInv
<1>4. CASE Deque!StealArray(t) \/ Deque!StealRead(t)
  <2>1. /\ dpc[t] \in {"bottomed", "reading"} /\ dpc' = [dpc EXCEPT ![t] = dpc'[t]]
        /\ dpc'[t] \in {"reading", "taking"}
        /\ UNCHANGED <<top, bottom, ltop, lbottom>>
    BY <1>4 DEF Deque!StealArray, Deque!StealRead, DInv, DequeTyped
  <2>2. Committed(t)
    BY <2>1 DEF Committed
  <2>3. DequeTyped'
    BY <1>1, <2>1 DEF DInv, DequeTyped, Deque!ThiefPoints
  <2>4. OwnerKnows'
    BY <1>1, <2>1, <2>2 DEF DInv, DequeTyped, OwnerKnows, ThiefKnows, DequeEnd
  <2>5. ASSUME NEW u \in DequeThieves
        PROVE  ThiefKnows(u)'
    <3>1. CASE u = t
      BY <1>1, <2>1, <2>2, <3>1 DEF DInv, DequeTyped, OwnerKnows, ThiefKnows, DequeEnd
    <3>2. CASE u # t
      <4>1. /\ dpc'[u] = dpc[u] /\ ltop'[u] = ltop[u] /\ ltop[u] \in Nat
            /\ Committed(u)' <=> Committed(u)
            /\ ThiefKnows(u) /\ dpc'[Owner] = dpc[Owner]
        BY <1>1, <2>1, <3>2 DEF DInv, DequeTyped
      <4> QED
        BY <2>1, <4>1 DEF DInv, DequeTyped, OwnerKnows, ThiefKnows, DequeEnd
    <3> QED
      BY <3>1, <3>2
  <2> QED
    BY <2>3, <2>4, <2>5 DEF DInv
<1>5. CASE Deque!StealTake(t)
  <2>1. /\ dpc[t] = "taking" /\ dpc' = [dpc EXCEPT ![t] = "idle"]
        /\ top' = IF top = ltop[t] THEN top + 1 ELSE top
        /\ UNCHANGED <<bottom, ltop, lbottom>>
    BY <1>5 DEF Deque!StealTake, Deque!TopUnmoved
  <2>2. Committed(t) /\ ~ Committed(t)'
    BY <1>1, <2>1 DEF Committed
  <2>3. DequeTyped'
    BY <1>1, <2>1 DEF DInv, DequeTyped, Deque!ThiefPoints
  <2>4. OwnerKnows'
    BY <1>1, <2>1, <2>2 DEF DInv, DequeTyped, OwnerKnows, ThiefKnows, DequeEnd
  <2>5. ASSUME NEW u \in DequeThieves
        PROVE  ThiefKnows(u)'
    <3>1. CASE u = t
      BY <1>1, <2>1, <2>2, <3>1 DEF DInv, DequeTyped, OwnerKnows, ThiefKnows, DequeEnd
    <3>2. CASE u # t
      <4>1. /\ dpc'[u] = dpc[u] /\ ltop'[u] = ltop[u] /\ ltop[u] \in Nat
            /\ Committed(u)' <=> Committed(u)
            /\ ThiefKnows(u) /\ dpc'[Owner] = dpc[Owner]
        BY <1>1, <2>1, <3>2 DEF DInv, DequeTyped
      <4>2. top \in Nat /\ DequeEnd' = DequeEnd
        BY <2>1, <4>1 DEF DInv, DequeTyped, DequeEnd
      <4>3. CASE top = ltop[t]
        <5>1. top' = top + 1
          BY <2>1, <4>3
        <5> QED
          BY <4>1, <4>2, <5>1 DEF ThiefKnows, Committed
      <4>4. CASE top # ltop[t]
        <5>1. top' = top
          BY <2>1, <4>4
        <5> QED
          BY <4>1, <4>2, <5>1 DEF ThiefKnows
      <4> QED
        BY <4>3, <4>4
    <3> QED
      BY <3>1, <3>2
  <2> QED
    BY <2>3, <2>4, <2>5 DEF DInv
<1> QED
  BY <1>2, <1>3, <1>4, <1>5 DEF Deque!StealStep

LEMMA NextDInv == DInv /\ [ContainersNext]_all => DInv'
<1> SUFFICES ASSUME DInv, [ContainersNext]_all
             PROVE  DInv'
  OBVIOUS
<1>1. CASE Deque!Next
  BY <1>1, OwnerDInv, ThiefDInv DEF Deque!Next
<1>2. CASE UNCHANGED dequeVars
  BY <1>2 DEF dequeVars, DInv, DequeTyped, OwnerKnows, ThiefKnows, DequeEnd, Committed
<1> QED
  BY <1>1, <1>2 DEF ContainersNext, all

LEMMA DInvSuffices == DInv => PopAssertions
BY DequeThreads DEF DInv, DequeTyped, OwnerKnows, DequeEnd, PopAssertions, Deque!PopAssertions

(***************************************************************************)
(* The arrays of the deque.                                                *)
(***************************************************************************)

\* The arrays: of some capacity, with an item or nothing in a slot.
Cell == Deque!Pushes \cup {None}
Arrays == UNION {[0 .. c - 1 -> Cell] : c \in Nat \ {0}}

LEMMA ArrayCapacity ==
    ASSUME NEW c \in Nat \ {0}, NEW a \in [0 .. c - 1 -> Cell]
    PROVE  Deque!CapacityOf(a) = c
<1>1. Cardinality(0 .. c - 1) = c
  BY FS_Interval
<1>2. Deque!Cardinality(DOMAIN a) = Cardinality(DOMAIN a)
  BY DEF Cardinality, Deque!Cardinality
<1> QED
  BY <1>1, <1>2 DEF Deque!CapacityOf

LEMMA ArrayTyped ==
    ASSUME NEW a \in Arrays
    PROVE  /\ Deque!CapacityOf(a) \in Nat \ {0}
           /\ a \in [0 .. Deque!CapacityOf(a) - 1 -> Cell]
<1>1. PICK c \in Nat \ {0} : a \in [0 .. c - 1 -> Cell]
  BY DEF Arrays
<1> QED
  BY <1>1, ArrayCapacity

\* The mask tells two indices apart that are less than a capacity apart.
LEMMA MaskApart ==
    ASSUME NEW c \in Nat \ {0}, NEW i \in Nat, NEW j \in Nat, i - j < c, j - i < c, i % c = j % c
    PROVE  i = j
<1>1. i = c * (i \div c) + (i % c) /\ i \div c \in Int
  BY Z3
<1>2. j = c * (j \div c) + (j % c) /\ j \div c \in Int
  BY Z3
<1> DEFINE d == (i \div c) - (j \div c)
<1>3. d \in Int /\ i - j = c * d
  BY <1>1, <1>2
<1> HIDE DEF d
<1>4. d = 0
  <2>1. d >= 1 => c * d >= c
    BY <1>3
  <2>2. d <= -1 => c * d <= - c
    BY <1>3
  <2> QED
    BY <1>3, <2>1, <2>2
<1> QED
  BY <1>3, <1>4

LEMMA MaskInRange ==
    ASSUME NEW c \in Nat \ {0}, NEW i \in Nat
    PROVE  i % c \in 0 .. c - 1
OBVIOUS

LEMMA SlotTyped ==
    ASSUME NEW a \in Arrays, NEW i \in Nat
    PROVE  Deque!Get(a, i) \in Cell
<1>1. i % Deque!CapacityOf(a) \in 0 .. Deque!CapacityOf(a) - 1
  BY ArrayTyped, MaskInRange
<1> QED
  BY <1>1, ArrayTyped DEF Deque!Get

\* Put() changes the slot of its index, and of no other that is less than the
\* capacity away.
LEMMA PutKeeps ==
    ASSUME NEW a \in Arrays, NEW i \in Nat, NEW x \in Cell
    PROVE  /\ Deque!Put(a, i, x) \in Arrays
           /\ Deque!CapacityOf(Deque!Put(a, i, x)) = Deque!CapacityOf(a)
           /\ Deque!Get(Deque!Put(a, i, x), i) = x
           /\ \A j \in Nat : i # j /\ i - j < Deque!CapacityOf(a) /\ j - i < Deque!CapacityOf(a)
                 => Deque!Get(Deque!Put(a, i, x), j) = Deque!Get(a, j)
<1> DEFINE c == Deque!CapacityOf(a)
           b == Deque!Put(a, i, x)
<1>1. c \in Nat \ {0} /\ a \in [0 .. c - 1 -> Cell]
  BY ArrayTyped
<1>2. i % c \in 0 .. c - 1
  BY <1>1, MaskInRange
<1>3. b = [a EXCEPT ![i % c] = x]
  BY DEF Deque!Put
<1> HIDE DEF c, b
<1>4. b \in [0 .. c - 1 -> Cell] /\ b[i % c] = x
  BY <1>1, <1>2, <1>3
<1>5. b \in Arrays
  BY <1>1, <1>4 DEF Arrays
<1>6. Deque!CapacityOf(b) = c
  BY <1>1, <1>4, ArrayCapacity
<1>7. ASSUME NEW j \in Nat, i # j, i - j < c, j - i < c
      PROVE  b[j % c] = a[j % c]
  <2>1. j % c # i % c /\ j % c \in 0 .. c - 1
    BY <1>1, <1>7, MaskApart, MaskInRange
  <2> QED
    BY <1>1, <1>3, <2>1
<1> QED
  BY <1>4, <1>5, <1>6, <1>7 DEF Deque!Get, b, c

\* Resize() keeps the items, of which there are no more than fit in.
LEMMA ResizeKeeps ==
    ASSUME NEW a \in Arrays, NEW b \in Nat, NEW t \in Nat, b - t <= 2 * Deque!CapacityOf(a)
    PROVE  /\ Deque!Resize(a, b, t) \in Arrays
           /\ Deque!CapacityOf(Deque!Resize(a, b, t)) = 2 * Deque!CapacityOf(a)
           /\ \A k \in t .. b - 1 : Deque!Get(Deque!Resize(a, b, t), k) = Deque!Get(a, k)
<1> DEFINE c == 2 * Deque!CapacityOf(a)
           At(i) == {k \in t .. b - 1 : k % c = i}
           V(i) == IF At(i) = {} THEN None ELSE Deque!Get(a, CHOOSE k \in At(i) : TRUE)
           r == Deque!Resize(a, b, t)
<1>1. c \in Nat \ {0}
  BY ArrayTyped
<1>2. r = [i \in 0 .. c - 1 |-> V(i)]
  BY DEF Deque!Resize
<1>3. ASSUME NEW i
      PROVE  V(i) \in Cell
  <2>1. CASE At(i) = {}
    BY <2>1 DEF Cell
  <2>2. CASE At(i) # {}
    <3>1. (CHOOSE k \in At(i) : TRUE) \in At(i)
      BY <2>2
    <3>2. (CHOOSE k \in At(i) : TRUE) \in Nat
      BY <3>1
    <3> QED
      BY <2>2, <3>2, SlotTyped
  <2> QED
    BY <2>1, <2>2
<1>4. ASSUME NEW k \in t .. b - 1
      PROVE  V(k % c) = Deque!Get(a, k)
  <2>1. k \in At(k % c)
    OBVIOUS
  <2>2. ASSUME NEW j \in At(k % c)
        PROVE  j = k
    <3>1. /\ j \in Nat /\ k \in Nat /\ j % c = k % c
          /\ j - k < c /\ k - j < c
      BY <1>1, <2>2
    <3> HIDE DEF c
    <3> QED
      BY <1>1, <3>1, MaskApart
  <2>3. (CHOOSE j \in At(k % c) : TRUE) = k
    BY <2>1, <2>2
  <2> QED
    BY <2>1, <2>3
<1>5. \A k \in t .. b - 1 : k % c \in 0 .. c - 1
  <2> HIDE DEF c
  <2> QED
    BY <1>1, MaskInRange
<1> HIDE DEF V, r
<1>6. r \in [0 .. c - 1 -> Cell] /\ \A k \in t .. b - 1 : r[k % c] = Deque!Get(a, k)
  BY <1>2, <1>3, <1>4, <1>5
<1> HIDE DEF c
<1>7. r \in Arrays /\ Deque!CapacityOf(r) = c
  BY <1>1, <1>6, ArrayCapacity DEF Arrays
<1> QED
  BY <1>6, <1>7 DEF Deque!Get, r, c

\* The items from index a up to, not including, index b of f.
Run(f, a, b) == [i \in 1 .. b - a |-> f[a + i - 1]]

LEMMA RunEmpty ==
    ASSUME NEW f, NEW a \in Nat, NEW b \in Int, b <= a
    PROVE  Run(f, a, b) = <<>>
BY DEF Run

LEMMA RunAppend ==
    ASSUME NEW S, NEW f \in [Nat -> S], NEW a \in Nat, NEW b \in Nat, a <= b
    PROVE  Run(f, a, b + 1) = Append(Run(f, a, b), f[b])
<1> DEFINE s == Run(f, a, b)
           t == Append(s, f[b])
<1>1. b - a \in Nat /\ s \in Seq(S) /\ Len(s) = b - a /\ \A i \in 1 .. b - a : s[i] = f[a + i - 1]
  BY DEF Run
<1>2. t \in Seq(S) /\ Len(t) = b + 1 - a /\ \A i \in 1 .. b + 1 - a : t[i] = f[a + i - 1]
  <2> HIDE DEF s
  <2>1. t \in Seq(S) /\ Len(t) = b + 1 - a
    BY <1>1
  <2>2. ASSUME NEW i \in 1 .. b + 1 - a
        PROVE  t[i] = f[a + i - 1]
    <3>1. CASE i \in 1 .. b - a
      <4>1. t[i] = s[i]
        BY <1>1, <3>1
      <4> QED
        BY <1>1, <3>1, <4>1
    <3>2. CASE i = b + 1 - a
      <4>1. i = Len(s) + 1 /\ a + i - 1 = b /\ f[b] \in S
        BY <1>1, <3>2
      <4> HIDE DEF t
      <4>2. t[Len(s) + 1] = f[b]
        BY <1>1, <4>1, AppendProperties DEF t
      <4> QED
        BY <4>1, <4>2
    <3> QED
      BY <1>1, <3>1, <3>2
  <2> QED
    BY <2>1, <2>2
<1>3. /\ Run(f, a, b + 1) \in Seq(S) /\ Len(Run(f, a, b + 1)) = b + 1 - a
      /\ \A i \in 1 .. b + 1 - a : Run(f, a, b + 1)[i] = f[a + i - 1]
  <2> b + 1 \in Int /\ b + 1 - a \in Nat
    OBVIOUS
  <2> QED
    BY DEF Run
<1> HIDE DEF t
<1>4. Run(f, a, b + 1) = t
  BY <1>2, <1>3, SeqEqual
<1> QED
  BY <1>4 DEF t

LEMMA RunFront ==
    ASSUME NEW S, NEW f \in [Nat -> S], NEW a \in Nat, NEW b \in Nat, a < b
    PROVE  Run(f, a, b) # <<>> /\ Head(Run(f, a, b)) = f[a] /\ Tail(Run(f, a, b)) = Run(f, a + 1, b)
<1> DEFINE s == Run(f, a, b)
<1>1. b - a \in Nat /\ s \in Seq(S) /\ Len(s) = b - a /\ \A i \in 1 .. b - a : s[i] = f[a + i - 1]
  BY DEF Run
<1>2. s # <<>> /\ Head(s) = f[a]
  <2> HIDE DEF s
  <2> QED
    BY <1>1
<1>3. Tail(s) = Run(f, a + 1, b)
  <2> HIDE DEF s
  <2>1. Tail(s) \in Seq(S) /\ Len(Tail(s)) = b - (a + 1) /\ \A i \in 1 .. b - (a + 1) : Tail(s)[i] = f[a + 1 + i - 1]
    BY <1>1, <1>2
  <2>2. /\ Run(f, a + 1, b) \in Seq(S) /\ Len(Run(f, a + 1, b)) = b - (a + 1)
        /\ \A i \in 1 .. b - (a + 1) : Run(f, a + 1, b)[i] = f[a + 1 + i - 1]
    <3> a + 1 \in Nat /\ b - (a + 1) \in Nat
      OBVIOUS
    <3> QED
      BY DEF Run
  <2> QED
    BY <2>1, <2>2, SeqEqual
<1> QED
  BY <1>2, <1>3

LEMMA RunBack ==
    ASSUME NEW S, NEW f \in [Nat -> S], NEW a \in Nat, NEW b \in Nat, a <= b
    PROVE  /\ Run(f, a, b + 1) # <<>>
           /\ Deque!Deque!Last(Run(f, a, b + 1)) = f[b]
           /\ Deque!Deque!Front(Run(f, a, b + 1)) = Run(f, a, b)
<1> DEFINE s == Run(f, a, b)
<1>1. s \in Seq(S)
  BY DEF Run
<1>2. Run(f, a, b + 1) = Append(s, f[b])
  BY RunAppend
<1> HIDE DEF s
<1> DEFINE t == Append(s, f[b])
<1>3. t \in Seq(S) /\ Len(t) = Len(s) + 1 /\ t # <<>> /\ Deque!Deque!Last(t) = f[b]
  BY <1>1 DEF Deque!Deque!Last
<1>4. Deque!Deque!Front(t) = s
  <2>1. /\ Deque!Deque!Front(t) \in Seq(S) /\ Len(Deque!Deque!Front(t)) = Len(s)
        /\ \A i \in 1 .. Len(s) : Deque!Deque!Front(t)[i] = s[i]
    BY <1>1, <1>3 DEF Deque!Deque!Front
  <2> QED
    BY <1>1, <2>1, SeqEqual
<1> QED
  BY <1>2, <1>3, <1>4 DEF s

(***************************************************************************)
(* What the deque holds.                                                   *)
(***************************************************************************)

\* What a slot of the current array holds for an index, and how many it has.
Held == [i \in Nat |-> Deque!Get(Deque!Array, i)]
Room == Deque!CapacityOf(Deque!Array)

\* Push() hands its item over with bottom_: the items before it are out.
Pushing == dpc[Owner] \in {"fitting", "putting", "publishing"}
Handed == IF Pushing THEN pushed - 1 ELSE pushed

ArraysTyped ==
    /\ arrays \in Seq(Arrays) /\ arrays # <<>>
    /\ larray \in [Deque!Threads -> Nat]
    /\ \A t \in Deque!Threads : larray[t] \in 1 .. Len(arrays)
    /\ ditem \in [Deque!Threads -> Cell]
    /\ pushed \in 0 .. MaxPushes
    /\ received \in [Deque!Threads -> SUBSET Deque!Pushes]

\* Every index from top_ to the end has a slot of its own, with an item in it.
ItemsKept ==
    /\ DequeEnd - top <= Room
    /\ \A i \in top .. DequeEnd - 1 : Held[i] \in 1 .. Handed
    /\ \A t \in Deque!Threads : received[t] \subseteq 1 .. Handed

\* Once the array has been replaced or found large enough, the slot at bottom_ is
\* free, whatever the thieves do.
PushKept ==
    /\ Pushing => pushed \in Deque!Pushes /\ ditem[Owner] = pushed
    /\ dpc[Owner] \in {"putting", "publishing"} => bottom - top < Room
    /\ dpc[Owner] = "publishing" => Held[bottom] = pushed

\* While top_ is where a thread has seen it, the item it has read is the first one,
\* in an array that was replaced, too.
RacerSees == dpc[Owner] = "racing" /\ ltop[Owner] = top => ditem[Owner] = Held[top]

ThiefSees(t) ==
    ltop[t] = top =>
       /\ dpc[t] = "reading" => Deque!Get(arrays[larray[t]], top) = Held[top]
       /\ dpc[t] = "taking" => ditem[t] = Held[top]

AInv ==
    /\ ArraysTyped
    /\ ItemsKept
    /\ PushKept
    /\ RacerSees
    /\ \A t \in DequeThieves : ThiefSees(t)

LEMMA LastArray ==
    ArraysTyped =>
       /\ Len(arrays) \in Nat \ {0} /\ Deque!Array = arrays[Len(arrays)]
       /\ Deque!Array \in Arrays /\ Room \in Nat \ {0}
       /\ Held \in [Nat -> Cell]
<1> SUFFICES ASSUME ArraysTyped
             PROVE  /\ Len(arrays) \in Nat \ {0} /\ Deque!Array = arrays[Len(arrays)]
                    /\ Deque!Array \in Arrays /\ Room \in Nat \ {0}
                    /\ Held \in [Nat -> Cell]
  OBVIOUS
<1>1. Len(arrays) \in Nat \ {0} /\ Deque!Array = arrays[Len(arrays)] /\ Deque!Array \in Arrays
  BY DEF ArraysTyped, Deque!Array, Deque!Last
<1> QED
  BY <1>1, ArrayTyped, SlotTyped DEF Room, Held

LEMMA SameArrays ==
    ASSUME arrays' = arrays
    PROVE  Held' = Held /\ Room' = Room
BY DEF Held, Room, Deque!Array

LEMMA ContentIs == DequeTyped => Deque!Content = Run(Held, top, DequeEnd)
<1> SUFFICES ASSUME DequeTyped
             PROVE  Deque!Content = Run(Held, top, DequeEnd)
  OBVIOUS
<1>1. Deque!End = DequeEnd
  BY DEF Deque!End, Deque!Claimed, DequeEnd
<1>2. top \in Nat /\ DequeEnd \in Int
  BY DEF DequeTyped, DequeEnd
<1>3. \A i \in 1 .. DequeEnd - top : top + i - 1 \in Nat
  BY <1>2
<1>4. \A i \in 1 .. DequeEnd - top : Held[top + i - 1] = Deque!Get(Deque!Array, top + i - 1)
  BY <1>3 DEF Held
<1> QED
  BY <1>1, <1>4 DEF Deque!Content, Run

\* The items are among the pushes.
LEMMA HandedPushed ==
    ASSUME ArraysTyped, PushKept
    PROVE  Handed \in Nat /\ 1 .. Handed \subseteq Deque!Pushes
<1>1. MaxPushes \in Nat /\ pushed \in 0 .. MaxPushes
  BY ContainersAssumption DEF Deque!DequeParameters, ArraysTyped
<1>2. Pushing => pushed \in 1 .. MaxPushes
  BY DEF PushKept, Deque!Pushes
<1> QED
  BY <1>1, <1>2 DEF Handed, Deque!Pushes

\* A step that leaves the items where they are, and one of an empty deque.
LEMMA ItemsStay ==
    ASSUME DequeTyped, DequeTyped', ArraysTyped, ArraysTyped', ItemsKept,
           top' = top, received' = received, Handed' = Handed, Room <= Room',
           \/ DequeEnd' = DequeEnd /\ \A i \in top .. DequeEnd - 1 : Held'[i] = Held[i]
           \/ DequeEnd <= top /\ DequeEnd' <= top
    PROVE  ItemsKept' /\ UNCHANGED Deque!Deque!dequeVars
<1>1. /\ top \in Nat /\ DequeEnd \in Int /\ DequeEnd' \in Int
      /\ Room \in Nat /\ Room' \in Nat
  <2>1. (ArraysTyped => Room \in Nat \ {0})'
    BY LastArray, PTL
  <2> QED
    BY <2>1, LastArray DEF DequeTyped, DequeEnd
<1>2. Deque!Content = Run(Held, top, DequeEnd) /\ Deque!Content' = Run(Held', top, DequeEnd')
  <2>1. (DequeTyped => Deque!Content = Run(Held, top, DequeEnd))'
    BY ContentIs, PTL
  <2> QED
    BY <2>1, ContentIs
<1>3. CASE DequeEnd' = DequeEnd /\ \A i \in top .. DequeEnd - 1 : Held'[i] = Held[i]
  <2>1. \A i \in 1 .. DequeEnd - top : top + i - 1 \in top .. DequeEnd - 1
    BY <1>1
  <2>2. Run(Held', top, DequeEnd') = Run(Held, top, DequeEnd)
    BY <1>3, <2>1 DEF Run
  <2>3. ItemsKept'
    BY <1>1, <1>3 DEF ItemsKept
  <2> QED
    BY <1>2, <2>2, <2>3 DEF Deque!Deque!dequeVars
<1>4. CASE DequeEnd <= top /\ DequeEnd' <= top
  <2>1. ItemsKept'
    <3> DEFINE e == DequeEnd'
               r == Room'
    <3>1. top \in Nat /\ e \in Int /\ r \in Nat /\ e <= top
      BY <1>1, <1>4
    <3> HIDE DEF e, r
    <3>2. e - top <= r /\ \A i \in top .. e - 1 : FALSE
      BY <3>1
    <3>3. \A t \in Deque!Threads : received'[t] \subseteq 1 .. Handed'
      BY DEF ItemsKept
    <3> QED
      BY <3>2, <3>3 DEF ItemsKept, e, r
  <2>2. Run(Held', top, DequeEnd') = Run(Held, top, DequeEnd)
    BY <1>1, <1>4, RunEmpty
  <2> QED
    BY <1>2, <2>1, <2>2 DEF Deque!Deque!dequeVars
<1> QED
  BY <1>3, <1>4

\* What a thief has read stays true while its locals, the items and the array it
\* reads do; when top_ moves on it is of no use any more.
LEMMA SeesKept ==
    ASSUME NEW t \in DequeThieves, DInv, ArraysTyped, ThiefSees(t),
           dpc'[t] = dpc[t], ltop'[t] = ltop[t], larray'[t] = larray[t], ditem'[t] = ditem[t],
           \/ /\ top' = top
              /\ \A i \in top .. DequeEnd - 1 : Held'[i] = Held[i]
              /\ \/ arrays'[larray[t]] = arrays[larray[t]]
                 \/ arrays'[larray[t]] = Deque!Array'
           \/ top' = top + 1
    PROVE  ThiefSees(t)'
<1>1. top \in Nat /\ ltop[t] \in Nat /\ DequeEnd \in Int
  BY DequeThreads DEF DInv, DequeTyped, DequeEnd
<1>2. CASE top' = top + 1
  <2>1. dpc[t] # "idle" => ltop[t] <= top
    BY DEF DInv, ThiefKnows
  <2>2. dpc[t] # "idle" => ltop'[t] # top'
    BY <1>1, <1>2, <2>1
  <2> QED
    BY <2>2 DEF ThiefSees
<1>3. CASE /\ top' = top
           /\ \A i \in top .. DequeEnd - 1 : Held'[i] = Held[i]
           /\ \/ arrays'[larray[t]] = arrays[larray[t]]
              \/ arrays'[larray[t]] = Deque!Array'
  <2> SUFFICES ASSUME ltop[t] = top, dpc[t] \in {"reading", "taking"}
               PROVE  /\ dpc[t] = "reading" => Deque!Get(arrays'[larray[t]], top) = Held'[top]
                      /\ dpc[t] = "taking" => ditem[t] = Held'[top]
    BY <1>3 DEF ThiefSees
  <2>1. Held'[top] = Held[top]
    BY <1>1, <1>3 DEF DInv, ThiefKnows, Committed
  <2>2. Held'[top] = Deque!Get(Deque!Array', top)
    BY <1>1 DEF Held
  <2> QED
    BY <1>3, <2>1, <2>2 DEF ThiefSees
<1> QED
  BY <1>2, <1>3

\* An item goes to a thread.
LEMMA ReceiveKeeps ==
    ASSUME ArraysTyped, PushKept, ItemsKept, NEW t \in Deque!Threads, NEW x \in 1 .. Handed,
           Deque!Receive(t, x), Handed' = Handed
    PROVE  /\ received' \in [Deque!Threads -> SUBSET Deque!Pushes]
           /\ \A u \in Deque!Threads : received'[u] \subseteq 1 .. Handed'
<1>1. 1 .. Handed \subseteq Deque!Pushes
  BY HandedPushed
<1>2. received' = [received EXCEPT ![t] = @ \cup {x}]
  BY DEF Deque!Receive
<1> QED
  BY <1>1, <1>2 DEF ArraysTyped, ItemsKept

\* The owner's Push().
LEMMA PushArrays ==
    ASSUME DInv, DInv', AInv, Deque!PushStep(Owner)
    PROVE  AInv' /\ [Deque!Deque!DequeNext(Deque!Pushes)]_(Deque!Deque!dequeVars)
<1> USE DequeThreads DEF Deque!Goto
<1> DEFINE Step == [Deque!Deque!DequeNext(Deque!Pushes)]_(Deque!Deque!dequeVars)
<1>1. /\ DequeTyped /\ DequeTyped' /\ OwnerKnows /\ OwnerKnows'
      /\ ArraysTyped /\ ItemsKept /\ PushKept /\ RacerSees
      /\ \A t \in DequeThieves : ThiefSees(t)
  BY DEF DInv, AInv
<1>2. /\ top \in Nat /\ bottom \in Int /\ DequeEnd \in Int /\ pushed \in Int
      /\ Room \in Nat \ {0} /\ Deque!Array \in Arrays /\ Held \in [Nat -> Cell]
      /\ Len(arrays) \in Nat \ {0} /\ Deque!Array = arrays[Len(arrays)]
  BY <1>1, LastArray DEF DequeTyped, DequeEnd, ArraysTyped
<1>3. ASSUME NEW p, dpc' = [dpc EXCEPT ![Owner] = p]
      PROVE  dpc'[Owner] = p /\ \A t \in DequeThieves : dpc'[t] = dpc[t]
  BY <1>1, <1>3 DEF DequeTyped
<1>4. MaxPushes \in Nat
  BY ContainersAssumption DEF Deque!DequeParameters
<1>5. CASE Deque!PushBegin(Owner)
  <2>1. /\ dpc[Owner] = "idle" /\ dpc' = [dpc EXCEPT ![Owner] = "fitting"]
        /\ pushed < MaxPushes /\ pushed' = pushed + 1
        /\ ditem' = [ditem EXCEPT ![Owner] = pushed + 1]
        /\ UNCHANGED <<top, bottom, arrays, larray, ltop, received>>
    BY <1>5 DEF Deque!PushBegin
  <2>2. dpc'[Owner] = "fitting" /\ \A t \in DequeThieves : dpc'[t] = dpc[t]
    BY <1>3, <2>1
  <2>3. Held' = Held /\ Room' = Room
    BY <2>1, SameArrays
  <2>4. pushed' \in Deque!Pushes /\ pushed' \in 0 .. MaxPushes
    BY <1>1, <1>4, <2>1 DEF ArraysTyped, Deque!Pushes
  <2>5. ArraysTyped'
    BY <1>1, <2>1, <2>4 DEF ArraysTyped, Cell
  <2>6. DequeEnd' = DequeEnd /\ Handed' = Handed
    BY <1>2, <2>1, <2>2 DEF DequeEnd, Handed, Pushing
  <2>7. ItemsKept' /\ Step
    BY <1>1, <1>2, <2>1, <2>3, <2>5, <2>6, ItemsStay
  <2>8. PushKept' /\ RacerSees'
    BY <1>1, <2>1, <2>2, <2>4 DEF PushKept, RacerSees, Pushing, ArraysTyped
  <2>9. ASSUME NEW t \in DequeThieves
        PROVE  ThiefSees(t)'
    BY <1>1, <2>1, <2>2, <2>3, SeesKept DEF ArraysTyped
  <2> QED
    BY <2>5, <2>7, <2>8, <2>9 DEF AInv
<1>6. CASE Deque!PushFit(Owner)
  <2>1. /\ dpc[Owner] = "fitting" /\ dpc' = [dpc EXCEPT ![Owner] = "putting"]
        /\ arrays' = IF Deque!IsFull(Deque!Array, lbottom[Owner], top)
                     THEN Append(arrays, Deque!Resize(Deque!Array, lbottom[Owner], top))
                     ELSE arrays
        /\ UNCHANGED <<top, bottom, larray, ltop, ditem, pushed, received>>
    BY <1>6 DEF Deque!PushFit
  <2>2. dpc'[Owner] = "putting" /\ \A t \in DequeThieves : dpc'[t] = dpc[t]
    BY <1>3, <2>1
  <2>3. lbottom[Owner] = bottom /\ top <= bottom /\ bottom \in Nat /\ DequeEnd = bottom /\ bottom - top <= Room
    BY <1>1, <1>2, <2>1 DEF OwnerKnows, ItemsKept, DequeEnd
  <2>4. /\ arrays' \in Seq(Arrays) /\ Len(arrays') >= Len(arrays)
        /\ \A n \in 1 .. Len(arrays) : arrays'[n] = arrays[n]
        /\ bottom - top < Room' /\ Room <= Room'
        /\ \A i \in top .. bottom - 1 : Held'[i] = Held[i]
    <3>1. CASE Deque!IsFull(Deque!Array, bottom, top)
      <4> DEFINE r == Deque!Resize(Deque!Array, bottom, top)
      <4>1. /\ r \in Arrays /\ Deque!CapacityOf(r) = 2 * Room
            /\ \A i \in top .. bottom - 1 : Deque!Get(r, i) = Deque!Get(Deque!Array, i)
        BY <1>2, <2>3, ResizeKeeps DEF Room
      <4>2. arrays' = Append(arrays, r)
        BY <2>1, <2>3, <3>1
      <4> HIDE DEF r
      <4>3. /\ arrays' \in Seq(Arrays) /\ Len(arrays') = Len(arrays) + 1 /\ arrays'[Len(arrays')] = r
            /\ \A n \in 1 .. Len(arrays) : arrays'[n] = arrays[n]
        BY <1>1, <4>1, <4>2 DEF ArraysTyped
      <4>4. Deque!Array' = r
        BY <4>3 DEF Deque!Array, Deque!Last
      <4>5. Room' = 2 * Room /\ \A i \in top .. bottom - 1 : Held'[i] = Held[i]
        BY <1>2, <4>1, <4>4 DEF Room, Held
      <4> QED
        BY <1>2, <2>3, <4>3, <4>5
    <3>2. CASE ~ Deque!IsFull(Deque!Array, bottom, top)
      <4>1. arrays' = arrays
        BY <2>1, <2>3, <3>2
      <4>2. bottom - top < Room
        BY <1>2, <2>3, <3>2 DEF Deque!IsFull, Room
      <4> QED
        BY <1>1, <1>2, <4>1, <4>2, SameArrays DEF ArraysTyped
    <3> QED
      BY <3>1, <3>2
  <2>5. ArraysTyped'
    BY <1>1, <1>2, <2>1, <2>4 DEF ArraysTyped
  <2>6. DequeEnd' = DequeEnd /\ Handed' = Handed
    BY <2>1, <2>2 DEF DequeEnd, Handed, Pushing
  <2>7. ItemsKept' /\ Step
    BY <1>1, <2>1, <2>3, <2>4, <2>5, <2>6, ItemsStay
  <2>8. PushKept' /\ RacerSees'
    BY <1>1, <2>1, <2>2, <2>4 DEF PushKept, RacerSees, Pushing
  <2>9. ASSUME NEW t \in DequeThieves
        PROVE  ThiefSees(t)'
    <3>1. arrays'[larray[t]] = arrays[larray[t]]
      BY <1>1, <2>4 DEF ArraysTyped
    <3> QED
      BY <1>1, <2>1, <2>2, <2>3, <2>4, <3>1, SeesKept
  <2> QED
    BY <2>5, <2>7, <2>8, <2>9 DEF AInv
<1>7. CASE Deque!PushPut(Owner)
  <2>1. /\ dpc[Owner] = "putting" /\ dpc' = [dpc EXCEPT ![Owner] = "publishing"]
        /\ arrays' = [arrays EXCEPT ![Len(arrays)] = Deque!Put(@, lbottom[Owner], ditem[Owner])]
        /\ UNCHANGED <<top, bottom, larray, ltop, ditem, pushed, received>>
    BY <1>7 DEF Deque!PushPut
  <2>2. dpc'[Owner] = "publishing" /\ \A t \in DequeThieves : dpc'[t] = dpc[t]
    BY <1>3, <2>1
  <2>3. /\ lbottom[Owner] = bottom /\ top <= bottom /\ bottom \in Nat /\ DequeEnd = bottom
        /\ bottom - top < Room /\ ditem[Owner] = pushed /\ pushed \in Cell
    BY <1>1, <1>2, <2>1 DEF OwnerKnows, PushKept, Pushing, DequeEnd, Cell
  <2> DEFINE r == Deque!Put(Deque!Array, bottom, pushed)
  <2>4. /\ r \in Arrays /\ Deque!CapacityOf(r) = Room
        /\ Deque!Get(r, bottom) = pushed
        /\ \A i \in top .. bottom - 1 : Deque!Get(r, i) = Deque!Get(Deque!Array, i)
    <3>1. \A i \in top .. bottom - 1 : i \in Nat /\ bottom # i /\ bottom - i < Room /\ i - bottom < Room
      BY <1>2, <2>3
    <3> QED
      BY <1>2, <2>3, <3>1, PutKeeps DEF Room
  <2>5. arrays' = [arrays EXCEPT ![Len(arrays)] = r]
    BY <1>2, <2>1, <2>3
  <2> HIDE DEF r
  <2>6. /\ arrays' \in Seq(Arrays) /\ Len(arrays') = Len(arrays) /\ arrays'[Len(arrays)] = r
        /\ \A n \in 1 .. Len(arrays) : n # Len(arrays) => arrays'[n] = arrays[n]
    BY <1>1, <1>2, <2>4, <2>5 DEF ArraysTyped
  <2>7. Deque!Array' = r
    BY <2>6 DEF Deque!Array, Deque!Last
  <2>8. Room' = Room /\ Held'[bottom] = pushed /\ \A i \in top .. bottom - 1 : Held'[i] = Held[i]
    BY <1>2, <2>3, <2>4, <2>7 DEF Room, Held
  <2>9. ArraysTyped'
    BY <1>1, <1>2, <2>1, <2>6 DEF ArraysTyped
  <2>10. DequeEnd' = DequeEnd /\ Handed' = Handed
    BY <2>1, <2>2 DEF DequeEnd, Handed, Pushing
  <2>11. ItemsKept' /\ Step
    BY <1>1, <1>2, <2>1, <2>3, <2>8, <2>9, <2>10, ItemsStay
  <2>12. PushKept' /\ RacerSees'
    BY <1>1, <2>1, <2>2, <2>3, <2>8 DEF PushKept, RacerSees, Pushing
  <2>13. ASSUME NEW t \in DequeThieves
         PROVE  ThiefSees(t)'
    <3>1. arrays'[larray[t]] = arrays[larray[t]] \/ arrays'[larray[t]] = Deque!Array'
      BY <1>1, <2>6, <2>7 DEF ArraysTyped
    <3> QED
      BY <1>1, <2>1, <2>2, <2>3, <2>8, <3>1, SeesKept
  <2> QED
    BY <2>9, <2>11, <2>12, <2>13 DEF AInv
<1>8. CASE Deque!PushPublish(Owner)
  <2>1. /\ dpc[Owner] = "publishing" /\ dpc' = [dpc EXCEPT ![Owner] = "idle"]
        /\ bottom' = lbottom[Owner] + 1
        /\ UNCHANGED <<top, arrays, larray, ltop, ditem, pushed, received>>
    BY <1>8 DEF Deque!PushPublish
  <2>2. dpc'[Owner] = "idle" /\ \A t \in DequeThieves : dpc'[t] = dpc[t]
    BY <1>3, <2>1
  <2>3. Held' = Held /\ Room' = Room
    BY <2>1, SameArrays
  <2>4. /\ bottom' = bottom + 1 /\ top <= bottom /\ bottom \in Nat /\ DequeEnd = bottom /\ DequeEnd' = bottom + 1
        /\ bottom - top < Room /\ Held[bottom] = pushed /\ pushed \in Deque!Pushes
        /\ Handed = pushed - 1 /\ Handed' = pushed
    BY <1>1, <1>2, <2>1, <2>2 DEF OwnerKnows, PushKept, Pushing, Handed, DequeEnd
  <2>5. ArraysTyped'
    BY <1>1, <2>1 DEF ArraysTyped
  <2>6. ItemsKept'
    <3>1. 1 .. Handed \subseteq 1 .. Handed' /\ pushed \in 1 .. Handed'
      BY <2>4, <1>2 DEF Deque!Pushes
    <3>2. \A i \in top .. bottom : i = bottom \/ i \in top .. DequeEnd - 1
      BY <1>2, <2>4
    <3>3. \A i \in top .. bottom : Held[i] \in 1 .. Handed'
      BY <1>1, <2>4, <3>1, <3>2 DEF ItemsKept
    <3>4. \A t \in Deque!Threads : received[t] \subseteq 1 .. Handed'
      BY <1>1, <3>1 DEF ItemsKept
    <3>5. DequeEnd' - top <= Room /\ DequeEnd' - 1 = bottom
      BY <1>2, <2>4
    <3> QED
      BY <2>1, <2>3, <3>3, <3>4, <3>5 DEF ItemsKept
  <2>7. Deque!Deque!PushBack(pushed)
    <3>1. Deque!Content = Run(Held, top, bottom)
      BY <1>1, <2>4, ContentIs
    <3>2. Deque!Content' = Run(Held, top, bottom + 1)
      <4>1. (DequeTyped => Deque!Content = Run(Held, top, DequeEnd))'
        BY ContentIs, PTL
      <4> QED
        BY <1>1, <2>1, <2>3, <2>4, <4>1
    <3>3. Deque!Content' = Append(Deque!Content, pushed)
      BY <1>2, <2>4, <3>1, <3>2, RunAppend
    <3>4. pushed \notin Deque!Deque!Range(Deque!Content)
      <4>1. ASSUME NEW i \in 1 .. bottom - top
            PROVE  Run(Held, top, bottom)[i] # pushed
        <5>1. top + i - 1 \in top .. DequeEnd - 1 /\ Run(Held, top, bottom)[i] = Held[top + i - 1]
          BY <1>2, <2>4 DEF Run
        <5>2. Held[top + i - 1] \in 1 .. pushed - 1
          BY <1>1, <2>4, <5>1 DEF ItemsKept
        <5> QED
          BY <1>2, <5>1, <5>2
      <4>2. DOMAIN Run(Held, top, bottom) = 1 .. bottom - top
        BY DEF Run
      <4> QED
        BY <3>1, <4>1, <4>2 DEF Deque!Deque!Range
    <3>5. \A t \in DOMAIN received : pushed \notin received[t]
      BY <1>1, <1>2, <2>4 DEF ItemsKept, ArraysTyped
    <3> QED
      BY <2>1, <3>3, <3>4, <3>5 DEF Deque!Deque!PushBack
  <2>8. Step
    BY <2>4, <2>7 DEF Deque!Deque!DequeNext
  <2>9. PushKept' /\ RacerSees'
    BY <2>2 DEF PushKept, RacerSees, Pushing
  <2>10. ASSUME NEW t \in DequeThieves
         PROVE  ThiefSees(t)'
    BY <1>1, <2>1, <2>2, <2>3, SeesKept
  <2> QED
    BY <2>5, <2>6, <2>8, <2>9, <2>10 DEF AInv
<1> QED
  BY <1>5, <1>6, <1>7, <1>8 DEF Deque!PushStep

\* The owner's Pop().
LEMMA PopArrays ==
    ASSUME DInv, DInv', AInv, Deque!PopStep(Owner)
    PROVE  AInv' /\ [Deque!Deque!DequeNext(Deque!Pushes)]_(Deque!Deque!dequeVars)
<1> USE DequeThreads DEF Deque!Goto
<1> DEFINE Step == [Deque!Deque!DequeNext(Deque!Pushes)]_(Deque!Deque!dequeVars)
<1>1. /\ DequeTyped /\ DequeTyped' /\ OwnerKnows /\ OwnerKnows'
      /\ ArraysTyped /\ ItemsKept /\ PushKept /\ RacerSees
      /\ \A t \in DequeThieves : ThiefSees(t)
  BY DEF DInv, AInv
<1>2. /\ top \in Nat /\ bottom \in Int /\ DequeEnd \in Int
      /\ Room \in Nat \ {0} /\ Held \in [Nat -> Cell]
  BY <1>1, LastArray DEF DequeTyped, DequeEnd
\* Pop() leaves the arrays alone.
<1>3. /\ arrays' = arrays /\ larray' = larray /\ pushed' = pushed
      /\ Held' = Held /\ Room' = Room
      /\ \A t \in DequeThieves :
            dpc'[t] = dpc[t] /\ ltop'[t] = ltop[t] /\ ditem'[t] = ditem[t]
  <2>1. /\ arrays' = arrays /\ larray' = larray /\ pushed' = pushed
        /\ \E p : dpc' = [dpc EXCEPT ![Owner] = p]
        /\ \/ ltop' = ltop
           \/ \E n : ltop' = [ltop EXCEPT ![Owner] = n]
        /\ \/ ditem' = ditem
           \/ \E x : ditem' = [ditem EXCEPT ![Owner] = x]
    BY DEF Deque!PopStep, Deque!PopClaim, Deque!PopLook, Deque!PopRace, Deque!PopRestore
  <2> QED
    BY <1>1, <2>1, SameArrays DEF DequeTyped, ArraysTyped
<1>4. ASSUME NEW t \in DequeThieves, top' \in {top, top + 1}
      PROVE  ThiefSees(t)'
  BY <1>1, <1>3, <1>4, SeesKept
<1>5. ASSUME NEW p, dpc' = [dpc EXCEPT ![Owner] = p]
      PROVE  dpc'[Owner] = p
  BY <1>1, <1>5 DEF DequeTyped
<1>6. Deque!Content = Run(Held, top, DequeEnd) /\ Deque!Content' = Run(Held, top', DequeEnd')
  <2>1. (DequeTyped => Deque!Content = Run(Held, top, DequeEnd))'
    BY ContentIs, PTL
  <2> QED
    BY <1>1, <1>3, <2>1, ContentIs
<1>7. CASE Deque!PopClaim(Owner)
  <2>1. /\ dpc[Owner] = "idle" /\ dpc' = [dpc EXCEPT ![Owner] = "claimed"]
        /\ bottom' = bottom - 1
        /\ UNCHANGED <<top, ltop, ditem, received>>
    BY <1>7 DEF Deque!PopClaim
  <2>2. dpc'[Owner] = "claimed"
    BY <1>5, <2>1
  <2>3. ArraysTyped'
    BY <1>1, <1>3, <2>1 DEF ArraysTyped
  <2>4. DequeEnd' = DequeEnd /\ Handed' = Handed
    BY <1>2, <1>3, <2>1, <2>2 DEF DequeEnd, Handed, Pushing
  <2>5. ItemsKept' /\ Step
    BY <1>1, <1>2, <1>3, <2>1, <2>3, <2>4, ItemsStay
  <2>6. PushKept' /\ RacerSees'
    BY <2>2 DEF PushKept, RacerSees, Pushing
  <2> QED
    BY <1>4, <2>1, <2>3, <2>5, <2>6 DEF AInv
<1>8. CASE Deque!PopLook(Owner) /\ top < bottom
  <2>1. lbottom[Owner] = bottom /\ dpc[Owner] = "claimed"
    BY <1>1, <1>8 DEF OwnerKnows, Deque!PopLook
  <2>2. /\ dpc' = [dpc EXCEPT ![Owner] = "idle"]
        /\ Deque!Receive(Owner, Deque!Get(Deque!Array, bottom))
        /\ UNCHANGED <<top, bottom, ditem>>
    BY <1>8, <2>1 DEF Deque!PopLook, Deque!Behind
  <2>3. dpc'[Owner] = "idle"
    BY <1>5, <2>2
  <2>4. DequeEnd = bottom + 1 /\ DequeEnd' = bottom /\ bottom \in Nat /\ Handed' = Handed
    BY <1>2, <1>3, <1>8, <2>1, <2>2, <2>3 DEF DequeEnd, Handed, Pushing
  <2>5. Deque!Get(Deque!Array, bottom) = Held[bottom]
    BY <2>4 DEF Held
  <2>6. Held[bottom] \in 1 .. Handed
    <3>1. bottom \in top .. DequeEnd - 1
      BY <1>2, <1>8, <2>4
    <3> QED
      BY <1>1, <3>1 DEF ItemsKept
  <2>7. /\ received' \in [Deque!Threads -> SUBSET Deque!Pushes]
        /\ \A u \in Deque!Threads : received'[u] \subseteq 1 .. Handed'
    BY <1>1, <2>2, <2>4, <2>5, <2>6, ReceiveKeeps
  <2>8. ArraysTyped'
    BY <1>1, <1>3, <2>2, <2>7 DEF ArraysTyped
  <2>9. ItemsKept'
    <3>1. DequeEnd' - top <= Room /\ \A i \in top .. DequeEnd' - 1 : i \in top .. DequeEnd - 1
      BY <1>1, <1>2, <2>4 DEF ItemsKept
    <3> QED
      BY <1>1, <1>3, <2>2, <2>4, <2>7, <3>1 DEF ItemsKept
  <2>10. Deque!Deque!PopBack(Owner)
    <3>1. /\ Deque!Content # <<>> /\ Deque!Deque!Last(Deque!Content) = Held[bottom]
          /\ Deque!Deque!Front(Deque!Content) = Deque!Content'
      <4>1. top <= bottom /\ bottom \in Nat
        BY <1>2, <1>8, <2>4
      <4>2. Deque!Content = Run(Held, top, bottom + 1) /\ Deque!Content' = Run(Held, top, bottom)
        BY <1>6, <2>2, <2>4
      <4> QED
        BY <1>2, <4>1, <4>2, RunBack
    <3> QED
      BY <2>2, <2>5, <3>1 DEF Deque!Deque!PopBack, Deque!Receive
  <2>11. PushKept' /\ RacerSees'
    BY <2>3 DEF PushKept, RacerSees, Pushing
  <2> QED
    BY <1>4, <2>2, <2>8, <2>9, <2>10, <2>11 DEF AInv, Deque!Deque!DequeNext
<1>9. CASE Deque!PopLook(Owner) /\ ~ (top < bottom)
  <2>1. lbottom[Owner] = bottom /\ dpc[Owner] = "claimed"
    BY <1>1, <1>9 DEF OwnerKnows, Deque!PopLook
  <2>2. /\ IF top = bottom
           THEN /\ ditem' = [ditem EXCEPT ![Owner] = Deque!Get(Deque!Array, bottom)]
                /\ dpc' = [dpc EXCEPT ![Owner] = "racing"]
           ELSE /\ ditem' = [ditem EXCEPT ![Owner] = None]
                /\ dpc' = [dpc EXCEPT ![Owner] = "restoring"]
        /\ ltop' = [ltop EXCEPT ![Owner] = top]
        /\ UNCHANGED <<top, bottom, received>>
    BY <1>9, <2>1 DEF Deque!PopLook, Deque!Behind
  <2>3. dpc'[Owner] = IF top = bottom THEN "racing" ELSE "restoring"
    BY <1>5, <2>2
  <2>4. top = bottom => Deque!Get(Deque!Array, bottom) = Held[top]
    BY <1>2 DEF Held
  <2>5. ArraysTyped'
    <3>1. Held[top] \in Cell /\ None \in Cell
      BY <1>2 DEF Cell
    <3> QED
      BY <1>1, <1>3, <2>2, <2>4, <3>1 DEF ArraysTyped
  <2>6. Handed' = Handed
    BY <1>3, <2>1, <2>3 DEF Handed, Pushing
  <2>7. ItemsKept' /\ Step
    <3>1. CASE top = bottom
      <4>1. DequeEnd' = DequeEnd
        BY <2>1, <2>2, <2>3, <3>1 DEF DequeEnd
      <4> QED
        BY <1>1, <1>2, <1>3, <2>2, <2>5, <2>6, <4>1, ItemsStay
    <3>2. CASE top # bottom
      <4>1. DequeEnd <= top /\ DequeEnd' <= top
        BY <1>2, <1>9, <2>1, <2>2, <2>3, <3>2 DEF DequeEnd
      <4> QED
        BY <1>1, <1>2, <1>3, <2>2, <2>5, <2>6, <4>1, ItemsStay
    <3> QED
      BY <3>1, <3>2
  <2>8. PushKept' /\ RacerSees'
    <3>1. dpc'[Owner] = "racing" => ditem'[Owner] = Held[top]
      BY <1>1, <2>2, <2>3, <2>4 DEF ArraysTyped
    <3> QED
      BY <1>3, <2>2, <2>3, <3>1 DEF PushKept, RacerSees, Pushing
  <2> QED
    BY <1>4, <2>2, <2>5, <2>7, <2>8 DEF AInv
<1>10. CASE Deque!PopRace(Owner) /\ top = ltop[Owner]
  <2>1. /\ dpc[Owner] = "racing" /\ dpc' = [dpc EXCEPT ![Owner] = "restoring"]
        /\ top' = top + 1 /\ Deque!Receive(Owner, ditem[Owner])
        /\ UNCHANGED <<bottom, ditem>>
    BY <1>10 DEF Deque!PopRace
  <2>2. dpc'[Owner] = "restoring"
    BY <1>5, <2>1
  <2>3. /\ top = bottom /\ ditem[Owner] = Held[top]
        /\ DequeEnd = top + 1 /\ DequeEnd' = top /\ Handed' = Handed
    BY <1>1, <1>2, <1>3, <1>10, <2>1, <2>2 DEF OwnerKnows, RacerSees, DequeEnd, Handed, Pushing
  <2>4. Held[top] \in 1 .. Handed
    <3>1. top \in top .. DequeEnd - 1
      BY <1>2, <2>3
    <3> QED
      BY <1>1, <3>1 DEF ItemsKept
  <2>5. /\ received' \in [Deque!Threads -> SUBSET Deque!Pushes]
        /\ \A u \in Deque!Threads : received'[u] \subseteq 1 .. Handed'
    BY <1>1, <2>1, <2>3, <2>4, ReceiveKeeps
  <2>6. ArraysTyped'
    BY <1>1, <1>3, <2>1, <2>5 DEF ArraysTyped
  <2>7. ItemsKept'
    <3>1. DequeEnd' - top' <= Room' /\ \A i \in top' .. DequeEnd' - 1 : FALSE
      BY <1>2, <1>3, <2>1, <2>3
    <3> QED
      BY <2>5, <3>1 DEF ItemsKept
  <2>8. Deque!Deque!PopBack(Owner)
    <3>1. /\ Deque!Content # <<>> /\ Deque!Deque!Last(Deque!Content) = Held[top]
          /\ Deque!Deque!Front(Deque!Content) = Run(Held, top, top)
      <4>1. top <= top
        BY <1>2
      <4>2. Deque!Content = Run(Held, top, top + 1)
        BY <1>6, <2>3
      <4> QED
        BY <1>2, <4>1, <4>2, RunBack
    <3>2. Run(Held, top, top) = <<>> /\ Run(Held, top + 1, top) = <<>>
      <4>1. top + 1 \in Nat /\ top <= top + 1 /\ top \in Int
        BY <1>2
      <4> QED
        BY <1>2, <4>1, RunEmpty
    <3>3. Deque!Content' = <<>>
      BY <1>6, <2>1, <2>3, <3>2
    <3> QED
      BY <2>1, <2>3, <3>1, <3>2, <3>3 DEF Deque!Deque!PopBack, Deque!Receive
  <2>9. PushKept' /\ RacerSees'
    BY <2>2 DEF PushKept, RacerSees, Pushing
  <2> QED
    BY <1>4, <2>1, <2>6, <2>7, <2>8, <2>9 DEF AInv, Deque!Deque!DequeNext
<1>11. CASE \/ Deque!PopRace(Owner) /\ top # ltop[Owner]
            \/ Deque!PopRestore(Owner)
  <2>1. /\ \/ /\ dpc[Owner] = "racing" /\ dpc' = [dpc EXCEPT ![Owner] = "restoring"]
              /\ top # ltop[Owner] /\ bottom' = bottom
           \/ /\ dpc[Owner] = "restoring" /\ dpc' = [dpc EXCEPT ![Owner] = "idle"]
              /\ bottom' = ltop[Owner]
        /\ UNCHANGED <<top, ditem, received>>
    BY <1>11 DEF Deque!PopRace, Deque!PopRestore
  <2>2. \/ dpc[Owner] = "racing" /\ dpc'[Owner] = "restoring"
        \/ dpc[Owner] = "restoring" /\ dpc'[Owner] = "idle"
    BY <1>5, <2>1
  <2>3. ArraysTyped'
    BY <1>1, <1>3, <2>1 DEF ArraysTyped
  <2>4. DequeEnd <= top /\ DequeEnd' <= top
    BY <1>1, <1>2, <2>1, <2>2 DEF OwnerKnows, DequeEnd
  <2>5. Handed' = Handed
    BY <1>3, <2>2 DEF Handed, Pushing
  <2>6. ItemsKept' /\ Step
    BY <1>1, <1>2, <1>3, <2>1, <2>3, <2>4, <2>5, ItemsStay
  <2>7. PushKept' /\ RacerSees'
    BY <2>2 DEF PushKept, RacerSees, Pushing
  <2> QED
    BY <1>4, <2>1, <2>3, <2>6, <2>7 DEF AInv
<1> QED
  BY <1>7, <1>8, <1>9, <1>10, <1>11 DEF Deque!PopStep

\* A thief's Steal().
LEMMA StealArrays ==
    ASSUME DInv, DInv', AInv, NEW t \in DequeThieves, Deque!StealStep(t)
    PROVE  AInv' /\ [Deque!Deque!DequeNext(Deque!Pushes)]_(Deque!Deque!dequeVars)
<1> USE DequeThreads DEF Deque!Goto
<1> DEFINE Step == [Deque!Deque!DequeNext(Deque!Pushes)]_(Deque!Deque!dequeVars)
<1>1. /\ DequeTyped /\ DequeTyped' /\ OwnerKnows /\ OwnerKnows'
      /\ ArraysTyped /\ ItemsKept /\ PushKept /\ RacerSees
      /\ \A u \in DequeThieves : ThiefSees(u)
  BY DEF DInv, AInv
<1>2. /\ top \in Nat /\ bottom \in Int /\ DequeEnd \in Int
      /\ Room \in Nat \ {0} /\ Held \in [Nat -> Cell]
      /\ Len(arrays) \in Nat \ {0} /\ Deque!Array = arrays[Len(arrays)]
  BY <1>1, LastArray DEF DequeTyped, DequeEnd
\* Steal() leaves the arrays, bottom_ and the other threads alone.
<1>3. /\ arrays' = arrays /\ bottom' = bottom /\ pushed' = pushed
      /\ Held' = Held /\ Room' = Room
      /\ \A u \in Deque!Threads \ {t} :
            dpc'[u] = dpc[u] /\ ltop'[u] = ltop[u] /\ larray'[u] = larray[u] /\ ditem'[u] = ditem[u]
      /\ lbottom' = lbottom
  <2>1. /\ arrays' = arrays /\ bottom' = bottom /\ pushed' = pushed /\ lbottom' = lbottom
        /\ \E p : dpc' = [dpc EXCEPT ![t] = p]
        /\ \/ ltop' = ltop
           \/ \E n : ltop' = [ltop EXCEPT ![t] = n]
        /\ \/ larray' = larray
           \/ \E n : larray' = [larray EXCEPT ![t] = n]
        /\ \/ ditem' = ditem
           \/ \E x : ditem' = [ditem EXCEPT ![t] = x]
    BY DEF Deque!StealStep, Deque!StealTop, Deque!StealBottom, Deque!StealArray,
       Deque!StealRead, Deque!StealTake
  <2> QED
    BY <1>1, <2>1, SameArrays DEF DequeTyped, ArraysTyped
<1>4. DequeEnd' = DequeEnd /\ Handed' = Handed
  BY <1>3 DEF DequeEnd, Handed, Pushing
<1>5. ASSUME NEW u \in DequeThieves \ {t}, top' \in {top, top + 1}
      PROVE  ThiefSees(u)'
  BY <1>1, <1>3, <1>5, SeesKept
<1>6. ASSUME top' \in {top, top + 1}
      PROVE  PushKept'
  <2>1. dpc'[Owner] = dpc[Owner] /\ ditem'[Owner] = ditem[Owner] /\ (Pushing' <=> Pushing)
    BY <1>3 DEF Pushing
  <2>2. bottom - top < Room => bottom - top' < Room
    <3>1. CASE top' = top
      BY <3>1
    <3>2. CASE top' = top + 1
      <4>1. bottom - top < Room => bottom - (top + 1) < Room
        BY <1>2
      <4> QED
        BY <3>2, <4>1
    <3> QED
      BY <1>6, <3>1, <3>2
  <2> QED
    BY <1>1, <1>3, <2>1, <2>2 DEF PushKept
<1>7. ASSUME NEW p, dpc' = [dpc EXCEPT ![t] = p]
      PROVE  dpc'[t] = p
  BY <1>1, <1>7 DEF DequeTyped
<1>8. ASSUME top' = top
      PROVE  RacerSees'
  BY <1>1, <1>3, <1>8 DEF RacerSees
<1>9. ASSUME ArraysTyped', top' = top, received' = received
      PROVE  ItemsKept' /\ Step
  BY <1>1, <1>2, <1>3, <1>4, <1>9, ItemsStay
<1>10. CASE Deque!StealTop(t) \/ Deque!StealBottom(t)
  <2>1. /\ \E p \in {"idle", "topped", "bottomed"} : dpc' = [dpc EXCEPT ![t] = p]
        /\ UNCHANGED <<top, larray, ditem, received>>
    BY <1>10 DEF Deque!StealTop, Deque!StealBottom
  <2>2. dpc'[t] \in {"idle", "topped", "bottomed"}
    BY <1>7, <2>1
  <2>3. ArraysTyped'
    BY <1>1, <1>3, <2>1 DEF ArraysTyped
  <2>4. ThiefSees(t)'
    BY <2>2 DEF ThiefSees
  <2> QED
    BY <1>5, <1>6, <1>8, <1>9, <2>1, <2>3, <2>4 DEF AInv
<1>11. CASE Deque!StealArray(t)
  <2>1. /\ dpc' = [dpc EXCEPT ![t] = "reading"]
        /\ larray' = [larray EXCEPT ![t] = Len(arrays)]
        /\ UNCHANGED <<top, ltop, ditem, received>>
    BY <1>11 DEF Deque!StealArray
  <2>2. dpc'[t] = "reading" /\ larray'[t] = Len(arrays)
    BY <1>1, <1>7, <2>1 DEF ArraysTyped
  <2>3. ArraysTyped'
    <3>1. Len(arrays) \in 1 .. Len(arrays)
      BY <1>2
    <3> QED
      BY <1>1, <1>2, <1>3, <2>1, <3>1 DEF ArraysTyped
  <2>4. ThiefSees(t)'
    BY <1>2, <1>3, <2>1, <2>2 DEF ThiefSees, Held
  <2> QED
    BY <1>5, <1>6, <1>8, <1>9, <2>1, <2>3, <2>4 DEF AInv
<1>12. CASE Deque!StealRead(t)
  <2>1. /\ dpc[t] = "reading" /\ dpc' = [dpc EXCEPT ![t] = "taking"]
        /\ ditem' = [ditem EXCEPT ![t] = Deque!Get(arrays[larray[t]], ltop[t])]
        /\ UNCHANGED <<top, ltop, larray, received>>
    BY <1>12 DEF Deque!StealRead
  <2>2. dpc'[t] = "taking" /\ ditem'[t] = Deque!Get(arrays[larray[t]], ltop[t])
    BY <1>1, <1>7, <2>1 DEF ArraysTyped
  <2>3. ArraysTyped'
    <3>1. arrays[larray[t]] \in Arrays /\ ltop[t] \in Nat
      BY <1>1 DEF ArraysTyped, DequeTyped
    <3>2. Deque!Get(arrays[larray[t]], ltop[t]) \in Cell
      BY <3>1, SlotTyped
    <3> QED
      BY <1>1, <1>3, <2>1, <3>2 DEF ArraysTyped
  <2>4. ThiefSees(t)'
    BY <1>1, <1>3, <2>1, <2>2 DEF ThiefSees
  <2> QED
    BY <1>5, <1>6, <1>8, <1>9, <2>1, <2>3, <2>4 DEF AInv
<1>13. CASE Deque!StealTake(t) /\ top # ltop[t]
  <2>1. dpc' = [dpc EXCEPT ![t] = "idle"] /\ UNCHANGED <<top, larray, ditem, received>>
    BY <1>13 DEF Deque!StealTake, Deque!TopUnmoved
  <2>2. dpc'[t] = "idle"
    BY <1>7, <2>1
  <2>3. ArraysTyped'
    BY <1>1, <1>3, <2>1 DEF ArraysTyped
  <2>4. ThiefSees(t)'
    BY <2>2 DEF ThiefSees
  <2> QED
    BY <1>5, <1>6, <1>8, <1>9, <2>1, <2>3, <2>4 DEF AInv
<1>14. CASE Deque!StealTake(t) /\ top = ltop[t]
  <2>1. /\ dpc[t] = "taking" /\ dpc' = [dpc EXCEPT ![t] = "idle"]
        /\ top' = top + 1 /\ Deque!Receive(t, ditem[t])
        /\ UNCHANGED <<larray, ditem>>
    BY <1>14 DEF Deque!StealTake, Deque!TopUnmoved
  <2>2. dpc'[t] = "idle"
    BY <1>7, <2>1
  <2>3. ditem[t] = Held[top] /\ top < DequeEnd /\ DequeEnd \in Nat
    <3>1. ThiefKnows(t) /\ ThiefSees(t)
      BY <1>1 DEF DInv
    <3> QED
      BY <1>2, <1>14, <2>1, <3>1 DEF ThiefKnows, ThiefSees, Committed
  <2>4. Held[top] \in 1 .. Handed
    <3>1. top \in top .. DequeEnd - 1
      BY <1>2, <2>3
    <3> QED
      BY <1>1, <3>1 DEF ItemsKept
  <2>5. /\ received' \in [Deque!Threads -> SUBSET Deque!Pushes]
        /\ \A u \in Deque!Threads : received'[u] \subseteq 1 .. Handed'
    BY <1>1, <1>4, <2>1, <2>3, <2>4, ReceiveKeeps
  <2>6. ArraysTyped'
    BY <1>1, <1>3, <2>1, <2>5 DEF ArraysTyped
  <2>7. ItemsKept'
    <3>1. DequeEnd - top' <= Room /\ \A i \in top' .. DequeEnd - 1 : i \in top .. DequeEnd - 1
      BY <1>1, <1>2, <2>1 DEF ItemsKept
    <3> QED
      BY <1>1, <1>3, <1>4, <2>5, <3>1 DEF ItemsKept
  <2>8. Deque!Deque!StealFront(t)
    <3>1. Deque!Content = Run(Held, top, DequeEnd)
      BY <1>1, ContentIs
    <3>2. Deque!Content' = Run(Held, top + 1, DequeEnd)
      <4>1. (DequeTyped => Deque!Content = Run(Held, top, DequeEnd))'
        BY ContentIs, PTL
      <4> QED
        BY <1>1, <1>3, <1>4, <2>1, <4>1
    <3>3. /\ Deque!Content # <<>> /\ Head(Deque!Content) = Held[top]
          /\ Tail(Deque!Content) = Deque!Content'
      BY <1>2, <2>3, <3>1, <3>2, RunFront
    <3> QED
      BY <2>1, <2>3, <3>3 DEF Deque!Deque!StealFront, Deque!Receive
  <2>9. RacerSees'
    <3>1. dpc[Owner] = "racing" => ltop[Owner] <= top /\ ltop[Owner] \in Int
      BY <1>1, <1>2 DEF OwnerKnows
    <3> QED
      BY <1>2, <1>3, <2>1, <3>1 DEF RacerSees
  <2>10. ThiefSees(t)'
    BY <2>2 DEF ThiefSees
  <2> QED
    BY <1>5, <1>6, <2>1, <2>6, <2>7, <2>8, <2>9, <2>10 DEF AInv, Deque!Deque!DequeNext
<1> QED
  BY <1>10, <1>11, <1>12, <1>13, <1>14 DEF Deque!StealStep

LEMMA InitAInv == Deque!Init => AInv /\ Deque!Deque!DequeInit
<1> SUFFICES ASSUME Deque!Init
             PROVE  AInv /\ Deque!Deque!DequeInit
  OBVIOUS
<1> USE DequeThreads
<1>1. FirstCapacity \in Nat \ {0} /\ MaxPushes \in Nat
  BY ContainersAssumption DEF Deque!DequeParameters
<1>2. DInv
  BY InitDInv
<1>3. Deque!NewArray(FirstCapacity) \in Arrays
  <2>1. Deque!NewArray(FirstCapacity) \in [0 .. FirstCapacity - 1 -> Cell]
    BY DEF Deque!NewArray, Cell
  <2> QED
    BY <1>1, <2>1 DEF Arrays
<1>4. ArraysTyped
  <2>1. arrays \in Seq(Arrays) /\ arrays # <<>> /\ Len(arrays) = 1
    BY <1>3 DEF Deque!Init
  <2> QED
    BY <1>1, <2>1 DEF ArraysTyped, Deque!Init, Cell
<1>5. top = 0 /\ DequeEnd = 0 /\ dpc[Owner] = "idle" /\ \A t \in DequeThieves : dpc[t] = "idle"
  BY DEF Deque!Init, DequeEnd
<1>6. ItemsKept
  BY <1>4, <1>5, LastArray DEF ItemsKept, Deque!Init
<1>7. PushKept /\ RacerSees /\ \A t \in DequeThieves : ThiefSees(t)
  BY <1>5 DEF PushKept, RacerSees, ThiefSees, Pushing
<1>8. Deque!Content = <<>>
  <2>1. Deque!Content = Run(Held, 0, 0)
    BY <1>2, <1>5, ContentIs DEF DInv
  <2> QED
    BY <2>1, RunEmpty
<1> QED
  BY <1>4, <1>6, <1>7, <1>8 DEF AInv, Deque!Deque!DequeInit, Deque!Init, Deque!Threads

LEMMA NextAInv ==
    ASSUME DInv, DInv', AInv, [ContainersNext]_all
    PROVE  AInv' /\ [Deque!Deque!DequeNext(Deque!Pushes)]_(Deque!Deque!dequeVars)
<1>1. CASE Deque!Next
  BY <1>1, PushArrays, PopArrays, StealArrays DEF Deque!Next
<1>2. CASE UNCHANGED dequeVars
  <2>1. AInv'
    BY <1>2 DEF dequeVars, AInv, ArraysTyped, ItemsKept, PushKept, RacerSees, ThiefSees, DequeEnd,
       Held, Room, Pushing, Handed, Deque!Array
  <2>2. UNCHANGED Deque!Deque!dequeVars
    BY <1>2 DEF dequeVars, Deque!Deque!dequeVars, Deque!Content, Deque!End, Deque!Claimed, Deque!Array
  <2> QED
    BY <2>1, <2>2
<1> QED
  BY <1>1, <1>2 DEF ContainersNext, all

\* An item is in the deque once, or has gone to one thread.
ItemsOnce ==
    /\ \A i, j \in 1 .. Len(Deque!Content) : Deque!Content[i] = Deque!Content[j] => i = j
    /\ \A i \in 1 .. Len(Deque!Content), t \in Deque!Threads : Deque!Content[i] \notin received[t]
    /\ \A t, u \in Deque!Threads : t # u => received[t] \cap received[u] = {}

\* The promise alone keeps it so.
LEMMA ItemsOnceKept ==
    ASSUME ItemsOnce, Deque!Content \in Seq(Deque!Pushes),
           received \in [Deque!Threads -> SUBSET Deque!Pushes],
           [Deque!Deque!DequeNext(Deque!Pushes)]_(Deque!Deque!dequeVars)
    PROVE  ItemsOnce'
<1> USE DequeThreads
<1> DEFINE c == Deque!Content
           d == Deque!Content'
<1>1. /\ c \in Seq(Deque!Pushes)
      /\ \A i, j \in 1 .. Len(c) : c[i] = c[j] => i = j
      /\ \A i \in 1 .. Len(c), t \in Deque!Threads : c[i] \notin received[t]
      /\ \A t, u \in Deque!Threads : t # u => received[t] \cap received[u] = {}
  BY DEF ItemsOnce
<1> SUFFICES /\ \A i, j \in 1 .. Len(d) : d[i] = d[j] => i = j
             /\ \A i \in 1 .. Len(d), t \in Deque!Threads : d[i] \notin received'[t]
             /\ \A t, u \in Deque!Threads : t # u => received'[t] \cap received'[u] = {}
  BY DEF ItemsOnce
<1>2. ASSUME NEW x \in Deque!Pushes, Deque!Deque!PushBack(x)
      PROVE  /\ \A i, j \in 1 .. Len(d) : d[i] = d[j] => i = j
             /\ \A i \in 1 .. Len(d), t \in Deque!Threads : d[i] \notin received'[t]
             /\ received' = received
  <2>1. /\ d = Append(c, x) /\ received' = received
        /\ \A i \in 1 .. Len(c) : c[i] # x
        /\ \A t \in Deque!Threads : x \notin received[t]
    BY <1>1, <1>2 DEF Deque!Deque!PushBack, Deque!Deque!Range
  <2> HIDE DEF c, d
  <2>2. /\ Len(d) = Len(c) + 1 /\ Len(c) \in Nat /\ d[Len(c) + 1] = x
        /\ \A i \in 1 .. Len(c) : d[i] = c[i]
    BY <1>1, <2>1
  <2>3. \A i \in 1 .. Len(d) : i \in 1 .. Len(c) \/ i = Len(c) + 1
    BY <2>2
  <2> QED
    BY <1>1, <2>1, <2>2, <2>3
\* An item is taken from an end.
<1>3. ASSUME c # <<>>, NEW o \in Deque!Threads, NEW x, received' = [received EXCEPT ![o] = @ \cup {x}],
             \/ d = Tail(c) /\ x = Head(c)
             \/ d = Deque!Deque!Front(c) /\ x = Deque!Deque!Last(c)
      PROVE  /\ \A i, j \in 1 .. Len(d) : d[i] = d[j] => i = j
             /\ \A i \in 1 .. Len(d), t \in Deque!Threads : d[i] \notin received'[t]
             /\ \A t, u \in Deque!Threads : t # u => received'[t] \cap received'[u] = {}
  <2>1. PICK k \in 1 .. Len(c), m \in 0 .. 1 :
           /\ x = c[k]
           /\ Len(d) = Len(c) - 1
           /\ \A i \in 1 .. Len(d) : d[i] = c[i + m] /\ i + m \in 1 .. Len(c) /\ i + m # k
    <3> HIDE DEF c, d
    <3>1. Len(c) \in Nat \ {0}
      BY <1>1, <1>3
    <3>2. CASE d = Tail(c) /\ x = Head(c)
      <4>1. /\ x = c[1] /\ Len(d) = Len(c) - 1
            /\ \A i \in 1 .. Len(d) : d[i] = c[i + 1] /\ i + 1 \in 1 .. Len(c) /\ i + 1 # 1
        BY <1>1, <1>3, <3>1, <3>2
      <4> QED
        BY <3>1, <4>1
    <3>3. CASE d = Deque!Deque!Front(c) /\ x = Deque!Deque!Last(c)
      <4>1. /\ x = c[Len(c)] /\ Len(d) = Len(c) - 1
            /\ \A i \in 1 .. Len(d) : d[i] = c[i] /\ i \in 1 .. Len(c) /\ i # Len(c)
        <5>1. d = SubSeq(c, 1, Len(c) - 1) /\ x = c[Len(c)]
          BY <3>3 DEF Deque!Deque!Front, Deque!Deque!Last
        <5> DEFINE n == Len(c) - 1
        <5>2. n \in Nat /\ Len(c) = n + 1 /\ \A i \in 1 .. n : c[i] \in Deque!Pushes
          BY <1>1, <3>1
        <5> HIDE DEF n
        <5>3. /\ Len(SubSeq(c, 1, n)) = n
              /\ \A i \in 1 .. n : SubSeq(c, 1, n)[i] = c[i]
          BY <5>2, SubSeqProperties
        <5>4. Len(d) = Len(c) - 1 /\ \A i \in 1 .. Len(c) - 1 : d[i] = c[i]
          BY <5>1, <5>2, <5>3 DEF n
        <5> QED
          BY <3>1, <5>1, <5>4
      <4>2. \A i \in 1 .. Len(d) : i + 0 = i
        OBVIOUS
      <4>3. Len(c) \in 1 .. Len(c) /\ 0 \in 0 .. 1
        BY <3>1
      <4>4. \A i \in 1 .. Len(d) : d[i] = c[i + 0] /\ i + 0 \in 1 .. Len(c) /\ i + 0 # Len(c)
        BY <4>1, <4>2
      <4> QED
        BY <4>1, <4>3, <4>4
    <3> QED
      BY <1>3, <3>2, <3>3
  <2> HIDE DEF c, d
  <2>2. \A i \in 1 .. Len(d) : d[i] # x
    BY <1>1, <2>1
  <2>3. \A t \in Deque!Threads : x \notin received[t] /\ received'[t] = IF t = o THEN received[t] \cup {x} ELSE received[t]
    BY <1>1, <1>3, <2>1
  <2>4. \A i, j \in 1 .. Len(d) : d[i] = d[j] => i = j
    <3>1. ASSUME NEW i \in 1 .. Len(d), NEW j \in 1 .. Len(d), d[i] = d[j]
          PROVE  i = j
      <4>1. i + m = j + m
        BY <1>1, <2>1, <3>1
      <4> QED
        BY <4>1
    <3> QED
      BY <3>1
  <2>5. ASSUME NEW i \in 1 .. Len(d), NEW t \in Deque!Threads
        PROVE  d[i] \notin received'[t]
    <3>1. d[i] \notin received[t] /\ d[i] # x
      BY <1>1, <2>1, <2>2
    <3> QED
      BY <2>3, <3>1
  <2>6. ASSUME NEW t \in Deque!Threads, NEW u \in Deque!Threads, t # u
        PROVE  received'[t] \cap received'[u] = {}
    <3>1. received[t] \cap received[u] = {} /\ x \notin received[t] /\ x \notin received[u]
      BY <1>1, <2>3, <2>6
    <3> QED
      BY <2>3, <2>6, <3>1
  <2> QED
    BY <2>4, <2>5, <2>6
<1>4. CASE \E x \in Deque!Pushes : Deque!Deque!PushBack(x)
  BY <1>1, <1>2, <1>4
<1>5. CASE Deque!Deque!PopBack(Owner)
  <2>1. /\ c # <<>> /\ d = Deque!Deque!Front(c)
        /\ received' = [received EXCEPT ![Owner] = @ \cup {Deque!Deque!Last(c)}]
    BY <1>5 DEF Deque!Deque!PopBack
  <2> HIDE DEF c, d
  <2> QED
    BY <1>3, <2>1
<1>6. CASE \E t \in DequeThieves : Deque!Deque!StealFront(t)
  <2>1. PICK t \in DequeThieves : Deque!Deque!StealFront(t)
    BY <1>6
  <2>2. /\ c # <<>> /\ d = Tail(c) /\ t \in Deque!Threads
        /\ received' = [received EXCEPT ![t] = @ \cup {Head(c)}]
    BY <2>1 DEF Deque!Deque!StealFront
  <2> HIDE DEF c, d
  <2> QED
    BY <1>3, <2>2
<1>7. CASE UNCHANGED Deque!Deque!dequeVars
  BY <1>1, <1>7 DEF Deque!Deque!dequeVars
<1> QED
  BY <1>4, <1>5, <1>6, <1>7 DEF Deque!Deque!DequeNext

LEMMA ContentTyped ==
    ASSUME DInv, AInv
    PROVE  /\ Deque!Content \in Seq(Deque!Pushes)
           /\ received \in [Deque!Threads -> SUBSET Deque!Pushes]
           /\ DequeEnd <= top => Deque!Content = <<>>
<1>1. /\ Deque!Content = Run(Held, top, DequeEnd) /\ top \in Nat /\ DequeEnd \in Int
      /\ received \in [Deque!Threads -> SUBSET Deque!Pushes]
  BY ContentIs DEF DInv, AInv, ArraysTyped, DequeTyped, DequeEnd
<1>2. DequeEnd <= top => Deque!Content = <<>>
  BY <1>1, RunEmpty
<1>3. ASSUME top < DequeEnd
      PROVE  Run(Held, top, DequeEnd) \in Seq(Deque!Pushes)
  <2>1. 1 .. Handed \subseteq Deque!Pushes
    BY HandedPushed DEF AInv
  <2>2. \A i \in 1 .. DequeEnd - top : top + i - 1 \in top .. DequeEnd - 1
    BY <1>1
  <2>3. \A i \in 1 .. DequeEnd - top : Held[top + i - 1] \in Deque!Pushes
    BY <2>1, <2>2 DEF AInv, ItemsKept
  <2>4. DequeEnd - top \in Nat
    BY <1>1, <1>3
  <2> QED
    BY <2>3, <2>4 DEF Run
<1>4. CASE DequeEnd <= top
  BY <1>1, <1>2, <1>4
<1>5. CASE top < DequeEnd
  BY <1>1, <1>2, <1>3, <1>5
<1> QED
  BY <1>1, <1>4, <1>5

\* A Pop() that goes home without an item has found the deque empty: it has not
\* won the race, for the item it won would be one it has received before.
LEMMA ComesEmpty ==
    ASSUME DInv, AInv, ItemsOnce, [ContainersNext]_all, Deque!ComesEmpty(Owner)
    PROVE  Deque!Content = <<>>
<1> USE DequeThreads
<1>1. /\ dpc[Owner] \in {"claimed", "racing"} /\ dpc'[Owner] = "restoring" /\ received' = received
      /\ DequeTyped /\ OwnerKnows /\ top \in Nat /\ bottom \in Int /\ DequeEnd = bottom + 1
  BY DEF Deque!ComesEmpty, DInv, DequeTyped, DequeEnd
<1>2. Deque!PopStep(Owner)
  <2>1. dpc' # dpc
    BY <1>1
  <2>2. Deque!Next
    BY <2>1 DEF ContainersNext, all, dequeVars
  <2>3. ASSUME NEW t \in DequeThieves, Deque!StealStep(t)
        PROVE  dpc'[Owner] = dpc[Owner]
    <3>1. \E p : dpc' = [dpc EXCEPT ![t] = p]
      BY <2>3 DEF Deque!StealStep, Deque!StealTop, Deque!StealBottom, Deque!StealArray,
         Deque!StealRead, Deque!StealTake, Deque!Goto
    <3> QED
      BY <1>1, <3>1 DEF DequeTyped
  <2>4. ~ Deque!PushStep(Owner)
    BY <1>1 DEF Deque!PushStep, Deque!PushBegin, Deque!PushFit, Deque!PushPut, Deque!PushPublish
  <2> QED
    BY <1>1, <2>2, <2>3, <2>4 DEF Deque!Next
<1>3. CASE dpc[Owner] = "claimed"
  <2>1. Deque!PopLook(Owner) /\ lbottom[Owner] = bottom
    BY <1>1, <1>2, <1>3 DEF OwnerKnows, Deque!PopStep, Deque!PopClaim, Deque!PopRace, Deque!PopRestore
  <2>2. ~ (top < bottom) /\ top # bottom
    BY <1>1, <2>1 DEF Deque!PopLook, Deque!Behind, Deque!Goto, DequeTyped
  <2> QED
    BY <1>1, <2>2, ContentTyped
<1>4. CASE dpc[Owner] = "racing"
  <2>1. Deque!PopRace(Owner) /\ ltop[Owner] = bottom /\ bottom <= top
    BY <1>1, <1>2, <1>4 DEF OwnerKnows, Deque!PopStep, Deque!PopClaim, Deque!PopLook, Deque!PopRestore
  <2>2. CASE top # ltop[Owner]
    BY <1>1, <2>1, <2>2, ContentTyped
  <2>3. CASE top = ltop[Owner]
    <3>1. received' = [received EXCEPT ![Owner] = @ \cup {ditem[Owner]}]
      BY <2>1, <2>3 DEF Deque!PopRace, Deque!Receive
    <3>2. ditem[Owner] \in received[Owner]
      BY <1>1, <3>1, ContentTyped
    <3>3. Deque!Content = Run(Held, top, top + 1) /\ ditem[Owner] = Held[top] /\ Held \in [Nat -> Cell]
      BY <1>1, <1>4, <2>1, <2>3, ContentIs, LastArray DEF AInv, RacerSees
    <3>4. Len(Run(Held, top, top + 1)) = 1 /\ Run(Held, top, top + 1)[1] = Held[top]
      <4>1. top \in Nat
        BY <1>1 DEF DequeTyped
      <4>2. (top + 1) - top = 1 /\ top + 1 - 1 = top
        BY <4>1
      <4>3. Run(Held, top, top + 1) = [i \in 1 .. 1 |-> Held[top + i - 1]]
        BY <4>2 DEF Run
      <4> QED
        BY <4>2, <4>3
    <3>5. Len(Deque!Content) = 1 /\ Deque!Content[1] = ditem[Owner]
      BY <3>3, <3>4, Zenon
    <3>6. ditem[Owner] \notin received[Owner]
      <4>1. \A i \in 1 .. Len(Deque!Content) : Deque!Content[i] \notin received[Owner]
        BY DEF ItemsOnce
      <4>2. 1 \in 1 .. Len(Deque!Content)
        BY <3>5
      <4> QED
        BY <3>5, <4>1, <4>2
    <3> QED
      BY <3>2, <3>6
  <2> QED
    BY <2>2, <2>3
<1> QED
  BY <1>1, <1>3, <1>4

LEMMA InitDequeTypes == Deque!Init => Deque!TypeOK
<1> SUFFICES ASSUME Deque!Init
             PROVE  Deque!TypeOK
  OBVIOUS
<1> USE DequeThreads
<1>1. FirstCapacity \in Nat \ {0} /\ MaxPushes \in Nat
  BY ContainersAssumption DEF Deque!DequeParameters
<1>2. /\ Deque!NewArray(FirstCapacity) \in [0 .. FirstCapacity - 1 -> Cell]
      /\ Deque!CapacityOf(Deque!NewArray(FirstCapacity)) = FirstCapacity
  <2>1. Deque!NewArray(FirstCapacity) \in [0 .. FirstCapacity - 1 -> Cell]
    BY DEF Deque!NewArray, Cell
  <2> QED
    BY <1>1, <2>1, ArrayCapacity
<1>3. DOMAIN arrays = {1} /\ arrays[1] = Deque!NewArray(FirstCapacity)
  BY DEF Deque!Init
<1> QED
  BY <1>1, <1>2, <1>3 DEF Deque!Init, Deque!TypeOK, Deque!OwnerPoints, Deque!ThiefPoints, Cell, Deque!Threads

\* Each array is twice as large as the one before it.
Doubled ==
    \A n \in DOMAIN arrays :
       Deque!CapacityOf(arrays[n])
          = IF n = 1 THEN FirstCapacity ELSE 2 * Deque!CapacityOf(arrays[n - 1])

LEMMA NextDoubled ==
    ASSUME DInv, AInv, Doubled, Deque!Next
    PROVE  Doubled'
<1> USE DequeThreads
<1>1. /\ ArraysTyped /\ DequeTyped /\ OwnerKnows
      /\ Len(arrays) \in Nat \ {0} /\ Deque!Array = arrays[Len(arrays)] /\ Deque!Array \in Arrays
      /\ DOMAIN arrays = 1 .. Len(arrays)
  BY LastArray DEF AInv, DInv, ArraysTyped
<1>2. CASE Deque!PushFit(Owner)
  <2>1. /\ lbottom[Owner] = bottom /\ top \in Nat /\ bottom \in Nat /\ bottom - top <= 2 * Room
    <3>1. /\ dpc[Owner] = "fitting" /\ DequeEnd = bottom /\ top \in Nat /\ bottom \in Int
          /\ Room \in Nat \ {0} /\ DequeEnd - top <= Room
      BY <1>1, <1>2, LastArray DEF AInv, ItemsKept, DequeTyped, DequeEnd, Deque!PushFit
    <3> QED
      BY <1>1, <3>1 DEF OwnerKnows
  <2> DEFINE r == Deque!Resize(Deque!Array, bottom, top)
  <2>2. r \in Arrays /\ Deque!CapacityOf(r) = 2 * Deque!CapacityOf(arrays[Len(arrays)])
    BY <1>1, <2>1, ResizeKeeps DEF Room
  <2>3. arrays' = arrays \/ arrays' = Append(arrays, r)
    BY <1>2, <2>1 DEF Deque!PushFit
  <2> HIDE DEF r
  <2>4. CASE arrays' = Append(arrays, r)
    <3>1. /\ DOMAIN arrays' = 1 .. Len(arrays) + 1 /\ arrays'[Len(arrays) + 1] = r
          /\ \A n \in 1 .. Len(arrays) : arrays'[n] = arrays[n]
      BY <1>1, <2>2, <2>4 DEF ArraysTyped
    <3>2. ASSUME NEW n \in 1 .. Len(arrays) + 1
          PROVE  Deque!CapacityOf(arrays'[n])
                    = IF n = 1 THEN FirstCapacity ELSE 2 * Deque!CapacityOf(arrays'[n - 1])
      <4>1. CASE n \in 1 .. Len(arrays)
        <5>1. n # 1 => n - 1 \in 1 .. Len(arrays)
          BY <1>1, <4>1
        <5> QED
          BY <1>1, <3>1, <4>1, <5>1 DEF Doubled
      <4>2. CASE n = Len(arrays) + 1
        <5>1. n # 1 /\ n - 1 = Len(arrays) /\ Len(arrays) \in 1 .. Len(arrays)
          BY <1>1, <4>2
        <5> QED
          BY <2>2, <3>1, <4>2, <5>1
      <4> QED
        BY <1>1, <4>1, <4>2
    <3> QED
      BY <3>1, <3>2 DEF Doubled
  <2> QED
    BY <2>3, <2>4 DEF Doubled
<1>3. CASE Deque!PushPut(Owner)
  <2>1. dpc[Owner] = "putting" /\ arrays' = [arrays EXCEPT ![Len(arrays)] = Deque!Put(@, lbottom[Owner], ditem[Owner])]
    BY <1>3 DEF Deque!PushPut
  <2>2. lbottom[Owner] \in Nat /\ ditem[Owner] \in Cell
    <3>1. lbottom[Owner] = bottom /\ top <= bottom /\ top \in Nat /\ bottom \in Int
      BY <1>1, <2>1 DEF OwnerKnows, DequeTyped, DequeEnd
    <3> QED
      BY <1>1, <3>1 DEF ArraysTyped
  <2> DEFINE r == Deque!Put(arrays[Len(arrays)], lbottom[Owner], ditem[Owner])
  <2>3. Deque!CapacityOf(r) = Deque!CapacityOf(arrays[Len(arrays)])
    BY <1>1, <2>2, PutKeeps
  <2>4. arrays' = [arrays EXCEPT ![Len(arrays)] = r]
    BY <1>1, <2>1
  <2> HIDE DEF r
  <2>5. /\ DOMAIN arrays' = DOMAIN arrays
        /\ \A n \in DOMAIN arrays : Deque!CapacityOf(arrays'[n]) = Deque!CapacityOf(arrays[n])
    BY <1>1, <2>3, <2>4
  <2>6. \A n \in DOMAIN arrays : n # 1 => n - 1 \in DOMAIN arrays
    BY <1>1
  <2> QED
    BY <2>5, <2>6 DEF Doubled
<1>4. CASE ~ Deque!PushFit(Owner) /\ ~ Deque!PushPut(Owner)
  <2>1. arrays' = arrays
    BY <1>4 DEF Deque!Next, Deque!PushStep, Deque!PopStep, Deque!StealStep,
       Deque!PushBegin, Deque!PushPublish, Deque!PopClaim, Deque!PopLook, Deque!PopRace, Deque!PopRestore,
       Deque!StealTop, Deque!StealBottom, Deque!StealArray, Deque!StealRead, Deque!StealTake
  <2> QED
    BY <2>1 DEF Doubled
<1> QED
  BY <1>2, <1>3, <1>4

LEMMA BottomTyped == DInv => bottom \in Nat \cup {-1}
<1> SUFFICES ASSUME DInv
             PROVE  bottom \in Nat \/ bottom = -1
  OBVIOUS
<1>1. /\ top \in Nat /\ bottom \in Int /\ DequeEnd \in Int
      /\ DequeEnd <= bottom + 1 /\ (top <= DequeEnd \/ top = bottom + 1)
  BY DEF DInv, DequeTyped, OwnerKnows, DequeEnd
<1>2. top <= bottom + 1
  BY <1>1
<1> QED
  BY <1>1, <1>2

LEMMA NextDequeTypes ==
    ASSUME DInv, DInv', AInv, AInv', Deque!TypeOK, [ContainersNext]_all
    PROVE  Deque!TypeOK'
<1> USE DequeThreads
<1>1. Deque!Threads = {Owner} \cup DequeThieves
  BY DEF Deque!Threads
<1>2. Doubled'
  <2>1. Doubled
    BY DEF Deque!TypeOK, Doubled
  <2>2. CASE Deque!Next
    BY <2>1, <2>2, NextDoubled
  <2>3. CASE UNCHANGED dequeVars
    BY <2>1, <2>3 DEF dequeVars, Doubled
  <2> QED
    BY <2>2, <2>3 DEF ContainersNext, all
<1>3. \A n \in DOMAIN arrays' : arrays'[n] \in [0 .. Deque!CapacityOf(arrays'[n]) - 1 -> Cell]
  <2>1. \A n \in DOMAIN arrays' : arrays'[n] \in Arrays
    BY DEF AInv, ArraysTyped
  <2> QED
    BY <2>1, ArrayTyped
<1>4. bottom' \in Nat \cup {-1}
  <2>1. (DInv => bottom \in Nat \cup {-1})'
    BY BottomTyped, PTL
  <2> QED
    BY <2>1
<1>5. lbottom' \in [Deque!Threads -> Nat \cup {-1}]
  <2>1. CASE lbottom' = lbottom
    BY <2>1 DEF Deque!TypeOK
  <2>2. CASE lbottom' # lbottom
    <3>1. Deque!PushBegin(Owner) \/ Deque!PopClaim(Owner)
      BY <2>2 DEF ContainersNext, all, dequeVars, Deque!Next, Deque!PushStep, Deque!PopStep, Deque!StealStep,
         Deque!PushFit, Deque!PushPut, Deque!PushPublish, Deque!PopLook, Deque!PopRace, Deque!PopRestore,
         Deque!StealTop, Deque!StealBottom, Deque!StealArray, Deque!StealRead, Deque!StealTake
    <3>2. dpc[Owner] = "idle" /\ \E n \in {bottom, bottom - 1} : lbottom' = [lbottom EXCEPT ![Owner] = n]
      BY <3>1 DEF Deque!PushBegin, Deque!PopClaim
    <3>3. bottom \in Nat
      BY <3>2 DEF DInv, DequeTyped, OwnerKnows, DequeEnd
    <3> QED
      BY <3>2, <3>3 DEF Deque!TypeOK
  <2> QED
    BY <2>1, <2>2
<1>6. \A t \in DequeThieves : dpc'[t] \in Deque!ThiefPoints
  <2>1. CASE dpc' = dpc
    BY <2>1 DEF Deque!TypeOK
  <2>2. CASE Deque!PushStep(Owner) \/ Deque!PopStep(Owner)
    <3>1. \E p : dpc' = [dpc EXCEPT ![Owner] = p]
      BY <2>2 DEF Deque!PushStep, Deque!PopStep, Deque!Goto,
         Deque!PushBegin, Deque!PushFit, Deque!PushPut, Deque!PushPublish,
         Deque!PopClaim, Deque!PopLook, Deque!PopRace, Deque!PopRestore
    <3> QED
      BY <3>1 DEF Deque!TypeOK
  <2>3. CASE \E t \in DequeThieves : Deque!StealStep(t)
    <3>1. \E t \in DequeThieves : \E p \in Deque!ThiefPoints : dpc' = [dpc EXCEPT ![t] = p]
      BY <2>3 DEF Deque!StealStep, Deque!Goto, Deque!ThiefPoints,
         Deque!StealTop, Deque!StealBottom, Deque!StealArray, Deque!StealRead, Deque!StealTake
    <3> QED
      BY <3>1 DEF Deque!TypeOK
  <2> QED
    BY <2>1, <2>2, <2>3 DEF ContainersNext, all, dequeVars, Deque!Next
<1>7. /\ larray' \in [Deque!Threads -> DOMAIN arrays']
      /\ ditem' \in [Deque!Threads -> Cell]
      /\ pushed' \in 0 .. MaxPushes
      /\ received' \in [Deque!Threads -> SUBSET Deque!Pushes]
  BY DEF AInv, ArraysTyped
<1>8. /\ dpc' \in [Deque!Threads -> Deque!OwnerPoints \cup Deque!ThiefPoints]
      /\ dpc'[Owner] \in Deque!OwnerPoints /\ top' \in Nat /\ ltop' \in [Deque!Threads -> Nat]
  BY DEF DInv, DequeTyped
<1> QED
  BY <1>2, <1>3, <1>4, <1>5, <1>6, <1>7, <1>8 DEF Deque!TypeOK, Doubled, Cell

LEMMA LockTypes ==
    ASSUME LInv
    PROVE  IF kind = "draining" THEN Draining!TypeOK ELSE Blocking!TypeOK
<1>1. CASE kind \notin {"draining", "trying"}
  <2>1. BlockingProofs!TypeOK
    BY <1>1 DEF LInv, BlockingProofs!IInv
  <2> QED
    BY <1>1, <2>1 DEF Blocking!TypeOK, BlockingProofs!TypeOK, Blocking!Threads, BlockingProofs!Threads,
       Blocking!Points, BlockingProofs!Points, Blocking!Slots, BlockingProofs!Slots,
       Blocking!Conditions, BlockingProofs!Conditions
<1>2. CASE kind = "draining"
  <2>1. DrainingProofs!TypeOK
    BY <1>2 DEF LInv, DrainingProofs!IInv
  <2> QED
    BY <1>2, <2>1 DEF Draining!TypeOK, DrainingProofs!TypeOK, Draining!Threads, DrainingProofs!Threads,
       Draining!Points, DrainingProofs!Points, Draining!Slots, DrainingProofs!Slots,
       Draining!Conditions, DrainingProofs!Conditions
<1>3. CASE kind = "trying"
  <2>1. TryingProofs!TypeOK
    BY <1>3 DEF LInv, TryingProofs!IInv
  <2>2. TryingProofs!Threads = Blocking!Threads
    BY DEF TryingProofs!Threads, Blocking!Threads
  <2> QED
    BY <1>3, <2>1, <2>2 DEF Blocking!TypeOK, TryingProofs!TypeOK,
       Blocking!Points, TryingProofs!Points, Blocking!Slots, TryingProofs!Slots,
       Blocking!Conditions, TryingProofs!Conditions
<1> QED
  BY <1>1, <1>2, <1>3

(***************************************************************************)
(* The theorems.                                                           *)
(***************************************************************************)

\* The two sides of the lock-free ring keep their distance for ever.
THEOREM RingInvariance == ContainersSpec => []RInv
<1>1. ContainersInit => RInv
  BY InitRInv DEF ContainersInit
<1>2. RInv /\ [ContainersNext]_all => RInv'
  <2>1. [ContainersNext]_all => [Next]_vars
    BY DEF ContainersNext, all, spscVars
  <2> QED
    BY <2>1, NextRInv
<1> QED
  BY <1>1, <1>2, PTL DEF ContainersSpec

\* The slots of the ring are plain memory (queue.cpp:34, 46), and the producer
\* and the consumer are never at the same one at the same time.
THEOREM SlotsApart == ContainersSpec => []NoSlotRace
<1>1. RInv => NoSlotRace
  BY DEF RInv, NoSlotRace
<1> QED
  BY <1>1, RingInvariance, PTL

\* The counts, the indices and the calls of the semaphore queue agree.
THEOREM SemaphoreInvariance == ContainersSpec => []SInv
<1>1. IsFiniteSet(Semaphore!Threads)
  BY ContainersAssumption, FS_Union DEF Semaphore!Threads
<1>2. ContainersInit => SInv
  BY <1>1, InitSInv DEF ContainersInit
<1>3. SInv /\ [ContainersNext]_all => SInv'
  <2>1. [ContainersNext]_all => Semaphore!Next \/ UNCHANGED semVars
    BY DEF ContainersNext, all
  <2>2. SInv /\ UNCHANGED semVars => SInv'
    BY DEF semVars, SInv, Semaphore!TypeOK, Semaphore!SlotsExact, Semaphore!Stored
  <2> QED
    BY <1>1, <2>1, <2>2, NextSInv
<1> QED
  BY <1>2, <1>3, PTL DEF ContainersSpec

\* Every slot is free, filled or in the hands of one call: none is lost and none
\* is given out twice, for any number of producers and consumers.
THEOREM SlotsAccountedFor == ContainersSpec => []SlotsExact
<1>1. SInv => SlotsExact
  BY DEF SInv, SlotsExact
<1> QED
  BY <1>1, SemaphoreInvariance, PTL

\* The strengthenings proved of locking_queue hold of its three uses.
THEOREM LockingInvariance == ContainersSpec => []LInv
<1> QED
  BY InitLInv, NextLInv, PTL DEF ContainersSpec

\* Nobody sleeps on over a free slot or an item, although locking_queue notifies
\* after it has let the mutex go and newcomers overtake the woken.
THEOREM SleepersRemembered == ContainersSpec => []NoSleeperForgotten
<1>1. LInv => NoSleeperForgotten
  BY LInvSuffices
<1> QED
  BY <1>1, LockingInvariance, PTL

\* The loop of io::Scheduler never blocks in pop() (schedulerbase.cpp, asyncCallback).
THEOREM LoopNeverSleeps == ContainersSpec => []DrainerNeverSleeps
<1>1. LInv => DrainerNeverSleeps
  BY LInvSuffices
<1> QED
  BY <1>1, LockingInvariance, PTL

\* Each of the three rings is a first-in, first-out queue.
THEOREM QueuesAreQueues == ContainersSpec => QueuesImplemented
<1>1. ContainersSpec => ImplementsQueue
  <2>1. ContainersInit => Queue!QueueInit
    BY InitQueues DEF ContainersInit
  <2>2. RInv /\ [ContainersNext]_all => [Queue!QueueNext]_(Queue!queueVars)
    <3>1. [ContainersNext]_all => [Next]_vars
      BY DEF ContainersNext, all, spscVars
    <3> QED
      BY <3>1, NextQueues
  <2> QED
    BY <2>1, <2>2, RingInvariance, PTL DEF ContainersSpec, ImplementsQueue, Queue!QueueSpec
<1>2. ContainersSpec => Semaphore!ImplementsQueue
  <2>1. IsFiniteSet(Semaphore!Threads)
    BY ContainersAssumption, FS_Union DEF Semaphore!Threads
  <2>2. ContainersInit => Semaphore!Queue!QueueInit
    BY <2>1, InitSInv DEF ContainersInit
  <2>3. SInv /\ [ContainersNext]_all => [Semaphore!Queue!QueueNext]_(Semaphore!Queue!queueVars)
    <3>1. [ContainersNext]_all => Semaphore!Next \/ UNCHANGED semVars
      BY DEF ContainersNext, all
    <3>2. UNCHANGED semVars => UNCHANGED Semaphore!Queue!queueVars
      BY DEF semVars, Semaphore!Queue!queueVars, Semaphore!Content, Semaphore!Stored
    <3> QED
      BY <2>1, <3>1, <3>2, NextSemaphoreQueues
  <2> QED
    BY <2>2, <2>3, SemaphoreInvariance, PTL
    DEF ContainersSpec, Semaphore!ImplementsQueue, Semaphore!Queue!QueueSpec
<1>3. ContainersSpec => Blocking!ImplementsQueue
  <2>1. ContainersInit => Blocking!Queue!QueueInit
    BY InitLockQueues
  <2>2. LInv /\ [ContainersNext]_all => [Blocking!Queue!QueueNext]_(Blocking!Queue!queueVars)
    BY LockQueues
  <2> QED
    BY <2>1, <2>2, LockingInvariance, PTL
    DEF ContainersSpec, Blocking!ImplementsQueue, Blocking!Queue!QueueSpec
<1> QED
  BY <1>1, <1>2, <1>3, PTL DEF QueuesImplemented

\* top_, bottom_ and what the owner and the thieves have read of them agree.
THEOREM DequeInvariance == ContainersSpec => []DInv
<1>1. ContainersInit => DInv
  BY InitDInv DEF ContainersInit
<1> QED
  BY <1>1, NextDInv, PTL DEF ContainersSpec

\* Pop()'s assertions (workstealingdeque.cpp:74, 106) never fail, whatever the
\* thieves do meanwhile.
THEOREM AssertionsHold == ContainersSpec => []PopAssertions
<1> QED
  BY DInvSuffices, DequeInvariance, PTL

\* The slots from top_ to the end of the deque hold the items that were pushed and
\* not taken, each once, and none of them has been received; what a thief or the
\* owner has read of them is true while top_ stays where it was, whichever array
\* it was read from (array.cpp, workstealingdeque.cpp:46-142).
THEOREM ArraysInvariance == ContainersSpec => [](AInv /\ ItemsOnce)
<1>1. ContainersInit => AInv /\ ItemsOnce
  <2>1. ContainersInit => AInv /\ Deque!Deque!DequeInit
    BY InitAInv DEF ContainersInit
  <2>2. Deque!Deque!DequeInit => ItemsOnce
    BY DEF Deque!Deque!DequeInit, ItemsOnce, Deque!Threads
  <2> QED
    BY <2>1, <2>2
<1>2. DInv /\ DInv' /\ (AInv /\ ItemsOnce) /\ [ContainersNext]_all => (AInv /\ ItemsOnce)'
  BY NextAInv, ContentTyped, ItemsOnceKept
<1> QED
  BY <1>1, <1>2, DequeInvariance, PTL DEF ContainersSpec

\* However many threads steal, each item is received by one thread, from the end
\* it is entitled to: across races for the last item, slots that were overwritten
\* and arrays that were replaced (workstealingdeque.cpp:46-142).
THEOREM DequeIsDeque == ContainersSpec => ImplementsDeque
<1>1. ContainersInit => Deque!Deque!DequeInit
  BY InitAInv DEF ContainersInit
<1>2. DInv /\ DInv' /\ AInv /\ [ContainersNext]_all
         => [Deque!Deque!DequeNext(Deque!Pushes)]_(Deque!Deque!dequeVars)
  BY NextAInv
<1> QED
  BY <1>1, <1>2, DequeInvariance, ArraysInvariance, PTL
  DEF ContainersSpec, ImplementsDeque, Deque!ImplementsDeque

\* Pop() returns nullptr only when the deque is empty (workstealingdeque.cpp:92-112).
THEOREM EmptyHanded == ContainersSpec => EmptyPopIsTrue
<1>1. DInv /\ AInv /\ ItemsOnce /\ [ContainersNext]_all
         => [\A o \in {Owner} : Deque!ComesEmpty(o) => Deque!Content = <<>>]_(Deque!vars)
  BY ComesEmpty
<1> QED
  BY <1>1, DequeInvariance, ArraysInvariance, PTL
  DEF ContainersSpec, EmptyPopIsTrue, Deque!EmptyPopIsTrue

\* The variables have their types, and each array is twice as large as the one
\* before it (array.cpp).
THEOREM ContainersTypes == ContainersSpec => []ContainersTypeOK
<1>1. ContainersInit => Deque!TypeOK
  BY InitDequeTypes DEF ContainersInit
<1>2. DInv /\ DInv' /\ AInv /\ AInv' /\ Deque!TypeOK /\ [ContainersNext]_all => Deque!TypeOK'
  BY NextDequeTypes
<1>3. ContainersSpec => []Deque!TypeOK
  BY <1>1, <1>2, DequeInvariance, ArraysInvariance, PTL DEF ContainersSpec
<1>4. RInv /\ SInv /\ LInv /\ Deque!TypeOK => ContainersTypeOK
  BY LockTypes DEF RInv, SInv, ContainersTypeOK
<1> QED
  BY <1>3, <1>4, RingInvariance, SemaphoreInvariance, LockingInvariance, PTL
=============================================================================
