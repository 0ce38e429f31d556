------------------------- MODULE LockingQueueProofs --------------------------
(***************************************************************************)
(* Proofs about locking_queue for any threads, items and capacity: whoever *)
(* sleeps beside a free slot or an item will be woken, the loop that asks  *)
(* is_empty() never sleeps, and the ring is a first-in, first-out queue.   *)
(* The lemmas on rings serve the other two queues, too.                    *)
(***************************************************************************)
EXTENDS LockingQueue, FiniteSetTheorems, SequenceTheorems, TLAPS

(***************************************************************************)
(* Rings.                                                                  *)
(***************************************************************************)

\* An index that is past the last slot goes round once.
LEMMA GoesRound ==
    ASSUME NEW C \in Nat \ {0}, NEW k \in 0 .. 2 * C - 1
    PROVE  /\ k % C = IF k < C THEN k ELSE k - C
           /\ k % C \in 0 .. C - 1
<1>1. CASE k < C
  BY <1>1
<1>2. CASE k >= C
  <2> DEFINE j == k - C
  <2>1. j \in 0 .. C - 1 /\ k = j + C * 1
    BY <1>2
  <2>2. j % C = j
    BY <2>1
  <2>3. (j + C * 1) % C = j % C
    BY <2>1, Z3
  <2> QED
    BY <1>2, <2>1, <2>2, <2>3
<1> QED
  BY <1>1, <1>2

\* What a ring b of C slots holds: n items from slot h on.
RingItems(C, h, n, b) == [i \in 1 .. n |-> b[(h + i - 1) % C]]

LEMMA RingSlots ==
    ASSUME NEW C \in Nat \ {0}, NEW h \in 0 .. C - 1, NEW n \in 0 .. C, NEW i \in 1 .. n
    PROVE  /\ (h + i - 1) % C = IF h + i - 1 < C THEN h + i - 1 ELSE h + i - 1 - C
           /\ (h + i - 1) % C \in 0 .. C - 1
           /\ n < C => (h + i - 1) % C # (h + n) % C
<1> DEFINE k == h + i - 1
<1>1. k \in 0 .. 2 * C - 1
  OBVIOUS
<1>2. /\ k % C = IF k < C THEN k ELSE k - C
      /\ k % C \in 0 .. C - 1
  <2> HIDE DEF k
  <2> QED
    BY <1>1, GoesRound
<1>3. ASSUME n < C
      PROVE  k % C # (h + n) % C
  <2> DEFINE m == h + n
  <2>1. m \in 0 .. 2 * C - 1
    BY <1>3
  <2>2. m % C = IF m < C THEN m ELSE m - C
    <3> HIDE DEF m
    <3> QED
      BY <2>1, GoesRound
  <2>3. k < m /\ m < k + C
    BY <1>3
  <2> DEFINE p == k % C
             q == m % C
  <2>4. p = (IF k < C THEN k ELSE k - C) /\ q = (IF m < C THEN m ELSE m - C)
    BY <1>2, <2>2
  <2> HIDE DEF k, m, p, q
  <2>5. p # q
    BY <1>1, <2>1, <2>3, <2>4
  <2> QED
    BY <2>5 DEF k, m, p, q
<1> QED
  BY <1>2, <1>3

\* A slot past the n items is none of theirs...
LEMMA RingKept ==
    ASSUME NEW C \in Nat \ {0}, NEW h \in 0 .. C - 1, NEW n \in 0 .. C - 1,
           NEW a, NEW b, \A j \in 0 .. C - 1 : j # (h + n) % C => a[j] = b[j]
    PROVE  RingItems(C, h, n, a) = RingItems(C, h, n, b)
<1>1. ASSUME NEW i \in 1 .. n
      PROVE  a[(h + i - 1) % C] = b[(h + i - 1) % C]
  BY RingSlots
<1> QED
  BY <1>1 DEF RingItems

\* ...and with it they are one more.
LEMMA RingAppend ==
    ASSUME NEW C \in Nat \ {0}, NEW h \in 0 .. C - 1, NEW n \in 0 .. C - 1,
           NEW V, NEW b \in [0 .. C - 1 -> V]
    PROVE  RingItems(C, h, n + 1, b) = Append(RingItems(C, h, n, b), b[(h + n) % C])
<1> DEFINE s == [i \in 1 .. n |-> b[(h + i - 1) % C]]
           r == [i \in 1 .. n + 1 |-> b[(h + i - 1) % C]]
           x == b[(h + n) % C]
<1>1. \A i \in 1 .. n + 1 : (h + i - 1) % C \in 0 .. C - 1
  BY RingSlots
<1>2. s \in Seq(V) /\ Len(s) = n
  BY <1>1
<1>3. r \in Seq(V) /\ Len(r) = n + 1
  BY <1>1
<1>4. h + (n + 1) - 1 = h + n
  OBVIOUS
<1>5. r[n + 1] = x
  BY <1>4
<1>6. \A i \in 1 .. n : r[i] = s[i]
  OBVIOUS
<1>7. x \in V
  BY <1>1, <1>4
<1>8. Append(s, x) \in Seq(V) /\ Len(Append(s, x)) = n + 1 /\ Append(s, x)[n + 1] = x
      /\ \A i \in 1 .. n : Append(s, x)[i] = s[i]
  BY <1>2, <1>7, AppendProperties
<1> HIDE DEF s, r, x
<1>9. r = Append(s, x)
  <2>1. \A i \in 1 .. n + 1 : r[i] = Append(s, x)[i]
    BY <1>5, <1>6, <1>8
  <2> QED
    BY <2>1, <1>3, <1>8, SeqEqual
<1> QED
  BY <1>9 DEF s, r, x, RingItems

\* The first of the items is taken from the slot at h.
LEMMA RingTake ==
    ASSUME NEW C \in Nat \ {0}, NEW h \in 0 .. C - 1, NEW n \in 1 .. C,
           NEW V, NEW b \in [0 .. C - 1 -> V]
    PROVE  /\ RingItems(C, h, n, b) # <<>>
           /\ Head(RingItems(C, h, n, b)) = b[h]
           /\ Tail(RingItems(C, h, n, b)) = RingItems(C, (h + 1) % C, n - 1, b)
<1> DEFINE s == [i \in 1 .. n |-> b[(h + i - 1) % C]]
           r == [i \in 1 .. n - 1 |-> b[(((h + 1) % C) + i - 1) % C]]
<1>1. \A i \in 1 .. n : (h + i - 1) % C \in 0 .. C - 1
  BY RingSlots
<1>2. s \in Seq(V) /\ Len(s) = n
  BY <1>1
<1>3. (h + 1 - 1) % C = h
  <2>1. h % C = h
    OBVIOUS
  <2>2. h + 1 - 1 = h
    OBVIOUS
  <2> QED
    BY <2>1, <2>2
<1>4. s # <<>> /\ Head(s) = b[h]
  BY <1>2, <1>3
<1>5. ASSUME NEW i \in 1 .. n - 1
      PROVE  /\ (((h + 1) % C) + i - 1) % C = (h + (i + 1) - 1) % C
             /\ (((h + 1) % C) + i - 1) % C \in 0 .. C - 1
  <2> DEFINE g == (h + 1) % C
             k == g + i - 1
             m == h + (i + 1) - 1
             e == h + 1
  <2>1. e \in 0 .. 2 * C - 1 /\ m \in 0 .. 2 * C - 1 /\ m = e + i - 1
    OBVIOUS
  <2>2. g = IF e < C THEN e ELSE e - C
    <3> HIDE DEF e
    <3>1. e % C = IF e < C THEN e ELSE e - C
      BY <2>1, GoesRound
    <3> QED
      BY <3>1 DEF e
  <2> HIDE DEF g, m, e
  <2>3. g \in 0 .. C - 1 /\ k \in 0 .. 2 * C - 1
    BY <2>1, <2>2
  <2>4. k = IF e < C THEN m ELSE m - C
    BY <2>1, <2>2
  <2> HIDE DEF k
  <2>5. k % C = (IF k < C THEN k ELSE k - C) /\ k % C \in 0 .. C - 1
    BY <2>3, GoesRound
  <2>6. m % C = (IF m < C THEN m ELSE m - C) /\ m % C \in 0 .. C - 1
    BY <2>1, GoesRound
  <2>7. k % C = m % C
    BY <2>1, <2>3, <2>4, <2>5, <2>6
  <2> QED
    BY <2>5, <2>7 DEF k, m, g
<1>6. Tail(s) \in Seq(V) /\ Len(Tail(s)) = n - 1 /\ \A i \in 1 .. n - 1 : Tail(s)[i] = s[i + 1]
  BY <1>2, <1>4, HeadTailProperties
<1>7. r \in Seq(V) /\ Len(r) = n - 1
  BY <1>5
<1>8. \A i \in 1 .. n - 1 : r[i] = Tail(s)[i]
  BY <1>5, <1>6
<1> HIDE DEF s, r
<1>9. Tail(s) = r
  BY <1>6, <1>7, <1>8, SeqEqual
<1> QED
  BY <1>4, <1>9 DEF s, r, RingItems

\* How far it is from slot i on to slot j, and which slot comes after i.
LEMMA RingDistance ==
    ASSUME NEW C \in Nat \ {0}, NEW i \in 0 .. C - 1, NEW j \in 0 .. C - 1
    PROVE  (j + C - i) % C = IF i <= j THEN j - i ELSE j + C - i
<1> DEFINE k == j + C - i
<1>1. k \in 0 .. 2 * C - 1
  OBVIOUS
<1>2. k % C = IF k < C THEN k ELSE k - C
  <2> HIDE DEF k
  <2> QED
    BY <1>1, GoesRound
<1> QED
  BY <1>2

LEMMA RingNext ==
    ASSUME NEW C \in Nat \ {0}, NEW i \in 0 .. C - 1
    PROVE  (i + 1) % C = IF i = C - 1 THEN 0 ELSE i + 1
<1> DEFINE k == i + 1
<1>1. k \in 0 .. 2 * C - 1
  OBVIOUS
<1>2. k % C = IF k < C THEN k ELSE k - C
  <2> HIDE DEF k
  <2> QED
    BY <1>1, GoesRound
<1> QED
  BY <1>2


(***************************************************************************)
(* Who is attended to.                                                     *)
(***************************************************************************)

LEMMA ThreadsCounted ==
    ASSUME LockingParameters, NEW S \in SUBSET Threads
    PROVE  IsFiniteSet(S) /\ Cardinality(S) \in Nat
BY FS_Subset, FS_CardinalityType DEF LockingParameters, Threads

\* The ring as the calls see it, and what they make of it.
LEMMA RingState ==
    ASSUME RingParameters, TypeOK
    PROVE  /\ Filled \in 0 .. Capacity - 1
           /\ (head + Filled) % Capacity = tail
           /\ IsEmpty <=> Filled = 0
           /\ NextIndex(tail) \in Slots /\ NextIndex(head) \in Slots
           /\ IsFull <=> Filled = Capacity - 1
           /\ \A c \in Conditions : Offered(c) \in Nat
           /\ ~ IsFull /\ head' = head /\ tail' = NextIndex(tail) => Filled' = Filled + 1
           /\ ~ IsEmpty /\ tail' = tail /\ head' = NextIndex(head) => Filled' = Filled - 1
<1>1. Capacity \in Nat \ {0} /\ head \in 0 .. Capacity - 1 /\ tail \in 0 .. Capacity - 1
  BY DEF RingParameters, TypeOK, Slots
<1>2. Filled = IF head <= tail THEN tail - head ELSE tail + Capacity - head
  BY <1>1, RingDistance DEF Filled
<1>3. NextIndex(tail) = IF tail = Capacity - 1 THEN 0 ELSE tail + 1
  BY <1>1, RingNext DEF NextIndex
<1>4. NextIndex(head) = IF head = Capacity - 1 THEN 0 ELSE head + 1
  BY <1>1, RingNext DEF NextIndex
<1>5. ASSUME ~ IsFull, head' = head, tail' = NextIndex(tail)
      PROVE  Filled' = Filled + 1
  <2>1. tail' \in 0 .. Capacity - 1 /\ tail' # head
    BY <1>1, <1>3, <1>5 DEF IsFull
  <2>2. Filled' = IF head' <= tail' THEN tail' - head' ELSE tail' + Capacity - head'
    BY <1>1, <1>5, <2>1, RingDistance DEF Filled
  <2> QED
    BY <1>1, <1>2, <1>3, <1>5, <2>1, <2>2
<1>6. ASSUME ~ IsEmpty, tail' = tail, head' = NextIndex(head)
      PROVE  Filled' = Filled - 1
  <2>1. head' \in 0 .. Capacity - 1 /\ tail # head
    BY <1>1, <1>4, <1>6 DEF IsEmpty
  <2>2. Filled' = IF head' <= tail' THEN tail' - head' ELSE tail' + Capacity - head'
    BY <1>1, <1>6, <2>1, RingDistance DEF Filled
  <2> QED
    BY <1>1, <1>2, <1>4, <1>6, <2>1, <2>2
<1>7. (head + Filled) % Capacity = tail
  <2> DEFINE k == head + Filled
  <2>1. k \in 0 .. 2 * Capacity - 1 /\ k = IF head <= tail THEN tail ELSE tail + Capacity
    BY <1>1, <1>2
  <2>2. k % Capacity = IF k < Capacity THEN k ELSE k - Capacity
    <3> HIDE DEF k
    <3> QED
      BY <1>1, <2>1, GoesRound
  <2> QED
    BY <1>1, <2>1, <2>2
<1>8. Filled \in 0 .. Capacity - 1
  BY <1>1, <1>2
<1>9. IsEmpty <=> Filled = 0
  BY <1>1, <1>2 DEF IsEmpty
<1>10. IsFull <=> Filled = Capacity - 1
  BY <1>1, <1>2, <1>3 DEF IsFull
<1>11. \A c \in Conditions : Offered(c) \in Nat
  BY <1>1, <1>8 DEF Offered
<1> QED
  BY <1>1, <1>3, <1>4, <1>5, <1>6, <1>7, <1>8, <1>9, <1>10, <1>11 DEF Slots

\* Fewer sleepers, no more to be had and nobody gone who attended to them.
LEMMA StillAttended ==
    ASSUME LockingParameters, TypeOK, NEW c \in Conditions, Attended(c),
           asleep'[c] # {} => asleep[c] # {}, Offered(c)' = Offered(c),
           Attending(c) \subseteq Attending(c)'
    PROVE  Attended(c)'
<1>1. /\ Cardinality(Attending(c)) \in Nat /\ Cardinality(Attending(c)') \in Nat
      /\ Cardinality(Attending(c)) <= Cardinality(Attending(c)')
  <2>1. Attending(c) \in SUBSET Threads /\ Attending(c)' \in SUBSET Threads
    BY DEF Attending
  <2> QED
    BY <2>1, ThreadsCounted, FS_Subset
<1>2. Offered(c) \in Nat
  BY RingState DEF LockingParameters
<1> QED
  BY <1>1, <1>2 DEF Attended

\* Where nothing is to be had, nobody has to attend.
LEMMA NothingOffered ==
    ASSUME LockingParameters, NEW c \in Conditions, Offered(c)' = 0
    PROVE  Attended(c)'
<1>1. Attending(c)' \in SUBSET Threads
  BY DEF Attending
<1>2. Cardinality(Attending(c)') \in Nat
  BY <1>1, ThreadsCounted
<1> QED
  BY <1>2 DEF Attended

\* One of them takes what it came for, and goes.
LEMMA OneServed ==
    ASSUME LockingParameters, TypeOK, NEW c \in Conditions, Attended(c), NEW t \in Attending(c),
           asleep' = asleep, Offered(c)' = Offered(c) - 1, Attending(c)' = Attending(c) \ {t}
    PROVE  Attended(c)'
<1>1. /\ Cardinality(Attending(c)) \in Nat
      /\ Cardinality(Attending(c)') = Cardinality(Attending(c)) - 1
  <2>1. Attending(c) \in SUBSET Threads
    BY DEF Attending
  <2> QED
    BY <2>1, ThreadsCounted, FS_RemoveElement
<1>2. Offered(c) \in Nat
  BY RingState DEF LockingParameters
<1> QED
  BY <1>1, <1>2 DEF Attended

\* One more comes to attend to what there is more of.
LEMMA OneMoreOffered ==
    ASSUME LockingParameters, TypeOK, NEW c \in Conditions, Attended(c),
           NEW t \in Threads \ Attending(c),
           asleep' = asleep, Offered(c)' = Offered(c) + 1, Attending(c)' = Attending(c) \cup {t}
    PROVE  Attended(c)'
<1>1. /\ Cardinality(Attending(c)) \in Nat
      /\ Cardinality(Attending(c)') = Cardinality(Attending(c)) + 1
  <2>1. Attending(c) \in SUBSET Threads
    BY DEF Attending
  <2> QED
    BY <2>1, ThreadsCounted, FS_AddElement
<1>2. Offered(c) \in Nat
  BY RingState DEF LockingParameters
<1> QED
  BY <1>1, <1>2 DEF Attended

\* One of them leaves it to a sleeper that it wakes.
LEMMA HandedOn ==
    ASSUME LockingParameters, TypeOK, NEW c \in Conditions, Attended(c),
           NEW t \in Attending(c), NEW u \in Threads \ Attending(c),
           asleep[c] # {}, Offered(c)' = Offered(c),
           Attending(c)' = (Attending(c) \ {t}) \cup {u}
    PROVE  Attended(c)'
<1> DEFINE R == Attending(c) \ {t}
<1>1. R \in SUBSET Threads /\ Attending(c) \in SUBSET Threads /\ u \notin R
  BY DEF Attending
<1>2. IsFiniteSet(R) /\ Cardinality(R) \in Nat /\ Cardinality(Attending(c)) \in Nat
  BY <1>1, ThreadsCounted
<1>3. Cardinality(Attending(c)) = Cardinality(R) + 1
  BY <1>1, <1>2, ThreadsCounted, FS_RemoveElement
<1>4. Cardinality(Attending(c)') = Cardinality(R) + 1
  BY <1>1, <1>2, FS_AddElement
<1> QED
  BY <1>3, <1>4 DEF Attended

(***************************************************************************)
(* The steps.                                                              *)
(***************************************************************************)

\* No call leaves the ring or the program of its thread.
LEMMA TypeInv ==
    ASSUME RingParameters, TypeOK, [Next]_vars
    PROVE  TypeOK'
<1>1. /\ NextIndex(tail) \in Slots /\ NextIndex(head) \in Slots
      /\ Conditions = {"not_full", "not_empty"}
  BY RingState DEF Conditions
<1>2. ASSUME NEW t \in Threads, Enter(t) \/ SeeItem(t) \/ Lock(t) \/ GiveUp(t)
      PROVE  TypeOK'
  BY <1>2 DEF Enter, SeeItem, Lock, GiveUp, Goto, Calls, ring, TypeOK, Points
<1>3. ASSUME NEW t \in Threads, PushWaits(t) \/ PopWaits(t)
      PROVE  TypeOK'
  BY <1>3, <1>1 DEF PushWaits, PopWaits, Sleep, Goto, ring, TypeOK, Points
<1>4. ASSUME NEW t \in Threads, Store(t)
      PROVE  TypeOK'
  BY <1>4, <1>1 DEF Store, Goto, TypeOK, Points
<1>5. ASSUME NEW t \in Threads, Load(t)
      PROVE  TypeOK'
  BY <1>5, <1>1 DEF Load, Goto, TypeOK, Points
<1>6. ASSUME NEW t \in Threads, Notify(t)
      PROVE  TypeOK'
  BY <1>6, <1>1 DEF Notify, Condition, Goto, ring, TypeOK, Points
<1>7. ASSUME NEW t \in Threads, Rouse(t)
      PROVE  TypeOK'
  BY <1>7, <1>1 DEF Rouse, Goto, ring, TypeOK, Points
<1>8. ASSUME UNCHANGED vars
      PROVE  TypeOK'
  BY <1>8 DEF vars, ring, TypeOK
<1> QED
  BY <1>2, <1>3, <1>4, <1>5, <1>6, <1>7, <1>8 DEF Next, Step

LEMMA EnterInv ==
    ASSUME LockingParameters, IInv, NEW t \in Threads, Enter(t)
    PROVE  CallsKept' /\ \A c \in Conditions : Attended(c)'
<1>1. /\ pc[t] = "idle"
      /\ pc'[t] \in {"push", "try_push", "pop", "try_pop"}
      /\ pc'[t] = "push" => t \in Pushers
      /\ pc'[t] = "try_pop" => t \in TryPoppers
      /\ \A u \in Threads \ {t} : pc'[u] = pc[u]
      /\ UNCHANGED <<asleep, head, tail, buffer, out>>
  BY DEF IInv, TypeOK, Enter, Goto, ring, Calls
<1>2. CallsKept'
  BY <1>1 DEF IInv, TypeOK, CallsKept, Conditions
<1>3. ASSUME NEW c \in Conditions
      PROVE  Attended(c)'
  <2>1. Offered(c)' = Offered(c)
    BY <1>1 DEF Offered, Filled
  <2>2. Attending(c) \subseteq Attending(c)'
    BY <1>1 DEF Attending, Conditions
  <2> QED
    BY <1>1, <2>1, <2>2, StillAttended DEF IInv
<1> QED
  BY <1>2, <1>3 DEF IInv

LEMMA SeeItemInv ==
    ASSUME LockingParameters, IInv, NEW t \in Threads, SeeItem(t)
    PROVE  CallsKept' /\ \A c \in Conditions : Attended(c)'
<1>1. /\ pc[t] = "idle"
      /\ pc'[t] = "drain"
      /\ \A u \in Threads \ {t} : pc'[u] = pc[u]
      /\ UNCHANGED <<asleep, head, tail, buffer, out>>
  BY DEF IInv, TypeOK, SeeItem, Goto, ring, Calls
<1>2. CallsKept'
  BY <1>1 DEF IInv, TypeOK, CallsKept, Conditions
<1>3. ASSUME NEW c \in Conditions
      PROVE  Attended(c)'
  <2>1. Offered(c)' = Offered(c)
    BY <1>1 DEF Offered, Filled
  <2>2. Attending(c) \subseteq Attending(c)'
    BY <1>1 DEF Attending, Conditions
  <2> QED
    BY <1>1, <2>1, <2>2, StillAttended DEF IInv
<1> QED
  BY <1>2, <1>3 DEF IInv

LEMMA LockInv ==
    ASSUME LockingParameters, IInv, NEW t \in Threads, Lock(t)
    PROVE  CallsKept' /\ \A c \in Conditions : Attended(c)'
<1>1. /\ pc[t] \in {"drain", "push_woken", "pop_woken"}
      /\ pc'[t] = IF pc[t] = "push_woken" THEN "push" ELSE "pop"
      /\ \A u \in Threads \ {t} : pc'[u] = pc[u]
      /\ UNCHANGED <<asleep, head, tail, buffer, out>>
  BY DEF IInv, TypeOK, Lock, Goto, ring, Calls
<1>2. CallsKept'
  BY <1>1 DEF IInv, TypeOK, CallsKept, Conditions
<1>3. ASSUME NEW c \in Conditions
      PROVE  Attended(c)'
  <2>1. Offered(c)' = Offered(c)
    BY <1>1 DEF Offered, Filled
  <2>2. Attending(c) \subseteq Attending(c)'
    BY <1>1 DEF Attending, Conditions
  <2> QED
    BY <1>1, <2>1, <2>2, StillAttended DEF IInv
<1> QED
  BY <1>2, <1>3 DEF IInv

LEMMA GiveUpInv ==
    ASSUME LockingParameters, IInv, NEW t \in Threads, GiveUp(t)
    PROVE  CallsKept' /\ \A c \in Conditions : Attended(c)'
<1>1. /\ pc[t] \in {"try_push", "try_pop"}
      /\ pc'[t] = "idle"
      /\ \A u \in Threads \ {t} : pc'[u] = pc[u]
      /\ UNCHANGED <<asleep, head, tail, buffer, out>>
  BY DEF IInv, TypeOK, GiveUp, Goto, ring, Calls
<1>2. CallsKept'
  BY <1>1 DEF IInv, TypeOK, CallsKept, Conditions
<1>3. ASSUME NEW c \in Conditions
      PROVE  Attended(c)'
  <2>1. Offered(c)' = Offered(c)
    BY <1>1 DEF Offered, Filled
  <2>2. Attending(c) \subseteq Attending(c)'
    BY <1>1 DEF Attending, Conditions
  <2> QED
    BY <1>1, <2>1, <2>2, StillAttended DEF IInv
<1> QED
  BY <1>2, <1>3 DEF IInv

LEMMA PushWaitsInv ==
    ASSUME LockingParameters, IInv, NEW t \in Threads, PushWaits(t)
    PROVE  CallsKept' /\ \A c \in Conditions : Attended(c)'
<1>1. /\ pc[t] = "push" /\ pc'[t] = "asleep" /\ IsFull
      /\ \A u \in Threads \ {t} : pc'[u] = pc[u]
      /\ asleep' = [asleep EXCEPT !["not_full"] = @ \cup {t}]
      /\ UNCHANGED <<head, tail, buffer, out>>
  BY DEF IInv, TypeOK, PushWaits, Sleep, Goto, ring
<1>2. /\ asleep'["not_full"] = asleep["not_full"] \cup {t}
      /\ asleep'["not_empty"] = asleep["not_empty"]
  BY <1>1 DEF IInv, TypeOK, Conditions
<1>3. CallsKept'
  BY <1>1, <1>2 DEF IInv, TypeOK, CallsKept, Conditions
<1>4. Filled' = Filled /\ Filled = Capacity - 1 /\ Capacity \in Nat
  BY <1>1, RingState DEF LockingParameters, IInv, Filled, RingParameters
<1>5. Attended("not_full")'
  <2>1. Offered("not_full")' = 0
    BY <1>4 DEF Offered
  <2> QED
    BY <2>1, NothingOffered DEF Conditions
<1>6. Attended("not_empty")'
  <2>1. Offered("not_empty")' = Offered("not_empty")
    BY <1>4 DEF Offered
  <2>2. Attending("not_empty") \subseteq Attending("not_empty")'
    BY <1>1 DEF Attending
  <2> QED
    BY <1>2, <2>1, <2>2, StillAttended DEF IInv, Conditions
<1> QED
  BY <1>3, <1>5, <1>6 DEF IInv, Conditions

LEMMA PopWaitsInv ==
    ASSUME LockingParameters, IInv, NEW t \in Threads, PopWaits(t)
    PROVE  CallsKept' /\ \A c \in Conditions : Attended(c)'
<1>1. /\ pc[t] = "pop" /\ pc'[t] = "asleep" /\ IsEmpty
      /\ \A u \in Threads \ {t} : pc'[u] = pc[u]
      /\ asleep' = [asleep EXCEPT !["not_empty"] = @ \cup {t}]
      /\ UNCHANGED <<head, tail, buffer, out>>
  BY DEF IInv, TypeOK, PopWaits, Sleep, Goto, ring
<1>2. /\ asleep'["not_empty"] = asleep["not_empty"] \cup {t}
      /\ asleep'["not_full"] = asleep["not_full"]
  BY <1>1 DEF IInv, TypeOK, Conditions
<1>3. CallsKept'
  BY <1>1, <1>2 DEF IInv, TypeOK, CallsKept, Conditions
<1>4. Filled' = Filled /\ Filled = 0
  BY <1>1, RingState DEF LockingParameters, IInv, Filled
<1>5. Attended("not_empty")'
  <2>1. Offered("not_empty")' = 0
    BY <1>4 DEF Offered
  <2> QED
    BY <2>1, NothingOffered DEF Conditions
<1>6. Attended("not_full")'
  <2>1. Offered("not_full")' = Offered("not_full")
    BY <1>4 DEF Offered
  <2>2. Attending("not_full") \subseteq Attending("not_full")'
    BY <1>1 DEF Attending
  <2> QED
    BY <1>2, <2>1, <2>2, StillAttended DEF IInv, Conditions
<1> QED
  BY <1>3, <1>5, <1>6 DEF IInv, Conditions

LEMMA StoreInv ==
    ASSUME LockingParameters, IInv, NEW t \in Threads, Store(t)
    PROVE  CallsKept' /\ \A c \in Conditions : Attended(c)'
<1>1. /\ pc[t] \in {"push", "try_push"} /\ pc'[t] = "stored" /\ ~ IsFull
      /\ \A u \in Threads \ {t} : pc'[u] = pc[u]
      /\ head' = head /\ tail' = NextIndex(tail)
      /\ UNCHANGED <<asleep, out>>
  BY DEF IInv, TypeOK, Store, Goto
<1>2. Filled' = Filled + 1 /\ Filled \in Nat /\ Capacity \in Nat /\ NextIndex(tail) \in Slots
  BY <1>1, RingState DEF LockingParameters, IInv, RingParameters
<1>3. CallsKept'
  BY <1>1 DEF IInv, TypeOK, CallsKept, Conditions
<1>4. Attended("not_full")'
  <2>1. Offered("not_full")' = Offered("not_full") - 1
    BY <1>2 DEF Offered
  <2>2. Attending("not_full")' = Attending("not_full") \ {t}
    BY <1>1 DEF Attending
  <2>3. CASE t \in Attending("not_full")
    BY <1>1, <2>1, <2>2, <2>3, OneServed DEF IInv, Conditions
  <2>4. CASE t \notin Attending("not_full")
    <3>1. Attending("not_full")' \in SUBSET Threads /\ Attending("not_full")' = Attending("not_full")
      BY <2>2, <2>4 DEF Attending
    <3>2. Cardinality(Attending("not_full")') \in Nat
      BY <3>1, ThreadsCounted
    <3>3. Offered("not_full") \in Nat
      BY RingState DEF LockingParameters, IInv, Conditions
    <3> QED
      BY <1>1, <2>1, <3>1, <3>2, <3>3 DEF IInv, Conditions, Attended
  <2> QED
    BY <2>3, <2>4
<1>5. Attended("not_empty")'
  <2>1. Offered("not_empty")' = Offered("not_empty") + 1
    BY <1>2 DEF Offered
  <2>2. Attending("not_empty")' = Attending("not_empty") \cup {t} /\ t \notin Attending("not_empty")
    BY <1>1 DEF Attending
  <2> QED
    BY <1>1, <2>1, <2>2, OneMoreOffered DEF IInv, Conditions
<1> QED
  BY <1>3, <1>4, <1>5 DEF IInv, Conditions

LEMMA LoadInv ==
    ASSUME LockingParameters, IInv, NEW t \in Threads, Load(t)
    PROVE  CallsKept' /\ \A c \in Conditions : Attended(c)'
<1>1. /\ pc[t] \in {"pop", "try_pop"} /\ ~ IsEmpty
      /\ pc'[t] = IF pc[t] = "pop" THEN "popped" ELSE "try_popped"
      /\ \A u \in Threads \ {t} : pc'[u] = pc[u]
      /\ tail' = tail /\ head' = NextIndex(head) /\ asleep' = asleep
  BY DEF IInv, TypeOK, Load, Goto
<1>2. /\ Filled' = Filled - 1 /\ Filled \in Nat /\ Filled # 0
      /\ Capacity \in Nat /\ NextIndex(head) \in Slots
  BY <1>1, RingState DEF LockingParameters, IInv, RingParameters
<1>3. CallsKept'
  BY <1>1 DEF IInv, TypeOK, CallsKept, Conditions
\* Where try_pop() is used, no producer sleeps.
<1>4. Attended("not_full")'
  <2>1. CASE pc[t] = "pop"
    <3>1. Offered("not_full")' = Offered("not_full") + 1
      BY <1>2 DEF Offered
    <3>2. Attending("not_full")' = Attending("not_full") \cup {t} /\ t \notin Attending("not_full")
      BY <1>1, <2>1 DEF Attending
    <3> QED
      BY <1>1, <3>1, <3>2, OneMoreOffered DEF IInv, Conditions
  <2>2. CASE pc[t] = "try_pop"
    <3>1. Pushers = {}
      BY <2>2 DEF IInv, CallsKept, LockingParameters
    <3>2. asleep'["not_full"] = {}
      BY <1>1, <3>1 DEF IInv, CallsKept
    <3> QED
      BY <3>2 DEF Attended
  <2> QED
    BY <1>1, <2>1, <2>2
<1>5. Attended("not_empty")'
  <2>1. Offered("not_empty")' = Offered("not_empty") - 1
    BY <1>2 DEF Offered
  <2>2. Attending("not_empty")' = Attending("not_empty") \ {t}
    BY <1>1 DEF Attending
  <2>3. CASE t \in Attending("not_empty")
    BY <1>1, <2>1, <2>2, <2>3, OneServed DEF IInv, Conditions
  <2>4. CASE t \notin Attending("not_empty")
    <3>1. Attending("not_empty")' \in SUBSET Threads /\ Attending("not_empty")' = Attending("not_empty")
      BY <2>2, <2>4 DEF Attending
    <3>2. Cardinality(Attending("not_empty")') \in Nat
      BY <3>1, ThreadsCounted
    <3>3. Offered("not_empty") \in Nat
      BY RingState DEF LockingParameters, IInv, Conditions
    <3> QED
      BY <1>1, <2>1, <3>1, <3>2, <3>3 DEF IInv, Conditions, Attended
  <2> QED
    BY <2>3, <2>4
<1> QED
  BY <1>3, <1>4, <1>5 DEF IInv, Conditions

LEMMA NotifyInv ==
    ASSUME LockingParameters, IInv, NEW t \in Threads, Notify(t)
    PROVE  CallsKept' /\ \A c \in Conditions : Attended(c)'
<1> DEFINE c == Condition(pc[t])
<1>1. /\ pc[t] \in {"stored", "popped", "try_popped"}
      /\ c = (IF pc[t] = "popped" THEN "not_full" ELSE "not_empty") /\ c \in Conditions
      /\ UNCHANGED <<owner, head, tail, buffer, out>>
  BY DEF Notify, Condition, Conditions, ring
<1>2. \A d \in Conditions : Offered(d)' = Offered(d)
  BY <1>1 DEF Offered, Filled
<1>3. CASE asleep[c] = {}
  <2>1. /\ pc'[t] = "idle" /\ \A u \in Threads \ {t} : pc'[u] = pc[u]
        /\ asleep' = asleep
    BY <1>3 DEF IInv, TypeOK, Notify, Goto
  <2>2. CallsKept'
    BY <1>1, <2>1 DEF IInv, TypeOK, CallsKept, Conditions
  <2>3. ASSUME NEW d \in Conditions
        PROVE  Attended(d)'
    <3>1. CASE d = c
      BY <1>3, <2>1, <3>1 DEF Attended
    <3>2. CASE d # c
      <4>1. Attending(d) \subseteq Attending(d)'
        BY <1>1, <2>1, <3>2 DEF Attending, Conditions
      <4> QED
        BY <1>2, <2>1, <4>1, StillAttended DEF IInv
    <3> QED
      BY <3>1, <3>2
  <2> QED
    BY <2>2, <2>3
<1>4. CASE asleep[c] # {}
  <2>1. PICK u \in asleep[c] :
           /\ asleep' = [asleep EXCEPT ![c] = @ \ {u}]
           /\ pc' = [pc EXCEPT ![t] = "idle",
                              ![u] = IF c = "not_full" THEN "push_woken" ELSE "pop_woken"]
    BY <1>4 DEF Notify
  <2>2. u \in Threads /\ pc[u] = "asleep" /\ u # t /\ (c = "not_full" => u \in Pushers)
    BY <1>1, <2>1 DEF IInv, TypeOK, CallsKept
  <2>3. /\ pc'[t] = "idle" /\ pc'[u] = IF c = "not_full" THEN "push_woken" ELSE "pop_woken"
        /\ \A v \in Threads \ {t, u} : pc'[v] = pc[v]
        /\ asleep'[c] = asleep[c] \ {u}
        /\ \A d \in Conditions \ {c} : asleep'[d] = asleep[d]
    BY <1>1, <2>1, <2>2 DEF IInv, TypeOK
  <2>4. CallsKept'
    <3>1. \A d \in Conditions \ {c} : u \notin asleep[d]
      BY <1>1 DEF IInv, TypeOK, CallsKept, Conditions
    <3> QED
      BY <1>1, <2>2, <2>3, <3>1 DEF IInv, TypeOK, CallsKept, Conditions
  <2>5. ASSUME NEW d \in Conditions
        PROVE  Attended(d)'
    <3>1. CASE d = c /\ pc[t] # "try_popped"
      <4>1. t \in Attending(d) /\ u \notin Attending(d)
            /\ Attending(d)' = (Attending(d) \ {t}) \cup {u}
        BY <1>1, <2>2, <2>3, <3>1 DEF Attending, Conditions
      <4> QED
        BY <1>1, <1>2, <1>4, <2>2, <3>1, <4>1, HandedOn DEF IInv
    <3>2. CASE d # c \/ pc[t] = "try_popped"
      <4>1. Attending(d) \subseteq Attending(d)'
        BY <1>1, <2>2, <2>3, <3>2 DEF Attending, Conditions
      <4>2. asleep'[d] \subseteq asleep[d]
        BY <2>3
      <4> QED
        BY <1>2, <4>1, <4>2, StillAttended DEF IInv
    <3> QED
      BY <3>1, <3>2
  <2> QED
    BY <2>4, <2>5 DEF IInv
<1> QED
  BY <1>3, <1>4

LEMMA RouseInv ==
    ASSUME LockingParameters, IInv, NEW t \in Threads, Rouse(t)
    PROVE  CallsKept' /\ \A c \in Conditions : Attended(c)'
<1>1. PICK c \in Conditions :
         /\ t \in asleep[c]
         /\ asleep' = [asleep EXCEPT ![c] = @ \ {t}]
         /\ pc' = [pc EXCEPT ![t] = IF c = "not_full" THEN "push_woken" ELSE "pop_woken"]
         /\ UNCHANGED <<owner, head, tail, buffer, out>>
  BY DEF Rouse, Goto, ring
<1>2. pc[t] = "asleep" /\ (c = "not_full" => t \in Pushers)
  BY <1>1 DEF IInv, CallsKept
<1>3. /\ pc'[t] = IF c = "not_full" THEN "push_woken" ELSE "pop_woken"
      /\ \A u \in Threads \ {t} : pc'[u] = pc[u]
      /\ asleep'[c] = asleep[c] \ {t}
      /\ \A d \in Conditions \ {c} : asleep'[d] = asleep[d]
  BY <1>1 DEF IInv, TypeOK
<1>4. CallsKept'
  <2>1. \A d \in Conditions \ {c} : t \notin asleep[d]
    BY <1>1 DEF IInv, TypeOK, CallsKept, Conditions
  <2> QED
    BY <1>2, <1>3, <2>1 DEF IInv, TypeOK, CallsKept, Conditions
<1>5. ASSUME NEW d \in Conditions
      PROVE  Attended(d)'
  <2>1. Offered(d)' = Offered(d)
    BY <1>1 DEF Offered, Filled
  <2>2. Attending(d) \subseteq Attending(d)'
    BY <1>2, <1>3 DEF Attending
  <2>3. asleep'[d] \subseteq asleep[d]
    BY <1>3
  <2> QED
    BY <2>1, <2>2, <2>3, StillAttended DEF IInv
<1> QED
  BY <1>4, <1>5 DEF IInv

-----------------------------------------------------------------------------
LEMMA InitIInv ==
    ASSUME LockingParameters, Init
    PROVE  IInv
<1>1. TypeOK
  BY DEF Init, TypeOK, LockingParameters, RingParameters, Points, Slots
<1>2. CallsKept
  BY DEF Init, CallsKept, Conditions
<1>3. \A c \in Conditions : Attended(c)
  BY DEF Init, Attended
<1> QED
  BY <1>1, <1>2, <1>3 DEF IInv

LEMMA NextIInv ==
    ASSUME LockingParameters, IInv, [Next]_vars
    PROVE  IInv'
<1>1. TypeOK'
  BY TypeInv DEF IInv, LockingParameters
<1>2. ASSUME NEW t \in Threads, Step(t)
      PROVE  CallsKept' /\ \A c \in Conditions : Attended(c)'
  BY <1>2, EnterInv, SeeItemInv, LockInv, PushWaitsInv, PopWaitsInv, GiveUpInv, StoreInv,
     LoadInv, NotifyInv, RouseInv DEF Step
<1>3. ASSUME UNCHANGED vars
      PROVE  CallsKept' /\ \A c \in Conditions : Attended(c)'
  <2>1. UNCHANGED <<pc, owner, asleep, head, tail, buffer, out>>
    BY <1>3 DEF vars, ring
  <2>2. CallsKept'
    BY <2>1 DEF IInv, TypeOK, CallsKept
  <2>3. \A c \in Conditions : Attended(c)'
    BY <2>1 DEF IInv, Attended, Offered, Filled, Attending
  <2> QED
    BY <2>2, <2>3
<1>4. CallsKept' /\ \A c \in Conditions : Attended(c)'
  BY <1>2, <1>3 DEF Next
<1> QED
  BY <1>1, <1>4 DEF IInv

\* The strengthening says more than that nobody is forgotten.
LEMMA AttendedAreNotForgotten ==
    ASSUME LockingParameters, IInv
    PROVE  NoSleeperForgotten
<1>1. ASSUME NEW c \in Conditions, asleep[c] # {}, Offered(c) # 0
      PROVE  Attending(c) # {}
  <2>1. Offered(c) \in Nat /\ Offered(c) <= Cardinality(Attending(c))
    BY <1>1, RingState DEF LockingParameters, IInv, Attended
  <2>2. Cardinality({}) = 0
    BY FS_EmptySet
  <2> QED
    BY <1>1, <2>1, <2>2
<1>2. /\ ~ IsFull => Offered("not_full") # 0
      /\ ~ IsEmpty => Offered("not_empty") # 0
  BY RingState DEF LockingParameters, IInv, Offered, RingParameters
<1>3. "not_full" \in Conditions /\ "not_empty" \in Conditions
  BY DEF Conditions
<1> QED
  BY <1>1, <1>2, <1>3 DEF NoSleeperForgotten, Attending

(***************************************************************************)
(* The ring is a queue.                                                    *)
(***************************************************************************)

\* A store puts its item behind the content, a load takes the first of it, and
\* no other step disturbs it.
LEMMA NextQueues ==
    ASSUME RingParameters, TypeOK, [Next]_vars
    PROVE  [Queue!QueueNext]_(Queue!queueVars)
<1> DEFINE Cells == Items \cup {None}
<1>1. /\ Capacity \in Nat \ {0} /\ head \in 0 .. Capacity - 1
      /\ buffer \in [0 .. Capacity - 1 -> Cells]
  BY DEF RingParameters, TypeOK, Slots
<1>2. /\ Filled \in 0 .. Capacity - 1 /\ (head + Filled) % Capacity = tail
      /\ Content = RingItems(Capacity, head, Filled, buffer)
  BY RingState DEF Content, RingItems
<1>3. ASSUME NEW t \in Threads, Store(t)
      PROVE  Queue!QueueNext
  <2>1. PICK x \in Items : buffer' = [buffer EXCEPT ![tail] = x]
    BY <1>3 DEF Store
  <2>2. /\ ~ IsFull /\ head' = head /\ tail' = NextIndex(tail) /\ out' = out
    BY <1>3 DEF Store
  <2>3. Filled' = Filled + 1 /\ Filled # Capacity - 1
    BY <2>2, RingState
  <2>4. buffer' \in [0 .. Capacity - 1 -> Cells] /\ buffer'[tail] = x
    BY <1>1, <2>1 DEF TypeOK, Slots
  <2>5. Content' = RingItems(Capacity, head, Filled + 1, buffer')
    BY <2>2, <2>3 DEF Content, RingItems
  <2>6. RingItems(Capacity, head, Filled + 1, buffer')
           = Append(RingItems(Capacity, head, Filled, buffer'), x)
    <3> HIDE DEF Cells
    <3> QED
      BY <1>1, <1>2, <2>4, RingAppend
  <2>7. RingItems(Capacity, head, Filled, buffer') = Content
    <3>1. \A j \in 0 .. Capacity - 1 : j # (head + Filled) % Capacity => buffer'[j] = buffer[j]
      BY <1>1, <1>2, <2>1
    <3> QED
      BY <1>1, <1>2, <3>1, RingKept
  <2>8. Len(Content) = Filled
    BY <1>2 DEF RingItems
  <2>9. Len(Content) < Capacity - 1
    BY <1>1, <1>2, <2>3, <2>8
  <2> QED
    BY <2>2, <2>5, <2>6, <2>7, <2>9 DEF Queue!QueueNext, Queue!Enqueue
<1>4. ASSUME NEW t \in Threads, Load(t)
      PROVE  Queue!QueueNext
  <2>1. /\ ~ IsEmpty /\ head' = NextIndex(head) /\ out' = buffer[head]
        /\ tail' = tail /\ buffer' = buffer
    BY <1>4 DEF Load
  <2>2. Filled' = Filled - 1 /\ Filled \in 1 .. Capacity
    BY <1>1, <1>2, <2>1, RingState
  <2>3. Content' = RingItems(Capacity, (head + 1) % Capacity, Filled - 1, buffer)
    BY <2>1, <2>2 DEF Content, NextIndex, RingItems
  <2>4. Content # <<>> /\ Head(Content) = buffer[head] /\ Tail(Content) = Content'
    <3> HIDE DEF Cells
    <3> QED
      BY <1>1, <1>2, <2>2, <2>3, RingTake
  <2> QED
    BY <2>1, <2>4 DEF Queue!QueueNext, Queue!Dequeue
<1>5. ASSUME UNCHANGED ring
      PROVE  UNCHANGED Queue!queueVars
  BY <1>5 DEF ring, Queue!queueVars, Content, Filled
<1>6. ASSUME NEW t \in Threads, Step(t), ~ Store(t), ~ Load(t)
      PROVE  UNCHANGED ring
  BY <1>6 DEF Step, Enter, SeeItem, Lock, PushWaits, PopWaits, Sleep, GiveUp, Notify, Rouse
<1> QED
  BY <1>3, <1>4, <1>5, <1>6 DEF Next, vars

LEMMA InitQueues ==
    ASSUME RingParameters, Init
    PROVE  TypeOK /\ Queue!QueueInit
<1>1. TypeOK
  BY DEF Init, TypeOK, RingParameters, Points, Slots
<1>2. Filled = 0
  BY <1>1, RingState DEF Init, IsEmpty
<1> QED
  BY <1>1, <1>2 DEF Init, Queue!QueueInit, Content

(***************************************************************************)
(* The queue of io::Scheduler.                                             *)
(***************************************************************************)

LEMMA InitDrains ==
    ASSUME RingParameters, Init
    PROVE  DrainInv
<1>1. TypeOK
  BY InitQueues
<1> QED
  BY <1>1 DEF Init, DrainInv, Conditions, Threads

\* The only consumer makes no other call, and what it reads stays true: a store
\* leaves the ring filled, and nobody else takes an item.
LEMMA NextDrains ==
    ASSUME RingParameters, OneDrainer, DrainInv, [Next]_vars
    PROVE  DrainInv'
<1>1. TypeOK'
  BY TypeInv DEF DrainInv
<1>2. /\ Drainers \subseteq Threads
      /\ Conditions = {"not_full", "not_empty"}
  BY DEF Threads, Conditions
<1>3. ASSUME NEW t \in Threads, Enter(t) \/ GiveUp(t)
      PROVE  DrainInv'
  <2>1. /\ pc' = [pc EXCEPT ![t] = pc'[t]] /\ pc'[t] \in {"push", "try_push", "idle"}
        /\ t \notin Drainers
        /\ UNCHANGED <<asleep, head, tail>>
    BY <1>2, <1>3 DEF Enter, GiveUp, Goto, Calls, ring, OneDrainer, DrainInv, TypeOK
  <2> QED
    BY <1>1, <1>2, <2>1 DEF DrainInv, TypeOK, IsEmpty
<1>4. ASSUME NEW t \in Threads, SeeItem(t)
      PROVE  DrainInv'
  BY <1>1, <1>4 DEF SeeItem, SeesItem, Goto, ring, DrainInv, TypeOK, IsEmpty
<1>5. ASSUME NEW t \in Threads, Lock(t)
      PROVE  DrainInv'
  BY <1>1, <1>5 DEF Lock, Goto, ring, DrainInv, TypeOK, IsEmpty
<1>6. ASSUME NEW t \in Threads, PushWaits(t) \/ PopWaits(t)
      PROVE  DrainInv'
  <2>1. pc[t] = "push" /\ t \notin Drainers
    BY <1>6 DEF PushWaits, PopWaits, DrainInv
  <2>2. /\ pc' = [pc EXCEPT ![t] = "asleep"]
        /\ asleep' = [asleep EXCEPT !["not_full"] = @ \cup {t}]
        /\ head' = head /\ tail' = tail
    BY <1>6, <2>1 DEF PushWaits, PopWaits, Sleep, Goto, ring
  <2> QED
    BY <1>1, <1>2, <2>1, <2>2 DEF DrainInv, TypeOK, IsEmpty
<1>7. ASSUME NEW t \in Threads, Store(t)
      PROVE  DrainInv'
  <2>1. ~ IsEmpty'
    <3>1. NextIndex(tail) = IF tail = Capacity - 1 THEN 0 ELSE tail + 1
      BY RingNext DEF NextIndex, DrainInv, TypeOK, Slots, RingParameters
    <3> QED
      BY <1>7, <3>1 DEF Store, IsFull, IsEmpty
  <2> QED
    BY <1>1, <1>7, <2>1 DEF Store, Goto, DrainInv, TypeOK
\* It is the drainer that takes, and there is no other.
<1>8. ASSUME NEW t \in Threads, Load(t)
      PROVE  DrainInv'
  <2>1. t \in Drainers /\ pc[t] = "pop" /\ pc' = [pc EXCEPT ![t] = "popped"] /\ asleep' = asleep
    BY <1>8 DEF Load, Goto, DrainInv
  <2>2. \A u \in Threads \ {t} : u \notin Drainers
    BY <2>1 DEF OneDrainer
  <2> QED
    BY <1>1, <2>1, <2>2 DEF DrainInv, TypeOK
<1>9. ASSUME NEW t \in Threads, Notify(t)
      PROVE  DrainInv'
  <2>1. head' = head /\ tail' = tail
    BY <1>9 DEF Notify, ring
  <2> DEFINE c == Condition(pc[t])
  <2>2. pc[t] \in {"stored", "popped", "try_popped"} /\ c \in Conditions
    BY <1>9 DEF Notify, Condition, Conditions
  <2>3. CASE asleep[c] = {}
    BY <1>1, <1>2, <1>9, <2>1, <2>2, <2>3 DEF Notify, Goto, DrainInv, TypeOK, IsEmpty
  <2>4. CASE asleep[c] # {}
    <3>1. PICK u \in asleep[c] :
             /\ asleep' = [asleep EXCEPT ![c] = @ \ {u}]
             /\ pc' = [pc EXCEPT ![t] = "idle",
                                ![u] = IF c = "not_full" THEN "push_woken" ELSE "pop_woken"]
      BY <1>9, <2>4 DEF Notify
    <3>2. c = "not_full" /\ u \in Threads /\ u \notin Drainers
      BY <1>2, <2>2, <3>1 DEF DrainInv, TypeOK
    <3> QED
      BY <1>1, <1>2, <2>1, <2>2, <3>1, <3>2 DEF DrainInv, TypeOK, IsEmpty
  <2> QED
    BY <2>3, <2>4
<1>10. ASSUME NEW t \in Threads, Rouse(t)
       PROVE  DrainInv'
  BY <1>1, <1>10 DEF Rouse, Goto, ring, DrainInv, TypeOK, IsEmpty, Conditions
<1>11. ASSUME UNCHANGED vars
       PROVE  DrainInv'
  BY <1>1, <1>11 DEF vars, ring, DrainInv, IsEmpty
<1> QED
  BY <1>3, <1>4, <1>5, <1>6, <1>7, <1>8, <1>9, <1>10, <1>11 DEF Next, Step

(***************************************************************************)
(* The theorems.                                                           *)
(***************************************************************************)

\* The strengthening holds in every state.
THEOREM Invariance ==
    ASSUME LockingParameters
    PROVE  Spec => []IInv
<1>1. Init => IInv
  BY InitIInv
<1>2. IInv /\ [Next]_vars => IInv'
  BY NextIInv
<1> QED
  BY <1>1, <1>2, PTL DEF Spec

\* Nobody sleeps beside a free slot or an item unless somebody is about to wake
\* one of the sleepers or to look at it, although locking_queue notifies after it
\* has let the mutex go: unless push() and try_pop() are used on one queue.
THEOREM NobodySleepsOn ==
    ASSUME LockingParameters
    PROVE  Spec => []NoSleeperForgotten
<1>1. IInv => NoSleeperForgotten
  BY AttendedAreNotForgotten
<1> QED
  BY <1>1, Invariance, PTL

\* The thread that asks is_empty() without the mutex, and is the only one to take
\* items, never sleeps in pop() (schedulerbase.cpp, asyncCallback).
THEOREM NeverSleeps ==
    ASSUME RingParameters, OneDrainer
    PROVE  Spec => []DrainerNeverSleeps
<1>1. Init => DrainInv
  BY InitDrains
<1>2. DrainInv /\ [Next]_vars => DrainInv'
  BY NextDrains
<1>3. DrainInv => DrainerNeverSleeps
  BY DEF DrainInv, DrainerNeverSleeps
<1> QED
  BY <1>1, <1>2, <1>3, PTL DEF Spec

\* The ring is a first-in, first-out queue of Capacity - 1 items, for every
\* capacity and whichever calls are used.
THEOREM Refinement ==
    ASSUME RingParameters
    PROVE  Spec => ImplementsQueue
<1>1. Init => TypeOK /\ Queue!QueueInit
  BY InitQueues
<1>2. TypeOK /\ [Next]_vars => TypeOK'
  BY TypeInv
<1>3. TypeOK /\ [Next]_vars => [Queue!QueueNext]_(Queue!queueVars)
  BY NextQueues
<1> QED
  BY <1>1, <1>2, <1>3, PTL DEF Spec, ImplementsQueue, Queue!QueueSpec
=============================================================================
