---------------------------- MODULE LockingQueue ----------------------------
(***************************************************************************)
(* locking_queue (modules/std/queue.cpp): a ring of Capacity slots, one of *)
(* which stays free, under a mutex, with a condition variable for each     *)
(* side.  A call takes the mutex, does its work, lets the mutex go and     *)
(* only then notifies.  is_empty() is called without the mutex, too: the   *)
(* loop of io::SchedulerBase drains the queue with it (schedulerbase.cpp,  *)
(* asyncCallback).  A condition variable may wake a thread for no reason.  *)
(***************************************************************************)
EXTENDS Naturals, Sequences, FiniteSets

CONSTANTS Pushers, TryPushers,          \* threads that call push(), try_push(),
          Poppers, TryPoppers,          \* pop(), try_pop(), or
          Drainers,                     \* pop() after is_empty() returned false
          Items, Capacity,
          None                          \* neither an item nor a thread

RingParameters == Capacity \in Nat \ {0}

\* A producer that sleeps is not woken by try_pop(): a queue is not used with both
\* calls.
LockingParameters ==
    /\ RingParameters
    /\ IsFiniteSet(Pushers \cup TryPushers \cup Poppers \cup TryPoppers \cup Drainers)
    /\ Pushers = {} \/ TryPoppers = {}

VARIABLES pc,
          owner,    \* who holds mtx_
          asleep,   \* asleep[c]: the threads waiting on condition variable c
          head, tail, buffer,
          out       \* what a pop has read last

ring == <<head, tail, buffer, out>>
vars == <<pc, owner, asleep, ring>>

Threads == Pushers \cup TryPushers \cup Poppers \cup TryPoppers \cup Drainers
Conditions == {"not_full", "not_empty"}
Slots == 0 .. Capacity - 1

Goto(t, p) == pc' = [pc EXCEPT ![t] = p]
NextIndex(i) == (i + 1) % Capacity
IsEmpty == head = tail

\* Mutant: the last slot is filled, too.
NeverFull == FALSE

IsFull == NextIndex(tail) = head

Init ==
    /\ pc = [t \in Threads |-> "idle"]
    /\ owner = None
    /\ asleep = [c \in Conditions |-> {}]
    /\ head = 0
    /\ tail = 0
    /\ buffer = [i \in Slots |-> None]
    /\ out = None

\* What each call does once it has the mutex.
Calls(t) ==
    (IF t \in Pushers THEN {"push"} ELSE {}) \cup (IF t \in TryPushers THEN {"try_push"} ELSE {})
    \cup (IF t \in Poppers THEN {"pop"} ELSE {}) \cup (IF t \in TryPoppers THEN {"try_pop"} ELSE {})

\* A call that finds the mutex free takes it; try_push() and try_pop() return
\* false, with nothing changed, when they do not.
Enter(t) ==
    /\ pc[t] = "idle"
    /\ owner = None
    /\ owner' = t
    /\ \E call \in Calls(t) : Goto(t, call)
    /\ UNCHANGED <<asleep, ring>>

\* Mutant: pop() is called before is_empty().
Unchecked == TRUE

SeesItem == ~ IsEmpty

\* asyncCallback() has read is_empty() without the mutex and calls pop().
SeeItem(t) ==
    /\ t \in Drainers
    /\ pc[t] = "idle"
    /\ SeesItem
    /\ Goto(t, "drain")
    /\ UNCHANGED <<owner, asleep, ring>>

\* ...which takes the mutex; a thread that was woken takes it again.
Lock(t) ==
    /\ pc[t] \in {"drain", "push_woken", "pop_woken"}
    /\ owner = None
    /\ owner' = t
    /\ Goto(t, IF pc[t] = "push_woken" THEN "push" ELSE "pop")
    /\ UNCHANGED <<asleep, ring>>

\* wait(): the mutex is let go and the thread sleeps, in one step.
Sleep(t, c) ==
    /\ owner' = None
    /\ asleep' = [asleep EXCEPT ![c] = @ \cup {t}]
    /\ Goto(t, "asleep")
    /\ UNCHANGED ring

PushWaits(t) == pc[t] = "push" /\ IsFull /\ Sleep(t, "not_full")
PopWaits(t) == pc[t] = "pop" /\ IsEmpty /\ Sleep(t, "not_empty")

GiveUp(t) ==
    /\ (pc[t] = "try_push" /\ IsFull) \/ (pc[t] = "try_pop" /\ IsEmpty)
    /\ owner' = None
    /\ Goto(t, "idle")
    /\ UNCHANGED <<asleep, ring>>

Store(t) ==
    /\ pc[t] \in {"push", "try_push"}
    /\ ~ IsFull
    /\ \E x \in Items : buffer' = [buffer EXCEPT ![tail] = x]
    /\ tail' = NextIndex(tail)
    /\ owner' = None
    /\ Goto(t, "stored")
    /\ UNCHANGED <<asleep, head, out>>

Load(t) ==
    /\ pc[t] \in {"pop", "try_pop"}
    /\ ~ IsEmpty
    /\ out' = buffer[head]
    /\ head' = NextIndex(head)
    /\ owner' = None
    /\ Goto(t, IF pc[t] = "pop" THEN "popped" ELSE "try_popped")
    /\ UNCHANGED <<asleep, tail, buffer>>

\* Mutant: pop() notifies the consumers' side, as try_pop() does.
ConsumersSide(p) == "not_empty"

\* try_pop() frees a slot, too, but notifies the consumers (queue.cpp:103).
Condition(p) == IF p = "popped" THEN "not_full" ELSE "not_empty"

\* notify_one(), after the mutex was let go.
Notify(t) ==
    /\ pc[t] \in {"stored", "popped", "try_popped"}
    /\ LET c == Condition(pc[t]) IN
       IF asleep[c] = {}
       THEN Goto(t, "idle") /\ UNCHANGED asleep
       ELSE \E u \in asleep[c] :
               /\ asleep' = [asleep EXCEPT ![c] = @ \ {u}]
               /\ pc' = [pc EXCEPT ![t] = "idle",
                                   ![u] = IF c = "not_full" THEN "push_woken" ELSE "pop_woken"]
    /\ UNCHANGED <<owner, ring>>

\* A spurious wake-up.
Rouse(t) ==
    \E c \in Conditions :
       /\ t \in asleep[c]
       /\ asleep' = [asleep EXCEPT ![c] = @ \ {t}]
       /\ Goto(t, IF c = "not_full" THEN "push_woken" ELSE "pop_woken")
       /\ UNCHANGED <<owner, ring>>

Step(t) ==
    \/ Enter(t) \/ SeeItem(t) \/ Lock(t)
    \/ PushWaits(t) \/ PopWaits(t) \/ GiveUp(t) \/ Store(t) \/ Load(t)
    \/ Notify(t) \/ Rouse(t)

Next == \E t \in Threads : Step(t)

Spec == Init /\ [][Next]_vars

-----------------------------------------------------------------------------
Points == {"idle", "push", "try_push", "pop", "try_pop", "drain", "asleep",
           "push_woken", "pop_woken", "stored", "popped", "try_popped"}

TypeOK ==
    /\ pc \in [Threads -> Points]
    /\ owner \in Threads \cup {None}
    /\ asleep \in [Conditions -> SUBSET Threads]
    /\ head \in Slots /\ tail \in Slots
    /\ buffer \in [Slots -> Items \cup {None}]
    /\ out \in Items \cup {None}

\* The number of items in the ring.
Filled == (tail + Capacity - head) % Capacity

Content == [i \in 1 .. Filled |-> buffer[(head + i - 1) % Capacity]]

\* The ring is a first-in, first-out queue of Capacity - 1 items.
Queue == INSTANCE BoundedQueue WITH content <- Content, Bound <- Capacity - 1
ImplementsQueue == Queue!QueueSpec

\* A thread sleeps over a free slot, or over an item, only while somebody is
\* about to notify its side or a thread of its side has been woken: although
\* the notification comes after the mutex is let go, and newcomers overtake
\* the woken, none is forgotten.
NoSleeperForgotten ==
    /\ asleep["not_full"] # {} /\ ~ IsFull =>
          \E t \in Threads : pc[t] \in {"popped", "push_woken", "push"}
    /\ asleep["not_empty"] # {} /\ ~ IsEmpty =>
          \E t \in Threads : pc[t] \in {"stored", "pop_woken", "drain", "pop"}

\* Threads that will look at what the sleepers of condition variable c wait for,
\* or wake one of them, before they return.
Attending(c) ==
    {t \in Threads :
        pc[t] \in (IF c = "not_full" THEN {"popped", "push_woken", "push"}
                   ELSE {"stored", "pop_woken", "drain", "pop"})}

\* What they are woken for: free slots, or items.
Offered(c) == IF c = "not_full" THEN Capacity - 1 - Filled ELSE Filled

\* Beside sleepers there is one such thread at least for each slot or item: what
\* makes NoSleeperForgotten last when one of them takes its slot and goes.
Attended(c) == asleep[c] # {} => Offered(c) <= Cardinality(Attending(c))

\* A thread is in the calls that it makes, and sleeps at most once.
CallsKept ==
    /\ \A t \in Threads :
          /\ pc[t] \in {"push", "push_woken"} => t \in Pushers
          /\ pc[t] \in {"try_pop", "try_popped"} => t \in TryPoppers
    /\ asleep["not_full"] \cap asleep["not_empty"] = {}
    /\ asleep["not_full"] \subseteq Pushers
    /\ \A c \in Conditions : \A t \in asleep[c] : pc[t] = "asleep"

\* The inductive invariant of the proofs.
IInv == TypeOK /\ CallsKept /\ \A c \in Conditions : Attended(c)

\* asyncCallback() reads is_empty() without the mutex (schedulerbase.cpp:73):
\* the only consumer may rely on what it read, and pop() never blocks the loop.
DrainerNeverSleeps == \A t \in Drainers : pc[t] # "asleep"

\* The use that schedulerbase.cpp makes of the queue: one thread drains it, makes
\* no other call, and nobody else takes items.
OneDrainer ==
    /\ Poppers = {} /\ TryPoppers = {} /\ Drainers \cap (Pushers \cup TryPushers) = {}
    /\ \A t, u \in Drainers : t = u

\* What it has read goes on to hold until it has taken the item.
DrainInv ==
    /\ TypeOK
    /\ asleep["not_full"] \cap Drainers = {} /\ asleep["not_empty"] = {}
    /\ \A t \in Threads : pc[t] \in {"drain", "pop"} => t \in Drainers /\ ~ IsEmpty
    /\ \A t \in Drainers : pc[t] \in {"idle", "drain", "pop", "popped"}
    /\ \A t \in Threads : pc[t] \notin {"try_pop", "pop_woken"}
=============================================================================
