--------------------------- MODULE SemaphoreQueue ---------------------------
(***************************************************************************)
(* semaphore_queue (modules/std/queue.cpp): a ring of Capacity slots, two  *)
(* counting semaphores for the slots that are free and filled, and a mutex *)
(* for the indices.  What a thread does under the mutex is one action.     *)
(* try_push() and try_pop() differ from push() and pop() only in that they *)
(* give up, with nothing changed, when the semaphore is at zero.           *)
(***************************************************************************)
EXTENDS Naturals, Sequences, FiniteSets

CONSTANTS Producers, Consumers,   \* disjoint sets of threads
          Items, Capacity,
          None                    \* not an item

VARIABLES pc, sem_empty, sem_full, head, tail, buffer,
          item,     \* the item each thread's push() was called with
          out       \* what a pop() has read last

vars == <<pc, sem_empty, sem_full, head, tail, buffer, item, out>>

Threads == Producers \cup Consumers
Slots == 0 .. Capacity - 1

Goto(t, p) == pc' = [pc EXCEPT ![t] = p]
NextIndex(i) == (i + 1) % Capacity

Init ==
    /\ pc = [t \in Threads |-> "idle"]
    /\ sem_empty = Capacity
    /\ sem_full = 0
    /\ head = 0
    /\ tail = 0
    /\ buffer = [i \in Slots |-> None]
    /\ item = [t \in Threads |-> None]
    /\ out = None

PushAcquire(t) ==
    /\ pc[t] = "idle"
    /\ sem_empty > 0
    /\ sem_empty' = sem_empty - 1
    /\ \E x \in Items : item' = [item EXCEPT ![t] = x]
    /\ Goto(t, "storing")
    /\ UNCHANGED <<sem_full, head, tail, buffer, out>>

PushStore(t) ==
    /\ pc[t] = "storing"
    /\ buffer' = [buffer EXCEPT ![tail] = item[t]]
    /\ tail' = NextIndex(tail)
    /\ item' = [item EXCEPT ![t] = None]
    /\ Goto(t, "releasing")
    /\ UNCHANGED <<sem_empty, sem_full, head, out>>

PushRelease(t) ==
    /\ pc[t] = "releasing"
    /\ sem_full' = sem_full + 1
    /\ Goto(t, "idle")
    /\ UNCHANGED <<sem_empty, head, tail, buffer, item, out>>

\* Mutant: pop() does not wait for an item.
NoWait == TRUE

FilledSlot == sem_full > 0

PopAcquire(t) ==
    /\ pc[t] = "idle"
    /\ FilledSlot
    /\ sem_full' = sem_full - 1
    /\ Goto(t, "loading")
    /\ UNCHANGED <<sem_empty, head, tail, buffer, item, out>>

PopLoad(t) ==
    /\ pc[t] = "loading"
    /\ out' = buffer[head]
    /\ head' = NextIndex(head)
    /\ Goto(t, "freeing")
    /\ UNCHANGED <<sem_empty, sem_full, tail, buffer, item>>

\* Mutant: the slot is not given back.
KeepSlot(t) ==
    /\ pc[t] = "freeing"
    /\ Goto(t, "idle")
    /\ UNCHANGED <<sem_empty, sem_full, head, tail, buffer, item, out>>

PopRelease(t) ==
    /\ pc[t] = "freeing"
    /\ sem_empty' = sem_empty + 1
    /\ Goto(t, "idle")
    /\ UNCHANGED <<sem_full, head, tail, buffer, item, out>>

PushStep(t) == PushAcquire(t) \/ PushStore(t) \/ PushRelease(t)
PopStep(t) == PopAcquire(t) \/ PopLoad(t) \/ PopRelease(t)

Next ==
    \/ \E t \in Producers : PushStep(t)
    \/ \E t \in Consumers : PopStep(t)

Spec == Init /\ [][Next]_vars

-----------------------------------------------------------------------------
Points == {"idle", "storing", "releasing", "loading", "freeing"}

TypeOK ==
    /\ pc \in [Threads -> Points]
    /\ sem_empty \in 0 .. Capacity /\ sem_full \in 0 .. Capacity
    /\ head \in Slots /\ tail \in Slots
    /\ buffer \in [Slots -> Items \cup {None}]
    /\ item \in [Threads -> Items \cup {None}]
    /\ out \in Items \cup {None}

Stored == Cardinality({t \in Threads : pc[t] = "releasing"}) + sem_full
             + Cardinality({t \in Threads : pc[t] = "loading"})

Content == [i \in 1 .. Stored |-> buffer[(head + i - 1) % Capacity]]

\* The ring is a first-in, first-out queue of Capacity items, although a
\* consumer may take an item whose producer has not released it yet.
Queue == INSTANCE BoundedQueue WITH content <- Content, Bound <- Capacity
ImplementsQueue == Queue!QueueSpec

\* The semaphores and the calls under way account for every slot: none is lost
\* and none is given out twice, whichever call comes first.
SlotsExact ==
    sem_empty + Cardinality({t \in Threads : pc[t] \in {"storing", "freeing"}}) + Stored
    = Capacity
=============================================================================
