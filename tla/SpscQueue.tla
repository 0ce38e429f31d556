----------------------------- MODULE SpscQueue ------------------------------
(***************************************************************************)
(* spsc_lock_free_queue (modules/std/queue.cpp): a ring of Capacity slots  *)
(* between one producer and one consumer.  Each thread alone writes its    *)
(* own index and reads the other's; the accesses are taken to be           *)
(* sequentially consistent.                                                *)
(***************************************************************************)
EXTENDS Naturals, Sequences

CONSTANTS Items, Capacity, None

ASSUME SpscAssumption ==
    /\ Capacity \in Nat /\ \E n \in 1 .. Capacity : Capacity = 2^n
    /\ None \notin Items

VARIABLES producer,   \* control point of push()
          consumer,   \* control point of pop()
          head,       \* head_
          tail,       \* tail_
          buffer,     \* buffer_
          input,      \* the item push() was called with
          item,       \* what pop() has read
          out         \* what pop() returned last

vars == <<producer, consumer, head, tail, buffer, input, item, out>>

Slots == 0 .. Capacity - 1

\* ( i + 1 ) & ( capacity_ - 1 ), for a capacity that is a power of two.
NextIndex(i) == (i + 1) % Capacity

Init ==
    /\ producer = "idle"
    /\ consumer = "idle"
    /\ head = 0
    /\ tail = 0
    /\ buffer = [i \in Slots |-> None]
    /\ input = None
    /\ item = None
    /\ out = None

\* Mutant: all the slots may be filled.
AlwaysRoom == TRUE

HasRoom == NextIndex(tail) # head

\* The load of head_: there is room, or push() returns false.
PushLook ==
    /\ producer = "idle"
    /\ HasRoom
    /\ input' \in Items
    /\ producer' = "writing"
    /\ UNCHANGED <<consumer, head, tail, buffer, item, out>>

PushWrite ==
    /\ producer = "writing"
    /\ buffer' = [buffer EXCEPT ![tail] = input]
    /\ producer' = "publishing"
    /\ UNCHANGED <<consumer, head, tail, item, input, out>>

PushPublish ==
    /\ producer = "publishing"
    /\ tail' = NextIndex(tail)
    /\ input' = None
    /\ producer' = "idle"
    /\ UNCHANGED <<consumer, head, buffer, item, out>>

\* Mutant: pop() does not look at tail_.
AlwaysFilled == TRUE

HasItem == head # tail

\* The load of tail_: there is an item, or pop() returns false.
PopLook ==
    /\ consumer = "idle"
    /\ HasItem
    /\ consumer' = "reading"
    /\ UNCHANGED <<producer, head, tail, buffer, item, input, out>>

PopRead ==
    /\ consumer = "reading"
    /\ item' = buffer[head]
    /\ consumer' = "publishing"
    /\ UNCHANGED <<producer, head, tail, buffer, input, out>>

PopPublish ==
    /\ consumer = "publishing"
    /\ head' = NextIndex(head)
    /\ out' = item
    /\ item' = None
    /\ consumer' = "idle"
    /\ UNCHANGED <<producer, tail, buffer, input>>

Next ==
    \/ PushLook \/ PushWrite \/ PushPublish
    \/ PopLook \/ PopRead \/ PopPublish

Spec == Init /\ [][Next]_vars

-----------------------------------------------------------------------------
TypeOK ==
    /\ producer \in {"idle", "writing", "publishing"}
    /\ consumer \in {"idle", "reading", "publishing"}
    /\ head \in Slots /\ tail \in Slots
    /\ buffer \in [Slots -> Items \cup {None}]
    /\ {input, item, out} \subseteq Items \cup {None}

\* The slots are plain memory (queue.cpp:34, 46): the two threads must never be
\* at the same one at the same time.
NoSlotRace == producer = "writing" /\ consumer = "reading" => head # tail

Content ==
    [i \in 1 .. (tail + Capacity - head) % Capacity |-> buffer[(head + i - 1) % Capacity]]

\* The ring is a first-in, first-out queue of Capacity - 1 items.
Queue == INSTANCE BoundedQueue WITH content <- Content, Bound <- Capacity - 1
ImplementsQueue == Queue!QueueSpec
=============================================================================
