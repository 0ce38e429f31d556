------------------------- MODULE WorkStealingDeque -------------------------
(***************************************************************************)
(* WorkStealingDeque and its Array (modules/std/workstealingdeque.cpp,     *)
(* modules/std/array.cpp): the queues of the thread pool.  top_ only       *)
(* grows, by compare-and-swap; bottom_ is written by the owner.  The owner *)
(* replaces a full array by one of twice the capacity; thieves may go on   *)
(* reading the old one, which is kept until the deque is destroyed.        *)
(*                                                                         *)
(* Each access to top_, bottom_, array_ or, by a thief, to a slot is a     *)
(* step.  The items are the numbers of the pushes.  The accesses are taken *)
(* to be sequentially consistent, and the int counters not to overflow.    *)
(***************************************************************************)
EXTENDS Integers, SequencesExt

CONSTANTS Owners,     \* threads whose index_ is this queue's: they push
          Poppers,    \* those of them that pop, too
          Thieves,
          Capacity,   \* of the first array: 1024 in the code
          None,
          MaxPushes   \* bound on the number of pushes

DequeParameters ==
    /\ Poppers \subseteq Owners /\ Owners \cap Thieves = {}
    /\ Capacity \in Nat \ {0} /\ \E n \in 0 .. Capacity : Capacity = 2^n
    /\ MaxPushes \in Nat
    /\ None \notin Nat

VARIABLES pc,
          top,        \* top_
          bottom,     \* bottom_
          arrays,     \* garbage_ and, last, *array_
          ltop,       \* local: top, bottom, array and item of the operation
          lbottom,
          larray,
          item,
          pushed,     \* number of Push() calls
          received    \* history: the items each thread has got

vars == <<pc, top, bottom, arrays, ltop, lbottom, larray, item, pushed, received>>

Threads == Owners \cup Thieves
Pushes == 1 .. MaxPushes

Goto(t, p) == pc' = [pc EXCEPT ![t] = p]

NewArray(capacity) == [i \in 0 .. capacity - 1 |-> None]

\* Array::capacity_, and a slot: index & mask_ for a power of two.
CapacityOf(array) == Cardinality(DOMAIN array)
Get(array, index) == array[index % CapacityOf(array)]
Put(array, index, x) == [array EXCEPT ![index % CapacityOf(array)] = x]

Array == Last(arrays)

Init ==
    /\ pc = [t \in Threads |-> "idle"]
    /\ top = 0
    /\ bottom = 0
    /\ arrays = <<NewArray(Capacity)>>
    /\ ltop = [t \in Threads |-> 0]
    /\ lbottom = [t \in Threads |-> 0]
    /\ larray = [t \in Threads |-> 1]
    /\ item = [t \in Threads |-> None]
    /\ pushed = 0
    /\ received = [t \in Threads |-> {}]

Receive(t, x) == received' = [received EXCEPT ![t] = @ \cup {x}]

-----------------------------------------------------------------------------
(* Push()                                                                  *)

PushBegin(o) ==
    /\ pc[o] = "idle"
    /\ pushed < MaxPushes
    /\ pushed' = pushed + 1
    /\ item' = [item EXCEPT ![o] = pushed + 1]
    /\ lbottom' = [lbottom EXCEPT ![o] = bottom]
    /\ Goto(o, "fitting")
    /\ UNCHANGED <<top, bottom, arrays, ltop, larray, received>>

\* Array::Resize: the items from top to bottom, in an array twice as large.
Resize(array, b, t) ==
    LET capacity == 2 * CapacityOf(array) IN
    [i \in 0 .. capacity - 1 |->
        LET at == {k \in t .. b - 1 : k % capacity = i} IN
        IF at = {} THEN None ELSE Get(array, CHOOSE k \in at : TRUE)]

IsFull(array, b, t) == CapacityOf(array) - 1 < b - t

\* The load of top_, and Resize() if the array is full.
PushFit(o) ==
    /\ pc[o] = "fitting"
    /\ arrays' = IF IsFull(Array, lbottom[o], top)
                 THEN Append(arrays, Resize(Array, lbottom[o], top))
                 ELSE arrays
    /\ Goto(o, "putting")
    /\ UNCHANGED <<top, bottom, ltop, lbottom, larray, item, pushed, received>>

PushPut(o) ==
    /\ pc[o] = "putting"
    /\ arrays' = [arrays EXCEPT ![Len(arrays)] = Put(@, lbottom[o], item[o])]
    /\ Goto(o, "publishing")
    /\ UNCHANGED <<top, bottom, ltop, lbottom, larray, item, pushed, received>>

PushPublish(o) ==
    /\ pc[o] = "publishing"
    /\ bottom' = lbottom[o] + 1
    /\ Goto(o, "idle")
    /\ UNCHANGED <<top, arrays, ltop, lbottom, larray, item, pushed, received>>

-----------------------------------------------------------------------------
(* Pop()                                                                   *)

\* bottom_.fetch_sub( 1 ): thieves see the deque without its last item.
PopClaim(o) ==
    /\ pc[o] = "idle"
    /\ bottom' = bottom - 1
    /\ lbottom' = [lbottom EXCEPT ![o] = bottom - 1]
    /\ Goto(o, "claimed")
    /\ UNCHANGED <<top, arrays, ltop, larray, item, pushed, received>>

\* Mutant: the item before the first one counts as the last one.
BehindOne(b) == top < b - 1

\* The claimed item is not the first one, too: no thief can get at it.
Behind(b) == top < b

\* The load of top_ decides: the item is the owner's, or there is none, or it
\* is the last one and thieves may be about to take it.
PopLook(o) ==
    /\ pc[o] = "claimed"
    /\ ltop' = [ltop EXCEPT ![o] = top]
    /\ IF Behind(lbottom[o])
       THEN /\ Receive(o, Get(Array, lbottom[o]))
            /\ Goto(o, "idle")
            /\ UNCHANGED item
       ELSE /\ IF top = lbottom[o]
               THEN /\ item' = [item EXCEPT ![o] = Get(Array, lbottom[o])]
                    /\ Goto(o, "racing")
               ELSE /\ item' = [item EXCEPT ![o] = None]
                    /\ Goto(o, "restoring")
            /\ UNCHANGED received
    /\ UNCHANGED <<top, bottom, arrays, lbottom, larray, pushed>>

\* The owner steals its last item from itself.
PopRace(o) ==
    /\ pc[o] = "racing"
    /\ IF top = ltop[o]
       THEN /\ top' = top + 1
            /\ ltop' = [ltop EXCEPT ![o] = top + 1]
            /\ Receive(o, item[o])
       ELSE /\ ltop' = [ltop EXCEPT ![o] = top]
            /\ UNCHANGED <<top, received>>
    /\ Goto(o, "restoring")
    /\ UNCHANGED <<bottom, arrays, lbottom, larray, item, pushed>>

\* Mutant: bottom_ stays where the claim has put it.
LeaveBottom(o) ==
    /\ pc[o] = "restoring"
    /\ Goto(o, "idle")
    /\ UNCHANGED <<top, bottom, arrays, ltop, lbottom, larray, item, pushed, received>>

PopRestore(o) ==
    /\ pc[o] = "restoring"
    /\ bottom' = ltop[o]
    /\ Goto(o, "idle")
    /\ UNCHANGED <<top, arrays, ltop, lbottom, larray, item, pushed, received>>

-----------------------------------------------------------------------------
(* Steal()                                                                 *)

StealTop(t) ==
    /\ pc[t] = "idle"
    /\ ltop' = [ltop EXCEPT ![t] = top]
    /\ Goto(t, "topped")
    /\ UNCHANGED <<top, bottom, arrays, lbottom, larray, item, pushed, received>>

StealBottom(t) ==
    /\ pc[t] = "topped"
    /\ Goto(t, IF ltop[t] >= bottom THEN "idle" ELSE "bottomed")
    /\ UNCHANGED <<top, bottom, arrays, ltop, lbottom, larray, item, pushed, received>>

StealArray(t) ==
    /\ pc[t] = "bottomed"
    /\ larray' = [larray EXCEPT ![t] = Len(arrays)]
    /\ Goto(t, "reading")
    /\ UNCHANGED <<top, bottom, arrays, ltop, lbottom, item, pushed, received>>

\* The slot may be overwritten already, or the array be an old one.
StealRead(t) ==
    /\ pc[t] = "reading"
    /\ item' = [item EXCEPT ![t] = Get(arrays[larray[t]], ltop[t])]
    /\ Goto(t, "taking")
    /\ UNCHANGED <<top, bottom, arrays, ltop, lbottom, larray, pushed, received>>

\* Mutant: the item is taken whatever has happened to top_.
TopIgnored(t) == TRUE

TopUnmoved(t) == top = ltop[t]

StealTake(t) ==
    /\ pc[t] = "taking"
    /\ IF TopUnmoved(t)
       THEN /\ top' = ltop[t] + 1
            /\ Receive(t, item[t])
       ELSE UNCHANGED <<top, received>>
    /\ Goto(t, "idle")
    /\ UNCHANGED <<bottom, arrays, ltop, lbottom, larray, item, pushed>>

-----------------------------------------------------------------------------
PushStep(o) == PushBegin(o) \/ PushFit(o) \/ PushPut(o) \/ PushPublish(o)
PopStep(o) == PopClaim(o) \/ PopLook(o) \/ PopRace(o) \/ PopRestore(o)
StealStep(t) ==
    StealTop(t) \/ StealBottom(t) \/ StealArray(t) \/ StealRead(t) \/ StealTake(t)

Next ==
    \/ \E o \in Owners : PushStep(o)
    \/ \E o \in Poppers : PopStep(o)
    \/ \E t \in Thieves : StealStep(t)

Spec == Init /\ [][Next]_vars

-----------------------------------------------------------------------------
(* Properties                                                              *)

OwnerPoints == {"idle", "fitting", "putting", "publishing", "claimed", "racing", "restoring"}
ThiefPoints == {"idle", "topped", "bottomed", "reading", "taking"}

TypeOK ==
    /\ pc \in [Threads -> OwnerPoints \cup ThiefPoints]
    /\ \A o \in Owners : pc[o] \in OwnerPoints
    /\ \A t \in Thieves : pc[t] \in ThiefPoints
    /\ top \in Nat
    /\ bottom \in Nat \cup {-1}
    /\ \A n \in DOMAIN arrays :
          /\ CapacityOf(arrays[n]) = IF n = 1 THEN Capacity ELSE 2 * CapacityOf(arrays[n - 1])
          /\ arrays[n] \in [0 .. CapacityOf(arrays[n]) - 1 -> Pushes \cup {None}]
    /\ ltop \in [Threads -> Nat]
    /\ lbottom \in [Threads -> Nat \cup {-1}]
    /\ larray \in [Threads -> DOMAIN arrays]
    /\ item \in [Threads -> Pushes \cup {None}]
    /\ pushed \in 0 .. MaxPushes
    /\ received \in [Threads -> SUBSET Pushes]

\* The assertions of Pop() (workstealingdeque.cpp:74, 106): bottom_ is never
\* claimed below an empty deque, and a claim that misses misses by one.
PopAssertions ==
    \A o \in Owners :
       /\ pc[o] = "claimed" => lbottom[o] >= -1
       /\ pc[o] = "claimed" /\ top > lbottom[o] => top - lbottom[o] = 1

\* What the deque holds: an item that the owner has claimed, but that a thief
\* may still take, counts.
Claimed == \E o \in Owners : pc[o] \in {"claimed", "racing"}
End == IF Claimed THEN bottom + 1 ELSE bottom
Content == [i \in 1 .. End - top |-> Get(Array, top + i - 1)]

\* The deque implements the promise: each item is received by one thread, from
\* the end it is entitled to, across races for the last item, reads of slots
\* that were overwritten and reads of arrays that were replaced.
Deque == INSTANCE TaskDeque WITH content <- Content
ImplementsDeque == Deque!DequeInit /\ [][Deque!DequeNext(Pushes)]_(Deque!dequeVars)

\* The thread has just gone home without an item.
ComesEmpty(o) == pc[o] \in {"claimed", "racing"} /\ pc'[o] = "restoring" /\ UNCHANGED received

\* Pop() returns nullptr only when the deque is empty: a worker that loses the
\* race for the last item leaves nothing behind.
EmptyPopIsTrue == [][\A o \in Owners : ComesEmpty(o) => Content = <<>>]_vars
=============================================================================
