----------------------------- MODULE TaskDeque -----------------------------
(***************************************************************************)
(* What a work stealing deque promises the thread pool: an item that was   *)
(* pushed is received once, by its owner from the back or by a thief from  *)
(* the front.  (A thief may also come away empty-handed, which is no step  *)
(* here.)                                                                  *)
(***************************************************************************)
EXTENDS SequencesExt

CONSTANTS Owners,   \* threads that push and pop: one, in a pool used as intended
          Thieves   \* threads that steal

VARIABLES content,  \* front to back
          received  \* the items each thread has got

dequeVars == <<content, received>>

DequeInit ==
    /\ content = <<>>
    /\ received = [t \in Owners \cup Thieves |-> {}]

PushBack(x) ==
    /\ x \notin Range(content)
    /\ \A t \in DOMAIN received : x \notin received[t]
    /\ content' = Append(content, x)
    /\ UNCHANGED received

PopBack(o) ==
    /\ content # <<>>
    /\ content' = Front(content)
    /\ received' = [received EXCEPT ![o] = @ \cup {Last(content)}]

StealFront(t) ==
    /\ content # <<>>
    /\ content' = Tail(content)
    /\ received' = [received EXCEPT ![t] = @ \cup {Head(content)}]

DequeNext(Items) ==
    \/ \E x \in Items : PushBack(x)
    \/ \E o \in Owners : PopBack(o)
    \/ \E t \in Thieves : StealFront(t)
=============================================================================
