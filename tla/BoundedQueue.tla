---------------------------- MODULE BoundedQueue ----------------------------
(***************************************************************************)
(* What the three queues of modules/std/queue.cpp promise: a first-in,     *)
(* first-out queue of at most Bound items, whatever threads put and take.  *)
(***************************************************************************)
EXTENDS Naturals, Sequences

CONSTANTS Items, Bound, None

VARIABLES content,  \* the items put and not yet taken, in order
          out       \* the item taken last

queueVars == <<content, out>>

QueueInit == content = <<>> /\ out = None

Enqueue(x) ==
    /\ Len(content) < Bound
    /\ content' = Append(content, x)
    /\ UNCHANGED out

Dequeue ==
    /\ content # <<>>
    /\ out' = Head(content)
    /\ content' = Tail(content)

QueueNext == Dequeue \/ \E x \in Items : Enqueue(x)

QueueSpec == QueueInit /\ [][QueueNext]_queueVars
=============================================================================
