----------------------------- MODULE ResetEvent -----------------------------
(***************************************************************************)
(* poller::ResetEvent (modules/poller/reset_event.cpp): coroutines await   *)
(* an event; m_state is the set state or the head of a list of awaiters,   *)
(* one in the frame of each suspended coroutine.  set() takes the whole    *)
(* list and resumes the coroutines one after the other on its own thread,  *)
(* where a resumed coroutine may await the event again - its awaiter is    *)
(* then a new one in the same place - or call set() or reset() itself.     *)
(*                                                                         *)
(* Coroutines start on threads of their own; each access to m_state is a   *)
(* step.                                                                   *)
(***************************************************************************)
EXTENDS Naturals

CONSTANTS Coroutines,
          None,          \* nullptr
          MaxCalls       \* bound on the calls each coroutine makes

Awaiters == Coroutines \cup {None}

EventParameters == MaxCalls \in Nat /\ None \notin Coroutines /\ "set" \notin Awaiters

VARIABLES pc,
          m_state,       \* "set", None, or the coroutine of the first awaiter
          next_,         \* next_ of the coroutine's awaiter
          old,           \* local oldValue of await_suspend(), as long as it runs
          waiters,       \* locals waiters and next of set()
          following,
          caller,        \* the coroutine whose set() is running this one
          calls          \* number of calls each coroutine has made

vars == <<pc, m_state, next_, old, waiters, following, caller, calls>>

Goto(c, p) == pc' = [pc EXCEPT ![c] = p]

Init ==
    /\ pc = [c \in Coroutines |-> "running"]
    /\ m_state \in {"set", None}
    /\ next_ = [c \in Coroutines |-> None]
    /\ old = [c \in Coroutines |-> None]
    /\ waiters = [c \in Coroutines |-> None]
    /\ following = [c \in Coroutines |-> None]
    /\ caller = [c \in Coroutines |-> None]
    /\ calls = [c \in Coroutines |-> 0]

Call(c) ==
    /\ pc[c] = "running"
    /\ calls[c] < MaxCalls
    /\ calls' = [calls EXCEPT ![c] = @ + 1]

\* Mutant: set() reads next_ of the awaiter after it has resumed the coroutine.
ReadLate(c) == next_[waiters[c]]

\* Mutant: set() goes on with what is the head of the list by now.
ReadHead(c) == m_state

\* set() has read next_ of the awaiter before it resumed the coroutine.
Onward(c) == following[c]

\* The coroutine suspends or ends: resume() returns to the set() it came from.
HandBack(c, p) ==
    IF caller[c] = None
    THEN /\ Goto(c, p)
         /\ UNCHANGED <<waiters, caller>>
    ELSE /\ pc' = [pc EXCEPT ![c] = p, ![caller[c]] = "releasing"]
         /\ waiters' = [waiters EXCEPT ![caller[c]] = Onward(caller[c])]
         /\ caller' = [caller EXCEPT ![c] = None]

-----------------------------------------------------------------------------
(* co_await                                                                *)

\* await_ready()
Await(c) ==
    /\ Call(c)
    /\ Goto(c, IF m_state = "set" THEN "running" ELSE "loading")
    /\ UNCHANGED <<m_state, next_, old, waiters, following, caller>>

\* await_suspend(): the first load of m_state.
LoadState(c) ==
    /\ pc[c] = "loading"
    /\ old' = [old EXCEPT ![c] = m_state]
    /\ Goto(c, "pushing")
    /\ UNCHANGED <<m_state, next_, waiters, following, caller, calls>>

FindSet(c) ==
    /\ pc[c] = "pushing"
    /\ old[c] = "set"
    /\ old' = [old EXCEPT ![c] = None]
    /\ Goto(c, "running")
    /\ UNCHANGED <<m_state, next_, waiters, following, caller, calls>>

\* Mutant: the awaiter is stored as the head whatever happened to m_state.
BlindStore(c) == TRUE

Unmoved(c) == m_state = old[c]

\* The compare-and-swap puts the awaiter at the head of the list.  From here on
\* another thread may resume the coroutine; await_suspend() returns true and
\* touches nothing more.
Enqueue(c) ==
    /\ pc[c] = "pushing"
    /\ old[c] # "set"
    /\ Unmoved(c)
    /\ next_' = [next_ EXCEPT ![c] = old[c]]
    /\ m_state' = c
    /\ old' = [old EXCEPT ![c] = None]
    /\ HandBack(c, "suspended")
    /\ UNCHANGED <<following, calls>>

\* The compare-and-swap fails, perhaps for no reason (it is the weak one).
Retry(c) ==
    /\ pc[c] = "pushing"
    /\ old[c] # "set"
    /\ next_' = [next_ EXCEPT ![c] = old[c]]
    /\ old' = [old EXCEPT ![c] = m_state]
    /\ UNCHANGED <<pc, m_state, waiters, following, caller, calls>>

-----------------------------------------------------------------------------
(* set() and reset()                                                       *)

\* m_state.exchange(): the list becomes this thread's own.
Set(c) ==
    /\ Call(c)
    /\ m_state' = "set"
    /\ IF m_state = "set"
       THEN UNCHANGED <<pc, waiters>>
       ELSE /\ waiters' = [waiters EXCEPT ![c] = m_state]
            /\ Goto(c, "releasing")
    /\ UNCHANGED <<next_, old, following, caller>>

\* The loop: next is read, then the coroutine of the awaiter runs on this thread.
ResumeWaiter(c) ==
    /\ pc[c] = "releasing"
    /\ waiters[c] # None
    /\ following' = [following EXCEPT ![c] = next_[waiters[c]]]
    /\ caller' = [caller EXCEPT ![waiters[c]] = c]
    /\ pc' = [pc EXCEPT ![c] = "resuming", ![waiters[c]] = "running"]
    /\ UNCHANGED <<m_state, next_, old, waiters, calls>>

SetReturns(c) ==
    /\ pc[c] = "releasing"
    /\ waiters[c] = None
    /\ Goto(c, "running")
    /\ UNCHANGED <<m_state, next_, old, waiters, following, caller, calls>>

\* Mutant: reset() clears m_state whatever is in it.
ClearAlways == None

Cleared == IF m_state = "set" THEN None ELSE m_state

\* The compare-and-swap leaves a list of awaiters alone.
Reset(c) ==
    /\ Call(c)
    /\ m_state' = Cleared
    /\ UNCHANGED <<pc, next_, old, waiters, following, caller>>

\* The coroutine runs to its end, or suspends on something else for good.
End(c) ==
    /\ pc[c] = "running"
    /\ HandBack(c, "ended")
    /\ UNCHANGED <<m_state, next_, old, following, calls>>

Step(c) ==
    \/ Await(c) \/ LoadState(c) \/ FindSet(c) \/ Enqueue(c) \/ Retry(c)
    \/ Set(c) \/ ResumeWaiter(c) \/ SetReturns(c) \/ Reset(c) \/ End(c)

\* Everybody waits or has ended: the program may stop here.
Idle == (\A c \in Coroutines : pc[c] \in {"suspended", "ended"}) /\ UNCHANGED vars

Next == (\E c \in Coroutines : Step(c)) \/ Idle

Spec == Init /\ [][Next]_vars

\* A coroutine that runs goes on until it suspends or ends, and the weak
\* compare-and-swap does not fail for ever.
Fairness == \A c \in Coroutines : WF_vars(Step(c)) /\ WF_vars(Enqueue(c))

FairSpec == Spec /\ Fairness

-----------------------------------------------------------------------------
Points == {"running", "loading", "pushing", "suspended", "releasing", "resuming", "ended"}

TypeOK ==
    /\ pc \in [Coroutines -> Points]
    /\ m_state \in Awaiters \cup {"set"}
    /\ next_ \in [Coroutines -> Awaiters]
    /\ old \in [Coroutines -> Awaiters \cup {"set"}]
    /\ waiters \in [Coroutines -> Awaiters]
    /\ following \in [Coroutines -> Awaiters]
    /\ caller \in [Coroutines -> Awaiters]
    /\ calls \in [Coroutines -> 0 .. MaxCalls]

\* The coroutines whose awaiters are in the list that starts at head: the least
\* set that holds the head and, with an awaiter, the one its next_ points to.
Holds(S, link, head) ==
    /\ head \in Coroutines => head \in S
    /\ \A a \in S : link[a] \in Coroutines => link[a] \in S

ListOf(link, head) ==
    {a \in Coroutines : \A S \in SUBSET Coroutines : Holds(S, link, head) => a \in S}

List(head) == ListOf(next_, head)

Waiting == List(m_state)

\* The awaiter whose coroutine the set() of c resumes next.
Ahead(c) == CASE pc[c] = "releasing" -> waiters[c]
              [] pc[c] = "resuming" -> following[c]
              [] OTHER -> None

Rest(c) == List(Ahead(c))

Released == UNION {Rest(c) : c \in Coroutines}

\* The lists implement the promise: whatever the races of awaiting, setting and
\* resetting threads, set() releases exactly those who wait, and each once.
Event == INSTANCE ManualResetEvent
         WITH isSet <- m_state = "set", waiting <- Waiting, released <- Released
ImplementsEvent == Event!EventSpec

\* A suspended coroutine is in the event's list or in that of a set() under
\* way, and in one of them only: it is neither forgotten nor resumed twice.
NobodyForgotten ==
    /\ \A c \in Coroutines : pc[c] = "suspended" <=> c \in Waiting \cup Released
    /\ Waiting \cap Released = {}
    /\ \A c, d \in Coroutines : c # d => Rest(c) \cap Rest(d) = {}

\* No list comes back to an awaiter it has passed.
NoCycle == \A c \in Coroutines : pc[c] = "suspended" => c \notin List(next_[c])

\* set() is in the middle of resume() while a coroutine it resumed runs, and a
\* coroutine that waits or has ended runs inside no set().
ResumedInside ==
    \A c \in Coroutines :
       caller[c] # None =>
          /\ pc[caller[c]] = "resuming"
          /\ pc[c] \notin {"suspended", "ended"}
          /\ \A d \in Coroutines : caller[d] = caller[c] => d = c

\* The inductive invariant of the proofs.
IInv == TypeOK /\ NobodyForgotten /\ NoCycle /\ ResumedInside

\* Once the event is set, everybody who was waiting for it is resumed, even if
\* it is reset before set() comes to the end of its list.
SetResumes ==
    \A c \in Coroutines :
       (pc[c] = "suspended" /\ m_state = "set") ~> pc[c] # "suspended"
=============================================================================
