-------------------------- MODULE ResetEventProofs --------------------------
(***************************************************************************)
(* Proofs about ResetEvent for any number of coroutines and of calls: no   *)
(* coroutine that awaits the event is ever forgotten or resumed twice, and *)
(* the lists implement ManualResetEvent.                                   *)
(***************************************************************************)
EXTENDS ResetEvent, TLAPS

(***************************************************************************)
(* Lists.                                                                  *)
(***************************************************************************)

\* A list is itself one of the sets it is the least of.
LEMMA ListHolds ==
    ASSUME NEW link, NEW head
    PROVE  /\ ListOf(link, head) \in SUBSET Coroutines
           /\ Holds(ListOf(link, head), link, head)
BY DEF ListOf, Holds

\* Every set that holds the head and is closed under the links holds the list.
LEMMA ListIsLeast ==
    ASSUME NEW link, NEW head, NEW S \in SUBSET Coroutines, Holds(S, link, head)
    PROVE  ListOf(link, head) \subseteq S
BY DEF ListOf

\* A pointer to no awaiter is the empty list.
LEMMA EmptyList ==
    ASSUME NEW link, NEW head, head \notin Coroutines
    PROVE  ListOf(link, head) = {}
<1>1. Holds({}, link, head)
  BY DEF Holds
<1> QED
  BY <1>1, ListIsLeast

\* The rest of a list, from the awaiter after one that is in it, is part of it.
LEMMA RestOfList ==
    ASSUME NEW link, NEW head, NEW a \in ListOf(link, head)
    PROVE  ListOf(link, link[a]) \subseteq ListOf(link, head)
<1>1. Holds(ListOf(link, head), link, link[a])
  BY ListHolds DEF Holds
<1> QED
  BY <1>1, ListHolds, ListIsLeast

\* A list is its head and the list that the head's next_ starts.
LEMMA ListUnfolds ==
    ASSUME NEW link, NEW head \in Coroutines
    PROVE  ListOf(link, head) = {head} \cup ListOf(link, link[head])
<1> DEFINE Tail == ListOf(link, link[head])
<1>1. head \in ListOf(link, head)
  BY ListHolds DEF Holds
<1>2. Tail \subseteq ListOf(link, head)
  BY <1>1, RestOfList
<1>3. Tail \in SUBSET Coroutines /\ Holds(Tail, link, link[head])
  BY ListHolds
<1>4. Holds({head} \cup Tail, link, head)
  BY <1>3 DEF Holds
<1>5. ListOf(link, head) \subseteq {head} \cup Tail
  BY <1>3, <1>4, ListIsLeast
<1> QED
  BY <1>1, <1>2, <1>5

\* What happens to the links of awaiters outside a list does not change it.
LEMMA SameList ==
    ASSUME NEW link, NEW other, NEW head,
           \A a \in ListOf(link, head) : other[a] = link[a]
    PROVE  ListOf(other, head) = ListOf(link, head)
<1>1. Holds(ListOf(link, head), other, head)
  BY ListHolds DEF Holds
<1>2. ListOf(other, head) \subseteq ListOf(link, head)
  BY <1>1, ListHolds, ListIsLeast
<1>3. Holds(ListOf(other, head), link, head)
  BY <1>2, ListHolds DEF Holds
<1>4. ListOf(link, head) \subseteq ListOf(other, head)
  BY <1>3, ListHolds, ListIsLeast
<1> QED
  BY <1>2, <1>4

(***************************************************************************)
(* The steps.  A step that neither links an awaiter nor unlinks one leaves *)
(* every list as it is.                                                    *)
(***************************************************************************)

LEMMA QuietStep ==
    ASSUME IInv, TypeOK', Waiting' = Waiting,
           \A d \in Coroutines :
              /\ Rest(d)' = Rest(d)
              /\ pc'[d] = "suspended" <=> pc[d] = "suspended"
              /\ pc[d] = "suspended" => List(next_[d])' = List(next_[d]),
           ResumedInside'
    PROVE  IInv' /\ Released' = Released
<1>1. Released' = Released
  BY DEF Released
<1>2. NobodyForgotten'
  BY <1>1 DEF IInv, NobodyForgotten
<1>3. NoCycle'
  BY DEF IInv, NoCycle
<1> QED
  BY <1>1, <1>2, <1>3 DEF IInv

\* The lists that matter: each holds coroutines that wait, and no others.
LEMMA ListsOfWaiters ==
    ASSUME IInv
    PROVE  /\ \A a \in Waiting : pc[a] = "suspended"
           /\ \A d \in Coroutines : \A a \in Rest(d) : pc[a] = "suspended"
           /\ \A d \in Coroutines : pc[d] = "suspended" =>
                 \A a \in List(next_[d]) : pc[a] = "suspended"
<1>1. Waiting \subseteq Coroutines /\ \A d \in Coroutines : Rest(d) \subseteq Coroutines
  BY ListHolds DEF Waiting, Rest, List
<1>2. /\ \A a \in Waiting : pc[a] = "suspended"
      /\ \A d \in Coroutines : \A a \in Rest(d) : pc[a] = "suspended"
  BY <1>1 DEF IInv, NobodyForgotten, Released
<1>3. ASSUME NEW d \in Coroutines, pc[d] = "suspended", NEW a \in List(next_[d])
      PROVE  pc[a] = "suspended"
  <2>1. CASE d \in Waiting
    BY <2>1, <1>2, <1>3, RestOfList DEF Waiting, List
  <2>2. ASSUME NEW e \in Coroutines, d \in Rest(e)
        PROVE  pc[a] = "suspended"
    BY <2>2, <1>2, <1>3, RestOfList DEF Rest, List
  <2> QED
    BY <2>1, <2>2, <1>3 DEF IInv, NobodyForgotten, Released
<1> QED
  BY <1>2, <1>3

\* The link of a coroutine that does not wait is in none of them.
LEMMA ListsKept ==
    ASSUME IInv, NEW c \in Coroutines, pc[c] # "suspended", NEW v,
           next_' = [next_ EXCEPT ![c] = v]
    PROVE  /\ ListOf(next_', m_state) = Waiting
           /\ \A d \in Coroutines : ListOf(next_', Ahead(d)) = Rest(d)
           /\ \A d \in Coroutines : pc[d] = "suspended" =>
                 /\ next_'[d] = next_[d]
                 /\ ListOf(next_', next_[d]) = List(next_[d])
<1>1. \A a \in Coroutines : pc[a] = "suspended" => next_'[a] = next_[a]
  BY DEF IInv, TypeOK
<1>2. ASSUME NEW head, \A a \in ListOf(next_, head) : pc[a] = "suspended"
      PROVE  ListOf(next_', head) = ListOf(next_, head)
  <2>1. \A a \in ListOf(next_, head) : next_'[a] = next_[a]
    BY <1>1, <1>2, ListHolds
  <2> QED
    BY ZenonT(60), <2>1, SameList
<1>3. ListOf(next_', m_state) = Waiting
  BY <1>2, ListsOfWaiters DEF Waiting, List
<1>4. \A d \in Coroutines : ListOf(next_', Ahead(d)) = Rest(d)
  BY <1>2, ListsOfWaiters DEF Rest, List
<1>5. \A d \in Coroutines : pc[d] = "suspended" => ListOf(next_', next_[d]) = List(next_[d])
  BY <1>2, ListsOfWaiters DEF List
<1> QED
  BY <1>1, <1>3, <1>4, <1>5

\* resume() returns to the set() it came from, and that goes on where it was.
LEMMA HandingBack ==
    ASSUME EventParameters, IInv, NEW c \in Coroutines, pc[c] \in {"pushing", "running"},
           NEW p \in {"suspended", "ended"}, HandBack(c, p), UNCHANGED following
    PROVE  /\ pc' \in [Coroutines -> Points]
           /\ waiters' \in [Coroutines -> Awaiters]
           /\ caller' \in [Coroutines -> Awaiters]
           /\ pc'[c] = p
           /\ \A d \in Coroutines \ {c} : pc'[d] = "suspended" <=> pc[d] = "suspended"
           /\ \A d \in Coroutines : Ahead(d)' = Ahead(d)
           /\ ResumedInside'
<1>0. p \in Points
  BY DEF Points
<1>1. CASE caller[c] = None
  <2>1. pc' = [pc EXCEPT ![c] = p] /\ waiters' = waiters /\ caller' = caller
    BY <1>1 DEF HandBack, Goto
  <2>2. pc' \in [Coroutines -> Points]
    BY <2>1, <1>0 DEF IInv, TypeOK
  <2>3. /\ pc'[c] = p
        /\ \A d \in Coroutines \ {c} : pc'[d] = pc[d]
    BY <2>1 DEF IInv, TypeOK
  <2>4. \A d \in Coroutines : Ahead(d)' = Ahead(d)
    BY <2>1, <2>3 DEF Ahead
  <2>5. ResumedInside'
    BY <2>1, <2>3, <1>1 DEF IInv, ResumedInside
  <2> QED
    BY <2>1, <2>2, <2>3, <2>4, <2>5 DEF IInv, TypeOK
<1>2. CASE caller[c] # None
  <2> DEFINE s == caller[c]
  <2>1. s \in Coroutines /\ pc[s] = "resuming" /\ s # c
    BY <1>2 DEF IInv, TypeOK, ResumedInside, Awaiters
  <2>2. /\ pc' = [pc EXCEPT ![c] = p, ![s] = "releasing"]
        /\ waiters' = [waiters EXCEPT ![s] = following[s]]
        /\ caller' = [caller EXCEPT ![c] = None]
    BY <1>2 DEF HandBack, Onward
  <2> HIDE DEF s
  <2>3. /\ pc' \in [Coroutines -> Points]
        /\ waiters' \in [Coroutines -> Awaiters]
        /\ caller' \in [Coroutines -> Awaiters]
    BY <2>1, <2>2, <1>0 DEF IInv, TypeOK, Points, Awaiters
  <2>4. /\ pc'[c] = p
        /\ pc'[s] = "releasing" /\ waiters'[s] = following[s]
        /\ \A d \in Coroutines \ {c, s} : pc'[d] = pc[d] /\ waiters'[d] = waiters[d]
        /\ waiters'[c] = waiters[c]
        /\ caller'[c] = None
        /\ \A d \in Coroutines \ {c} : caller'[d] = caller[d]
    BY <2>1, <2>2 DEF IInv, TypeOK
  <2>5. \A d \in Coroutines : Ahead(d)' = Ahead(d)
    BY <2>1, <2>4 DEF Ahead
  <2>6. \A d \in Coroutines \ {c} : caller[d] # s
    BY <1>2, <2>1 DEF IInv, ResumedInside, s
  <2>7. \A d \in Coroutines \ {c} : caller[d] # None => caller[d] # c
    BY DEF IInv, ResumedInside
  <2>8. ResumedInside'
    BY <2>1, <2>4, <2>6, <2>7 DEF IInv, TypeOK, Awaiters, ResumedInside
  <2> QED
    BY <2>1, <2>3, <2>4, <2>5, <2>8
<1> QED
  BY <1>1, <1>2

(* co_await                                                                *)

LEMMA AwaitInv ==
    ASSUME EventParameters, IInv, NEW c \in Coroutines, Await(c)
    PROVE  IInv' /\ UNCHANGED Event!eventVars
<1>1. TypeOK'
  BY DEF IInv, TypeOK, EventParameters, Await, Call, Goto, Points
<1>2. /\ pc[c] = "running" /\ pc'[c] \in {"running", "loading"}
      /\ \A d \in Coroutines \ {c} : pc'[d] = pc[d]
      /\ UNCHANGED <<m_state, next_, waiters, following, caller>>
  BY DEF IInv, TypeOK, Await, Call, Goto
<1>3. Waiting' = Waiting
  BY <1>2 DEF Waiting, List
<1>4. \A d \in Coroutines : Rest(d)' = Rest(d)
  BY <1>2 DEF Rest, Ahead, List
<1>5. ResumedInside'
  BY <1>2 DEF IInv, TypeOK, Awaiters, ResumedInside
<1>6. \A d \in Coroutines : List(next_[d])' = List(next_[d])
  BY <1>2 DEF List
<1> QED
  BY <1>1, <1>2, <1>3, <1>4, <1>5, <1>6, QuietStep DEF Event!eventVars

LEMMA LoadStateInv ==
    ASSUME EventParameters, IInv, NEW c \in Coroutines, LoadState(c)
    PROVE  IInv' /\ UNCHANGED Event!eventVars
<1>1. TypeOK'
  BY DEF IInv, TypeOK, LoadState, Goto, Points
<1>2. /\ pc[c] = "loading" /\ pc'[c] = "pushing"
      /\ \A d \in Coroutines \ {c} : pc'[d] = pc[d]
      /\ UNCHANGED <<m_state, next_, waiters, following, caller>>
  BY DEF IInv, TypeOK, LoadState, Goto
<1>3. Waiting' = Waiting
  BY <1>2 DEF Waiting, List
<1>4. \A d \in Coroutines : Rest(d)' = Rest(d)
  BY <1>2 DEF Rest, Ahead, List
<1>5. ResumedInside'
  BY <1>2 DEF IInv, TypeOK, Awaiters, ResumedInside
<1>6. \A d \in Coroutines : List(next_[d])' = List(next_[d])
  BY <1>2 DEF List
<1> QED
  BY <1>1, <1>2, <1>3, <1>4, <1>5, <1>6, QuietStep DEF Event!eventVars

LEMMA FindSetInv ==
    ASSUME EventParameters, IInv, NEW c \in Coroutines, FindSet(c)
    PROVE  IInv' /\ UNCHANGED Event!eventVars
<1>1. TypeOK'
  BY DEF IInv, TypeOK, FindSet, Goto, Points, Awaiters
<1>2. /\ pc[c] = "pushing" /\ pc'[c] = "running"
      /\ \A d \in Coroutines \ {c} : pc'[d] = pc[d]
      /\ UNCHANGED <<m_state, next_, waiters, following, caller>>
  BY DEF IInv, TypeOK, FindSet, Goto
<1>3. Waiting' = Waiting
  BY <1>2 DEF Waiting, List
<1>4. \A d \in Coroutines : Rest(d)' = Rest(d)
  BY <1>2 DEF Rest, Ahead, List
<1>5. ResumedInside'
  BY <1>2 DEF IInv, TypeOK, Awaiters, ResumedInside
<1>6. \A d \in Coroutines : List(next_[d])' = List(next_[d])
  BY <1>2 DEF List
<1> QED
  BY <1>1, <1>2, <1>3, <1>4, <1>5, <1>6, QuietStep DEF Event!eventVars

LEMMA RetryInv ==
    ASSUME EventParameters, IInv, NEW c \in Coroutines, Retry(c)
    PROVE  IInv' /\ UNCHANGED Event!eventVars
<1>0. pc[c] = "pushing"
      /\ next_' = [next_ EXCEPT ![c] = old[c]]
      /\ UNCHANGED <<pc, m_state, waiters, following, caller>>
  BY DEF Retry
<1>1. TypeOK'
  BY DEF IInv, TypeOK, Retry, Awaiters
<1>2. ListOf(next_', m_state) = Waiting
  BY <1>0, ListsKept
<1>3. \A d \in Coroutines : ListOf(next_', Ahead(d)) = Rest(d)
  BY <1>0, ListsKept
<1>4. \A d \in Coroutines : pc[d] = "suspended" =>
         next_'[d] = next_[d] /\ ListOf(next_', next_[d]) = List(next_[d])
  BY <1>0, ListsKept
<1>5. Waiting' = Waiting
  BY <1>0, <1>2 DEF Waiting, List
<1>6. \A d \in Coroutines : Rest(d)' = Rest(d)
  BY <1>0, <1>3 DEF Rest, Ahead, List
<1>7. ResumedInside'
  BY <1>0 DEF IInv, ResumedInside
<1>8. \A d \in Coroutines : pc[d] = "suspended" => List(next_[d])' = List(next_[d])
  BY <1>4 DEF List
<1> QED
  BY <1>0, <1>1, <1>5, <1>6, <1>7, <1>8, QuietStep DEF Event!eventVars

LEMMA EnqueueInv ==
    ASSUME EventParameters, IInv, NEW c \in Coroutines, Enqueue(c)
    PROVE  IInv' /\ Event!Wait(c)
<1>0. /\ pc[c] = "pushing" /\ m_state # "set"
      /\ next_' = [next_ EXCEPT ![c] = m_state] /\ m_state' = c
      /\ old' = [old EXCEPT ![c] = None]
      /\ HandBack(c, "suspended") /\ UNCHANGED <<following, calls>>
  BY DEF Enqueue, Unmoved
<1>1. /\ pc' \in [Coroutines -> Points]
      /\ waiters' \in [Coroutines -> Awaiters]
      /\ caller' \in [Coroutines -> Awaiters]
      /\ pc'[c] = "suspended"
      /\ \A d \in Coroutines \ {c} : pc'[d] = "suspended" <=> pc[d] = "suspended"
      /\ \A d \in Coroutines : Ahead(d)' = Ahead(d)
      /\ ResumedInside'
  BY <1>0, HandingBack
<1>2. TypeOK'
  BY <1>0, <1>1 DEF IInv, TypeOK, Awaiters
<1>3. c \notin Waiting \cup Released
  BY <1>0 DEF IInv, NobodyForgotten
<1>4. /\ ListOf(next_', m_state) = Waiting
      /\ \A d \in Coroutines : ListOf(next_', Ahead(d)) = Rest(d)
      /\ \A d \in Coroutines : pc[d] = "suspended" =>
            next_'[d] = next_[d] /\ ListOf(next_', next_[d]) = List(next_[d])
  BY <1>0, ListsKept
<1>5. next_'[c] = m_state
  BY <1>0 DEF IInv, TypeOK
<1>6. Waiting' = Waiting \cup {c}
  <2>1. ListOf(next_', c) = {c} \cup ListOf(next_', m_state)
    BY <1>5, ListUnfolds
  <2> QED
    BY <2>1, <1>0, <1>4 DEF Waiting, List
<1>7. \A d \in Coroutines : Rest(d)' = Rest(d)
  BY <1>1, <1>4 DEF Rest, List
<1>8. Released' = Released
  BY <1>7 DEF Released
<1>9. NobodyForgotten'
  BY <1>1, <1>3, <1>6, <1>7, <1>8 DEF IInv, NobodyForgotten
<1>10. NoCycle'
  <2>1. c \notin List(next_[c])'
    BY <1>3, <1>4, <1>5 DEF List
  <2>2. \A d \in Coroutines \ {c} : pc'[d] = "suspended" => d \notin List(next_[d])'
    BY <1>1, <1>4 DEF IInv, NoCycle, List
  <2> QED
    BY <2>1, <2>2 DEF NoCycle
<1>11. Event!Wait(c)
  BY <1>0, <1>3, <1>6, <1>8 DEF Event!Wait, EventParameters, Awaiters
<1> QED
  BY <1>1, <1>2, <1>9, <1>10, <1>11 DEF IInv

(* set() and reset()                                                       *)

LEMMA SetInv ==
    ASSUME EventParameters, IInv, NEW c \in Coroutines, Set(c)
    PROVE  IInv' /\ Event!Signal
<1>1. TypeOK'
  BY DEF IInv, TypeOK, EventParameters, Set, Call, Goto, Points, Awaiters
<1>2. Waiting' = {}
  BY EmptyList DEF Set, Waiting, List, EventParameters, Awaiters
<1>3. Rest(c) = {}
  BY EmptyList DEF Set, Call, Rest, Ahead, List, EventParameters
<1>4. pc[c] = "running" /\ pc'[c] \in {"running", "releasing"}
      /\ (\A d \in Coroutines \ {c} : pc'[d] = pc[d] /\ waiters'[d] = waiters[d])
      /\ UNCHANGED <<next_, following, caller>>
  BY DEF IInv, TypeOK, Set, Call, Goto
<1>5. Rest(c)' = Waiting
  <2>1. CASE m_state = "set"
    BY <2>1, EmptyList DEF Set, Call, Rest, Ahead, Waiting, List, EventParameters, Awaiters
  <2>2. CASE m_state # "set"
    <3>1. pc'[c] = "releasing" /\ waiters'[c] = m_state /\ next_' = next_
      BY <2>2 DEF IInv, TypeOK, Set, Goto
    <3> QED
      BY <3>1 DEF Rest, Ahead, Waiting, List
  <2> QED
    BY <2>1, <2>2
<1>6. \A d \in Coroutines \ {c} : Rest(d)' = Rest(d)
  BY <1>4 DEF Rest, Ahead, List
<1>7. Released' = Released \cup Waiting
  BY <1>3, <1>5, <1>6 DEF Released
<1>8. NobodyForgotten'
  BY <1>2, <1>3, <1>4, <1>5, <1>6, <1>7 DEF IInv, NobodyForgotten, Released
<1>9. NoCycle'
  BY <1>4 DEF IInv, NoCycle, List
<1>10. ResumedInside'
  BY <1>4 DEF IInv, TypeOK, Awaiters, ResumedInside
<1>11. Event!Signal
  BY <1>2, <1>7 DEF Event!Signal, Set
<1> QED
  BY <1>1, <1>8, <1>9, <1>10, <1>11 DEF IInv

LEMMA ResumeWaiterInv ==
    ASSUME EventParameters, IInv, NEW c \in Coroutines, ResumeWaiter(c)
    PROVE  IInv' /\ Event!Resume(waiters[c])
<1> DEFINE w == waiters[c]
<1>1. w \in Coroutines /\ pc[c] = "releasing"
  BY DEF IInv, TypeOK, Awaiters, ResumeWaiter
<1>2. Rest(c) = {w} \cup List(next_[w])
  BY <1>1, ListUnfolds DEF Rest, Ahead, List
<1>3. pc[w] = "suspended" /\ w # c /\ w \in Released
  BY <1>1, <1>2 DEF IInv, NobodyForgotten, Released
<1>4. w \notin List(next_[w])
  BY <1>1, <1>3 DEF IInv, NoCycle
<1>5. /\ following' = [following EXCEPT ![c] = next_[w]]
      /\ caller' = [caller EXCEPT ![w] = c]
      /\ pc' = [pc EXCEPT ![c] = "resuming", ![w] = "running"]
      /\ UNCHANGED <<m_state, next_, old, waiters, calls>>
  BY DEF ResumeWaiter
<1> HIDE DEF w
<1>6. TypeOK'
  BY <1>1, <1>5 DEF IInv, TypeOK, Points, Awaiters
<1>7. /\ pc'[c] = "resuming" /\ pc'[w] = "running"
      /\ \A d \in Coroutines \ {c, w} : pc'[d] = pc[d]
      /\ following'[c] = next_[w]
      /\ \A d \in Coroutines \ {c} : following'[d] = following[d]
      /\ caller'[w] = c
      /\ \A d \in Coroutines \ {w} : caller'[d] = caller[d]
  BY <1>1, <1>3, <1>5 DEF IInv, TypeOK
<1>8. Waiting' = Waiting
  BY <1>5 DEF Waiting, List
<1>9. Rest(c)' = Rest(c) \ {w}
  BY <1>2, <1>4, <1>5, <1>7 DEF Rest, Ahead, List
<1>10. \A d \in Coroutines \ {c} : Rest(d)' = Rest(d)
  BY <1>1, <1>3, <1>5, <1>7 DEF Rest, Ahead, List
<1>11. w \in Rest(c) /\ \A d \in Coroutines \ {c} : w \notin Rest(d)
  BY <1>1, <1>2 DEF IInv, NobodyForgotten
<1>12. Released' = Released \ {w}
  BY <1>9, <1>10, <1>11 DEF Released
<1>13. NobodyForgotten'
  <2>1. \A d \in Coroutines : pc'[d] = "suspended" <=> pc[d] = "suspended" /\ d # w
    BY <1>1, <1>3, <1>7
  <2> QED
    BY <2>1, <1>3, <1>8, <1>9, <1>10, <1>12 DEF IInv, NobodyForgotten
<1>14. NoCycle'
  BY <1>3, <1>5, <1>7 DEF IInv, NoCycle, List
<1>15. ResumedInside'
  <2>1. \A d \in Coroutines \ {w} : caller'[d] # c /\ caller[w] = None
    BY <1>1, <1>3, <1>7 DEF IInv, ResumedInside, EventParameters
  <2> QED
    BY <2>1, <1>1, <1>3, <1>7 DEF IInv, TypeOK, Awaiters, ResumedInside
<1>16. Event!Resume(w)
  BY <1>3, <1>5, <1>8, <1>12 DEF Event!Resume
<1> QED
  BY <1>6, <1>13, <1>14, <1>15, <1>16 DEF IInv, w

LEMMA SetReturnsInv ==
    ASSUME EventParameters, IInv, NEW c \in Coroutines, SetReturns(c)
    PROVE  IInv' /\ UNCHANGED Event!eventVars
<1>1. TypeOK'
  BY DEF IInv, TypeOK, SetReturns, Goto, Points
<1>2. /\ pc[c] = "releasing" /\ pc'[c] = "running" /\ waiters[c] = None
      /\ \A d \in Coroutines \ {c} : pc'[d] = pc[d]
      /\ UNCHANGED <<m_state, next_, waiters, following, caller>>
  BY DEF IInv, TypeOK, SetReturns, Goto
<1>3. Waiting' = Waiting
  BY <1>2 DEF Waiting, List
<1>4. \A d \in Coroutines : Rest(d)' = Rest(d)
  BY <1>2 DEF Rest, Ahead, List
<1>5. ResumedInside'
  BY <1>2 DEF IInv, TypeOK, Awaiters, ResumedInside
<1>6. \A d \in Coroutines : List(next_[d])' = List(next_[d])
  BY <1>2 DEF List
<1> QED
  BY <1>1, <1>2, <1>3, <1>4, <1>5, <1>6, QuietStep DEF Event!eventVars

LEMMA ResetInv ==
    ASSUME EventParameters, IInv, NEW c \in Coroutines, Reset(c)
    PROVE  IInv' /\ [Event!Unset]_(Event!eventVars)
<1>1. TypeOK'
  BY DEF IInv, TypeOK, EventParameters, Reset, Call, Cleared, Awaiters
<1>2. UNCHANGED <<pc, next_, waiters, following, caller>>
  BY DEF Reset
<1>3. Waiting' = Waiting
  <2>1. CASE m_state = "set"
    BY <2>1, EmptyList DEF Reset, Cleared, Waiting, List, EventParameters, Awaiters
  <2>2. CASE m_state # "set"
    BY <2>2 DEF Reset, Cleared, Waiting, List
  <2> QED
    BY <2>1, <2>2
<1>4. \A d \in Coroutines : Rest(d)' = Rest(d)
  BY <1>2 DEF Rest, Ahead, List
<1>5. ResumedInside'
  BY <1>2 DEF IInv, ResumedInside
<1>6. \A d \in Coroutines : List(next_[d])' = List(next_[d])
  BY <1>2 DEF List
<1>7. IInv' /\ Released' = Released
  BY <1>1, <1>2, <1>3, <1>4, <1>5, <1>6, QuietStep
<1>8. m_state' # "set"
  BY DEF Reset, Cleared, EventParameters, Awaiters
<1> QED
  BY <1>3, <1>7, <1>8 DEF Event!Unset

LEMMA EndInv ==
    ASSUME EventParameters, IInv, NEW c \in Coroutines, End(c)
    PROVE  IInv' /\ UNCHANGED Event!eventVars
<1>0. /\ pc[c] = "running" /\ HandBack(c, "ended")
      /\ UNCHANGED <<m_state, next_, old, following, calls>>
  BY DEF End
<1>1. /\ pc' \in [Coroutines -> Points]
      /\ waiters' \in [Coroutines -> Awaiters]
      /\ caller' \in [Coroutines -> Awaiters]
      /\ pc'[c] = "ended"
      /\ \A d \in Coroutines \ {c} : pc'[d] = "suspended" <=> pc[d] = "suspended"
      /\ \A d \in Coroutines : Ahead(d)' = Ahead(d)
      /\ ResumedInside'
  BY <1>0, HandingBack
<1>2. TypeOK'
  BY <1>0, <1>1 DEF IInv, TypeOK
<1>3. Waiting' = Waiting
  BY <1>0 DEF Waiting, List
<1>4. \A d \in Coroutines : Rest(d)' = Rest(d)
  BY <1>0, <1>1 DEF Rest, List
<1>5. \A d \in Coroutines : List(next_[d])' = List(next_[d])
  BY <1>0 DEF List
<1>6. \A d \in Coroutines : pc'[d] = "suspended" <=> pc[d] = "suspended"
  BY <1>0, <1>1
<1> QED
  BY <1>0, <1>1, <1>2, <1>3, <1>4, <1>5, <1>6, QuietStep DEF Event!eventVars

-----------------------------------------------------------------------------
LEMMA InitIInv ==
    ASSUME EventParameters, Init
    PROVE  IInv /\ Event!EventInit
<1>1. TypeOK
  BY DEF Init, TypeOK, EventParameters, Awaiters, Points
<1>2. Waiting = {}
  BY EmptyList DEF Init, Waiting, List, EventParameters, Awaiters
<1>3. \A c \in Coroutines : Rest(c) = {}
  BY EmptyList DEF Init, Rest, Ahead, List, EventParameters
<1>4. Released = {}
  BY <1>3 DEF Released
<1>5. NobodyForgotten
  BY <1>2, <1>3, <1>4 DEF Init, NobodyForgotten
<1>6. NoCycle /\ ResumedInside
  BY DEF Init, NoCycle, ResumedInside
<1> QED
  BY <1>1, <1>2, <1>4, <1>5, <1>6 DEF IInv, Event!EventInit

\* Every step keeps the invariant and is one of the promise, or none.
LEMMA NextIInv ==
    ASSUME EventParameters, IInv, [Next]_vars
    PROVE  IInv' /\ [Event!EventNext]_(Event!eventVars)
<1>1. ASSUME NEW c \in Coroutines, Await(c)
      PROVE  IInv' /\ [Event!EventNext]_(Event!eventVars)
  BY <1>1, AwaitInv
<1>2. ASSUME NEW c \in Coroutines, LoadState(c)
      PROVE  IInv' /\ [Event!EventNext]_(Event!eventVars)
  BY <1>2, LoadStateInv
<1>3. ASSUME NEW c \in Coroutines, FindSet(c)
      PROVE  IInv' /\ [Event!EventNext]_(Event!eventVars)
  BY <1>3, FindSetInv
<1>4. ASSUME NEW c \in Coroutines, Enqueue(c)
      PROVE  IInv' /\ [Event!EventNext]_(Event!eventVars)
  BY <1>4, EnqueueInv DEF Event!EventNext
<1>5. ASSUME NEW c \in Coroutines, Retry(c)
      PROVE  IInv' /\ [Event!EventNext]_(Event!eventVars)
  BY <1>5, RetryInv
<1>6. ASSUME NEW c \in Coroutines, Set(c)
      PROVE  IInv' /\ [Event!EventNext]_(Event!eventVars)
  BY <1>6, SetInv DEF Event!EventNext
<1>7. ASSUME NEW c \in Coroutines, ResumeWaiter(c)
      PROVE  IInv' /\ [Event!EventNext]_(Event!eventVars)
  <2>1. waiters[c] \in Coroutines
    BY <1>7 DEF IInv, TypeOK, Awaiters, ResumeWaiter
  <2> QED
    BY <1>7, <2>1, ResumeWaiterInv DEF Event!EventNext
<1>8. ASSUME NEW c \in Coroutines, SetReturns(c)
      PROVE  IInv' /\ [Event!EventNext]_(Event!eventVars)
  BY <1>8, SetReturnsInv
<1>9. ASSUME NEW c \in Coroutines, Reset(c)
      PROVE  IInv' /\ [Event!EventNext]_(Event!eventVars)
  BY <1>9, ResetInv DEF Event!EventNext
<1>10. ASSUME NEW c \in Coroutines, End(c)
       PROVE  IInv' /\ [Event!EventNext]_(Event!eventVars)
  BY <1>10, EndInv
<1>11. ASSUME UNCHANGED vars
       PROVE  IInv' /\ [Event!EventNext]_(Event!eventVars)
  <2>1. UNCHANGED <<pc, m_state, next_, old, waiters, following, caller, calls>>
    BY <1>11 DEF vars
  <2>2. TypeOK'
    BY <2>1 DEF IInv, TypeOK
  <2>3. Waiting' = Waiting
    BY <2>1 DEF Waiting, List
  <2>4. \A d \in Coroutines : Rest(d)' = Rest(d) /\ List(next_[d])' = List(next_[d])
    BY <2>1 DEF Rest, Ahead, List
  <2>5. ResumedInside'
    BY <2>1 DEF IInv, ResumedInside
  <2> QED
    BY <2>1, <2>2, <2>3, <2>4, <2>5, QuietStep DEF Event!eventVars
<1> QED
  BY <1>1, <1>2, <1>3, <1>4, <1>5, <1>6, <1>7, <1>8, <1>9, <1>10, <1>11 DEF Next, Step, Idle

(***************************************************************************)
(* The theorems.                                                           *)
(***************************************************************************)

\* The strengthening holds in every state.
THEOREM Invariance ==
    ASSUME EventParameters
    PROVE  Spec => []IInv
<1>1. Init => IInv
  BY InitIInv
<1>2. IInv /\ [Next]_vars => IInv'
  BY NextIInv
<1> QED
  BY <1>1, <1>2, PTL DEF Spec

\* A suspended coroutine is in the event's list or in that of one set() under
\* way, once: whatever threads await, set and reset, ResetEvent neither forgets
\* a coroutine nor resumes it twice.
THEOREM NoneForgotten ==
    ASSUME EventParameters
    PROVE  Spec => []NobodyForgotten
<1>1. IInv => NobodyForgotten
  BY DEF IInv
<1> QED
  BY <1>1, Invariance, PTL

\* The lists of ResetEvent implement the promise of ManualResetEvent.
THEOREM Refinement ==
    ASSUME EventParameters
    PROVE  Spec => ImplementsEvent
<1>1. Init => Event!EventInit
  BY InitIInv
<1>2. IInv /\ [Next]_vars => [Event!EventNext]_(Event!eventVars)
  BY NextIInv
<1> QED
  BY <1>1, <1>2, Invariance, PTL DEF Spec, ImplementsEvent, Event!EventSpec
=============================================================================
