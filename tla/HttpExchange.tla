----------------------------- MODULE HttpExchange -----------------------------
(***************************************************************************)
(* What an HTTP exchange is made of, and who frees it: HttpRequest         *)
(* (modules/poller/request.cpp), its easy handle (handle.cpp), its header  *)
(* list, and the Payload that libcurl's write callbacks fill               *)
(* (payload.cpp, write_func.cpp).  Module Poller says when each of them is *)
(* used; here every action of Poller that touches one also says what it    *)
(* does to it.                                                             *)
(*                                                                         *)
(* An HttpRequest has no destructor of its own: an easy handle is freed by *)
(* the worker once its transfer has ended, or by an assignment to the      *)
(* HttpRequest that holds it, and a header list by performRequest().       *)
(***************************************************************************)
EXTENDS Poller

VARIABLES local,       \* the HttpRequest a coroutine builds for each request
          passed,      \* request_ of each request's awaitable
          easyOf,      \* the easy handle each request's transfer uses
          easy,        \* each easy handle, named by the variable it was made for
          payload,     \* the Payload each easy handle has as its private data
          httpheader,  \* CURLOPT_HTTPHEADER of each easy handle
          list         \* each header list, named like the easy handles

memVars == <<local, passed, easyOf, easy, payload, httpheader, list>>
exchangeVars == <<vars, memVars>>

\* What is left of an HttpRequest that was moved from.
Empty == [handle |-> None, headers |-> None]

HttpRequests == [handle : Requests \cup {None}, headers : Requests \cup {None}]

ASSUME ExchangeAssumption == None \notin HttpRequests

ExchangeInit ==
    /\ Init
    /\ local = [r \in Requests |-> None]
    /\ passed = [r \in Requests |-> None]
    /\ easyOf = [r \in Requests |-> None]
    /\ easy = [r \in Requests |-> "unused"]
    /\ payload = [r \in Requests |-> "unused"]
    /\ httpheader = [r \in Requests |-> None]
    /\ list = [r \in Requests |-> "unused"]

-----------------------------------------------------------------------------
(* Building a request, on the thread that will await it.                   *)

CanBuild(r) ==
    /\ coro[r] = "idle"
    /\ IF r \in Roots
       THEN pc["main"] = "idle"
       ELSE pc["worker"] = "resumed" /\ Then[msg] = r

\* HttpRequest{}: curl_easy_init may fail and leave an HttpRequest that is not
\* valid.  (Bound: for the client's own requests.)
Construct(r) ==
    /\ CanBuild(r)
    /\ local[r] = None
    /\ \/ /\ local' = [local EXCEPT ![r] = [handle |-> r, headers |-> None]]
          /\ easy' = [easy EXCEPT ![r] = "live"]
       \/ /\ r \in Roots
          /\ local' = [local EXCEPT ![r] = Empty]
          /\ UNCHANGED easy
    /\ UNCHANGED <<vars, passed, easyOf, payload, httpheader, list>>

\* setHeader(): the first header makes the list, later ones are linked to its
\* end.  (Bound: one list made through each variable.)
SetHeader(r) ==
    /\ CanBuild(r)
    /\ local[r] # None
    /\ local[r].headers = None
    /\ list[r] = "unused"
    /\ local' = [local EXCEPT ![r].headers = r]
    /\ list' = [list EXCEPT ![r] = "live"]
    /\ UNCHANGED <<vars, passed, easyOf, easy, payload, httpheader>>

\* bake(): the easy handle is told of the list, if there is one.
Bake(r) ==
    /\ CanBuild(r)
    /\ local[r] # None
    /\ local[r].headers # None
    /\ local[r].handle # None
    /\ httpheader' = [httpheader EXCEPT ![local[r].handle] = local[r].headers]
    /\ UNCHANGED <<vars, local, passed, easyOf, easy, payload, list>>

\* Mutant: the request that was moved from keeps its handle.
CopiedFrom(s) == [Empty EXCEPT !.handle = local[s].handle]

\* What a move leaves in its source.
MovedFrom(s) == Empty

\* Handle::free() of the handle that an assignment replaces.
FreeEasy(h) == IF h = None THEN easy ELSE [easy EXCEPT ![h] = "freed"]

\* r = std::move( s ): r's own handle is freed, its header list forgotten.
MoveAssign(r, s) ==
    /\ CanBuild(r) /\ CanBuild(s)
    /\ r \in Roots /\ s \in Roots /\ r # s
    /\ local[r] # None /\ local[s] # None
    /\ easy' = FreeEasy(local[r].handle)
    /\ local' = [local EXCEPT ![r] = local[s], ![s] = MovedFrom(s)]
    /\ UNCHANGED <<vars, passed, easyOf, payload, httpheader, list>>

Build ==
    \/ \E r \in Requests : Construct(r) \/ SetHeader(r) \/ Bake(r)
    \/ \E r, s \in Requests : MoveAssign(r, s)

-----------------------------------------------------------------------------
(* What the steps of Poller do to the memory.                              *)

\* co_await requestAsync( std::move( req ) ): the request is moved into the
\* awaitable.  performRequest() takes it if it has a handle, and makes the
\* Payload that the write callbacks and the worker get at through that handle.
Await(r) ==
    LET h == local[r].handle IN
    /\ local[r] # None
    /\ coro'[r] = IF h = None THEN "refused" ELSE "awaiting"
    /\ passed' = [passed EXCEPT ![r] = local[r]]
    /\ local' = [local EXCEPT ![r] = MovedFrom(r)]
    /\ easyOf' = [easyOf EXCEPT ![r] = h]
    /\ payload' = IF h = None THEN payload ELSE [payload EXCEPT ![h] = "live"]
    /\ UNCHANGED <<easy, httpheader, list>>

\* clean(): curl_slist_free_all, which leaves headers_ as it is.  Once the
\* coroutine was resumed its awaitable is gone, and what clean() finds in its
\* place is the old pointer or anything.
FreeHeaders(r) ==
    /\ \/ /\ passed[r].headers # None
          /\ list' = [list EXCEPT ![passed[r].headers] = "freed"]
       \/ /\ passed[r].headers = None \/ coro[r] # "awaiting"
          /\ UNCHANGED list
    /\ UNCHANGED <<local, passed, easyOf, easy, payload, httpheader>>

\* Mutant: the Payload is not owned by the worker's unique_ptr.
ReleaseHandle(r) ==
    /\ easy' = FreeEasy(easyOf[r])
    /\ UNCHANGED <<local, passed, easyOf, payload, httpheader, list>>

\* curl_easy_cleanup and the end of the unique_ptr.
Release(r) ==
    /\ easy' = FreeEasy(easyOf[r])
    /\ payload' = [payload EXCEPT ![easyOf[r]] = "freed"]
    /\ UNCHANGED <<local, passed, easyOf, httpheader, list>>

\* The other steps use the memory as it is, or not at all.
OtherStep ==
    \/ \E t \in Threads : AddHandle(t) \/ AddFails(t) \/ CountJob(t) \/ PushJob(t)
    \/ Destroy \/ WaitReturns
    \/ TakeJob \/ Perform \/ Poll \/ LoopFails \/ ReadMessage \/ NoMessage
    \/ HandResult \/ ResumedEnds \/ FinishJob
    \/ \E r \in Requests : NetworkDone(r)

PollerStep ==
    \/ \E r \in Roots : Start(r) /\ Await(r)
    \/ ResumedIssues /\ Await(Then[msg])
    \/ \E t \in Threads : CleanRequest(t) /\ FreeHeaders(cur[t])
    \/ RemoveHandle /\ Release(msg)
    \/ OtherStep /\ UNCHANGED memVars

ExchangeNext ==
    \/ Build
    \/ PollerStep /\ TrackOverlap
    \/ Terminating /\ UNCHANGED memVars

ExchangeSpec == ExchangeInit /\ [][ExchangeNext]_exchangeVars

-----------------------------------------------------------------------------
MemTypeOK ==
    /\ local \in [Requests -> HttpRequests \cup {None}]
    /\ passed \in [Requests -> HttpRequests \cup {None}]
    /\ easyOf \in [Requests -> Requests \cup {None}]
    /\ {easy, payload, list} \subseteq [Requests -> {"unused", "live", "freed"}]
    /\ httpheader \in [Requests -> Requests \cup {None}]

\* The transfer of r uses its easy handle, and the callbacks its Payload, from
\* performRequest() until the worker has removed the handle.
InUse(r) == coro[r] = "awaiting" \/ msg = r

HoldsHandle(r) == local[r] # None /\ local[r].handle # None
HoldsHeaders(r) == local[r] # None /\ local[r].headers # None

\* r's header list is in the hands of performRequest(), which will free it.
InPerform(r) == \E t \in Threads : pc[t] \in {"adding", "cleaning"} /\ cur[t] = r

\* An easy handle and its Payload live as long as their transfer uses them...
TransferMemoryLives ==
    \A r \in Requests : InUse(r) =>
       /\ easyOf[r] # None
       /\ easy[easyOf[r]] = "live"
       /\ payload[easyOf[r]] = "live"
       /\ \A s \in Requests : InUse(s) /\ easyOf[s] = easyOf[r] => s = r

\* ...what a coroutine still holds is alive and nobody else's...
LocalMemoryLives ==
    \A r \in Requests :
       /\ HoldsHandle(r) =>
             /\ easy[local[r].handle] = "live"
             /\ \A s \in Requests :
                   /\ InUse(s) => easyOf[s] # local[r].handle
                   /\ HoldsHandle(s) /\ local[s].handle = local[r].handle => s = r
       /\ HoldsHeaders(r) =>
             /\ list[local[r].headers] = "live"
             /\ \A s \in Requests :
                   HoldsHeaders(s) /\ local[s].headers = local[r].headers => s = r

\* ...and a header list that is yet to be freed has not been freed before.
ListsFreedOnce ==
    \A r \in Requests : InPerform(r) /\ passed[r].headers # None =>
       /\ list[passed[r].headers] = "live"
       /\ \A s \in Requests :
             /\ HoldsHeaders(s) => local[s].headers # passed[r].headers
             /\ InPerform(s) /\ passed[s].headers = passed[r].headers => s = r

\* No HttpRequest frees anything in its destructor; an assignment (handle.cpp:
\* 74-81), the worker (poller.cpp:136-138) and performRequest() (poller.cpp:201)
\* do, from two threads.  Whatever moves of requests go before, no easy handle or
\* Payload is freed while a transfer or a coroutine will yet use it, and no header
\* list while a coroutine or performRequest() will.  (A transfer that reads its
\* list is the matter of HeadersOutliveTransfer.)
MemorySafe == TransferMemoryLives /\ LocalMemoryLives /\ ListsFreedOnce

\* An easy handle's name is used when its variable is first assigned...
NamesFresh == \A r \in Requests : local[r] = None => easy[r] = "unused"

\* ...and what a thread has in its hands has been awaited, by one thread.
InHands ==
    /\ msg # None => coro[msg] # "idle"
    /\ \A t \in Threads : pc[t] \in {"adding", "cleaning"} =>
          /\ cur[t] \in Requests
          /\ coro[cur[t]] # "idle"
          /\ passed[cur[t]] # None
          /\ pc[Other(t)] \in {"adding", "cleaning"} => cur[t] # cur[Other(t)]

\* The worker has one message at a time in its hands...
OneMessage ==
    msg # None => pc["worker"] \in {"handing", "resumed", "removing"} \cup Submitting

\* ...and what was given to a transfer is in use until it is freed.
FreedAfterUse ==
    \A r \in Requests : easyOf[r] # None =>
       InUse(r) \/ (easy[easyOf[r]] = "freed" /\ payload[easyOf[r]] = "freed")

\* The inductive invariant behind the theorems of PollerProofs: each live
\* easy handle and header list has one holder, the names of those yet to be
\* made are unused, and what a transfer was given is freed when it ends.
MemInv ==
    IInv /\ MemTypeOK /\ NamesFresh /\ InHands /\ MemorySafe /\ OneMessage /\ FreedAfterUse

\* When ~Poller has returned and no libcurl call has failed, the easy handle and
\* the Payload of every request that was performed have been freed.
NothingLeaked ==
    (pc["main"] = "closed" /\ failures = 0 /\ \A r \in Requests : multi[r] # "lost")
    => \A r \in Requests : easyOf[r] # None =>
          easy[easyOf[r]] = "freed" /\ payload[easyOf[r]] = "freed"

\* A client sets headers for the server to see (the request to HTTPBIN_HEADERS,
\* httpbin.cppm:42-49), so that the header list must be there when the transfer
\* sends the request; what performRequest() itself allocates for that time is to
\* be deleted "after curl perform actions" (poller.cpp:154).
HeadersOutliveTransfer ==
    pc["worker"] = "performing" =>
       \A r \in Requests :
          (multi[r] \in {"running", "ready"} /\ httpheader[easyOf[r]] # None)
          => list[httpheader[easyOf[r]]] = "live"
=============================================================================
