---------------------------- MODULE MCContainers ----------------------------
(***************************************************************************)
(* The containers of modules/std for TLC, in one run: kind says which of   *)
(* them the behaviour is about, and the others rest.  They are the queues  *)
(* of queue.cpp, the locking one with three sets of calls, and the deque   *)
(* of the thread pool.                                                     *)
(***************************************************************************)
EXTENDS SpscQueue, FiniteSets, TLC

CONSTANTS Producers, Consumers, Loop,     \* of the queues
          Owner, DequeThieves, MaxPushes, \* of the deque, and the capacity
          FirstCapacity                   \* of its first array

VARIABLES kind,
          spc, semEmpty, semFull, shead, stail, sbuffer, sitem, sout,
          lpc, owner, asleep, lhead, ltail, lbuffer, lout,
          dpc, top, bottom, arrays, ltop, lbottom, larray, ditem, pushed, received

spscVars == vars
semVars == <<spc, semEmpty, semFull, shead, stail, sbuffer, sitem, sout>>
lockVars == <<lpc, owner, asleep, lhead, ltail, lbuffer, lout>>
dequeVars == <<dpc, top, bottom, arrays, ltop, lbottom, larray, ditem, pushed, received>>
all == <<kind, spscVars, semVars, lockVars, dequeVars>>

ThiefSymmetry == Permutations(DequeThieves)

Semaphore ==
    INSTANCE SemaphoreQueue
    WITH pc <- spc, sem_empty <- semEmpty, sem_full <- semFull, head <- shead,
         tail <- stail, buffer <- sbuffer, item <- sitem, out <- sout

\* All the calls but try_pop(), which wakes no producer.
Blocking ==
    INSTANCE LockingQueue
    WITH pc <- lpc, head <- lhead, tail <- ltail, buffer <- lbuffer, out <- lout,
         Pushers <- Producers, TryPushers <- Producers, Poppers <- Consumers,
         TryPoppers <- {}, Drainers <- {}

\* The use that io::Scheduler makes of the queue.
Draining ==
    INSTANCE LockingQueue
    WITH pc <- lpc, head <- lhead, tail <- ltail, buffer <- lbuffer, out <- lout,
         Pushers <- Producers, TryPushers <- {}, Poppers <- {},
         TryPoppers <- {}, Drainers <- {Loop}

\* try_pop() among producers that never block.
Trying ==
    INSTANCE LockingQueue
    WITH pc <- lpc, head <- lhead, tail <- ltail, buffer <- lbuffer, out <- lout,
         Pushers <- {}, TryPushers <- Producers, Poppers <- Consumers,
         TryPoppers <- Consumers, Drainers <- {}

\* A first array of two slots is replaced on the way.
Deque ==
    INSTANCE WorkStealingDeque
    WITH pc <- dpc, item <- ditem, Owners <- {Owner}, Poppers <- {Owner},
         Thieves <- DequeThieves, Capacity <- FirstCapacity

ASSUME ContainersAssumption ==
    /\ Deque!DequeParameters
    /\ IsFiniteSet(Producers) /\ IsFiniteSet(Consumers)
    /\ Loop \notin Producers

-----------------------------------------------------------------------------
ContainersInit ==
    /\ kind \in {"spsc", "semaphore", "blocking", "draining", "trying", "deque"}
    /\ Init
    /\ Semaphore!Init
    /\ IF kind = "draining" THEN Draining!Init ELSE Blocking!Init
    /\ Deque!Init

ContainersNext ==
    /\ UNCHANGED kind
    /\ \/ /\ kind = "spsc" /\ Next
          /\ UNCHANGED <<semVars, lockVars, dequeVars>>
       \/ /\ kind = "semaphore" /\ Semaphore!Next
          /\ UNCHANGED <<spscVars, lockVars, dequeVars>>
       \/ /\ \/ kind = "blocking" /\ Blocking!Next
             \/ kind = "draining" /\ Draining!Next
             \/ kind = "trying" /\ Trying!Next
          /\ UNCHANGED <<spscVars, semVars, dequeVars>>
       \/ /\ kind = "deque" /\ Deque!Next
          /\ UNCHANGED <<spscVars, semVars, lockVars>>

ContainersSpec == ContainersInit /\ [][ContainersNext]_all

-----------------------------------------------------------------------------
(* The properties of the modules, for the one the behaviour is about.      *)

ContainersTypeOK ==
    /\ TypeOK
    /\ Semaphore!TypeOK
    /\ IF kind = "draining" THEN Draining!TypeOK ELSE Blocking!TypeOK
    /\ Deque!TypeOK

SlotsExact == Semaphore!SlotsExact
NoSleeperForgotten ==
    IF kind = "draining" THEN Draining!NoSleeperForgotten ELSE Blocking!NoSleeperForgotten
DrainerNeverSleeps == kind = "draining" => Draining!DrainerNeverSleeps

\* Each of the three rings is a first-in, first-out queue: of Capacity - 1 items,
\* or of Capacity where semaphores count the slots (queue.cpp:16-199).
QueuesImplemented ==
    ImplementsQueue /\ Semaphore!ImplementsQueue /\ Blocking!ImplementsQueue

PopAssertions == Deque!PopAssertions
ImplementsDeque == Deque!ImplementsDeque
EmptyPopIsTrue == Deque!EmptyPopIsTrue
=============================================================================
