---------------------------- MODULE CompleteQueue ----------------------------
(***************************************************************************)
(* The live-store's completion queue: flushqueues.ExclusiveQueues over a   *)
(* PriorityQueue, the global complete loops that drain it, the goroutines  *)
(* that put a failed operation back after a backoff, and shutdown.         *)
(*                                                                         *)
(* A completeOp is a pointer: it keeps its identity from enqueueCompleteOp *)
(* to Clear.  Two ops may be about the same block (the same Key()), and    *)
(* the queue exists so that only one of them at a time is worked on.       *)
(***************************************************************************)
EXTENDS Naturals, FiniteSets

CONSTANTS
    Ops,               \* the completeOp objects ever created
    Keys,              \* tenant/block keys
    KeyOf,             \* KeyOf[op] is op.Key()
    Loops,             \* the globalCompleteLoop goroutines
    MaxFlushAttempts,  \* maxFlushAttempts
    NoOp, Exited       \* a loop blocked in Dequeue, a loop that returned

ASSUME CompleteQueueAssumption ==
    /\ KeyOf \in [Ops -> Keys]
    /\ MaxFlushAttempts \in Nat \ {0}
    /\ Loops # {}
    /\ NoOp \notin Ops /\ Exited \notin Ops /\ NoOp # Exited

VARIABLES
    opState,     \* where each op is
    attempts,    \* op.attempts
    activeKeys,  \* ExclusiveQueues.activeKeys
    loop,        \* the op each loop holds, NoOp or Exited
    cancelled,   \* s.ctx is done
    stopped,     \* ExclusiveQueues.stopped
    closing,     \* PriorityQueue.closing
    closed       \* PriorityQueue.closed

vars == <<opState, attempts, activeKeys, loop, cancelled, stopped, closing, closed>>

OpStates == {"new",        \* not created yet
             "jitter",     \* enqueueOpWithJitter goroutine, or before the IsStopped test
             "checked",    \* enqueueOp passed the IsStopped test
             "stored",     \* Enqueue stored its key, has not pushed yet
             "queued",     \* in the priority queue
             "held",       \* a loop dequeued it
             "completing", \* completeBlock and the lifecycle run on it
             "backoff",    \* retryCompleteOp's goroutine sleeps
             "rechecked",  \* requeueOp passed the IsStopped test
             "cleared",    \* completed or abandoned, its key cleared
             "ignored",    \* its key was taken, Enqueue returned nil
             "givenUp",    \* more than maxFlushAttempts
             "refused"}    \* the queue was stopped or closed

\* The ops in the heap, and the keys PriorityQueue.hit holds.
queue == {op \in Ops : opState[op] = "queued"}
hit == {KeyOf[op] : op \in queue}

Init ==
    /\ opState = [op \in Ops |-> "new"]
    /\ attempts = [op \in Ops |-> 0]
    /\ activeKeys = {}
    /\ loop = [l \in Loops |-> NoOp]
    /\ cancelled = FALSE
    /\ stopped = FALSE
    /\ closing = FALSE
    /\ closed = FALSE

shutdownVars == <<cancelled, stopped, closing>>
-----------------------------------------------------------------------------
\* enqueueCompleteOp creates the op; with jitter a goroutine sleeps first.
EnqueueCompleteOp(op) ==
    /\ opState[op] = "new"
    /\ opState' = [opState EXCEPT ![op] = "jitter"]
    /\ UNCHANGED <<attempts, activeKeys, loop, closed, shutdownVars>>

\* enqueueOp: the IsStopped test, not atomic with what follows.
EnqueueOp(op) ==
    /\ opState[op] = "jitter"
    /\ opState' = [opState EXCEPT ![op] = IF stopped THEN "refused" ELSE "checked"]
    /\ UNCHANGED <<attempts, activeKeys, loop, closed, shutdownVars>>

\* Bug: the key is stored without looking whether it was there.
StoreAlways(op) ==
    /\ opState[op] = "checked"
    /\ opState' = [opState EXCEPT ![op] = "stored"]
    /\ activeKeys' = activeKeys \cup {KeyOf[op]}
    /\ UNCHANGED <<attempts, loop, closed, shutdownVars>>

\* ExclusiveQueues.Enqueue: activeKeys.LoadOrStore.
LoadOrStore(op) ==
    /\ opState[op] = "checked"
    /\ IF KeyOf[op] \in activeKeys
         THEN /\ opState' = [opState EXCEPT ![op] = "ignored"]
              /\ UNCHANGED activeKeys
         ELSE /\ opState' = [opState EXCEPT ![op] = "stored"]
              /\ activeKeys' = activeKeys \cup {KeyOf[op]}
    /\ UNCHANGED <<attempts, loop, closed, shutdownVars>>

\* Bug: the push does not look at closed.
PushAnyway(op) == IF KeyOf[op] \in hit THEN "ignored" ELSE "queued"

\* PriorityQueue.Enqueue: refused only once closed, ignored if the key is hit.
PushResult(op) ==
    IF closed THEN "refused" ELSE IF KeyOf[op] \in hit THEN "ignored" ELSE "queued"

Push(op) ==
    /\ opState[op] \in {"stored", "rechecked"}
    /\ opState' = [opState EXCEPT ![op] = PushResult(op)]
    /\ UNCHANGED <<attempts, activeKeys, loop, closed, shutdownVars>>

\* requeueOp after the backoff: the IsStopped test.
RequeueOp(op) ==
    /\ opState[op] = "backoff"
    /\ opState' = [opState EXCEPT ![op] = IF stopped THEN "refused" ELSE "rechecked"]
    /\ UNCHANGED <<attempts, activeKeys, loop, closed, shutdownVars>>
-----------------------------------------------------------------------------
\* Bug: the limit is compared before the attempt is counted.
ExhaustedLate(op) == attempts[op] > MaxFlushAttempts

\* What globalCompleteLoop does with an op whose attempts were just counted.
Exhausted(op) == attempts[op] + 1 > MaxFlushAttempts

\* Bug: the attempt is not counted, so an op that always fails never ends.
DequeueUncounted(l) ==
    /\ loop[l] = NoOp
    /\ \E op \in queue :
         /\ opState' = [opState EXCEPT ![op] = "held"]
         /\ loop' = [loop EXCEPT ![l] = op]
    /\ UNCHANGED <<attempts, activeKeys, closed, shutdownVars>>

\* One turn of globalCompleteLoop: Dequeue an op and count the attempt; over
\* maxFlushAttempts the loop logs and goes on to the next Dequeue.
LoopDequeue(l) ==
    /\ loop[l] = NoOp
    /\ \E op \in queue :
         /\ attempts' = [attempts EXCEPT ![op] = @ + 1]
         /\ IF Exhausted(op)
              THEN /\ opState' = [opState EXCEPT ![op] = "givenUp"]
                   /\ UNCHANGED loop
              ELSE /\ opState' = [opState EXCEPT ![op] = "held"]
                   /\ loop' = [loop EXCEPT ![l] = op]
    /\ UNCHANGED <<activeKeys, closed, shutdownVars>>

\* Dequeue on an empty closing queue closes it and the loop returns.
LoopExit(l) ==
    /\ loop[l] = NoOp
    /\ queue = {}
    /\ closing \/ closed
    /\ closed' = TRUE
    /\ loop' = [loop EXCEPT ![l] = Exited]
    /\ UNCHANGED <<opState, attempts, activeKeys, shutdownVars>>

\* ExclusiveQueues.Clear.
Clear(op) == activeKeys' = activeKeys \ {KeyOf[op]}

\* processCompleteOp tests the context first; when it is done the WAL block
\* stays on disk for the next start and the key is cleared.  The instance
\* exists: every op is about a block of an instance, and none is ever removed.
ProcessCompleteOp(l) ==
    /\ loop[l] \in Ops
    /\ opState[loop[l]] = "held"
    /\ IF cancelled
         THEN /\ Clear(loop[l])
              /\ opState' = [opState EXCEPT ![loop[l]] = "cleared"]
              /\ loop' = [loop EXCEPT ![l] = NoOp]
         ELSE /\ opState' = [opState EXCEPT ![loop[l]] = "completing"]
              /\ UNCHANGED <<activeKeys, loop>>
    /\ UNCHANGED <<attempts, closed, shutdownVars>>

\* The block is complete and the lifecycle accepted it.
CompleteOp(l) ==
    /\ loop[l] \in Ops
    /\ opState[loop[l]] = "completing"
    /\ Clear(loop[l])
    /\ opState' = [opState EXCEPT ![loop[l]] = "cleared"]
    /\ loop' = [loop EXCEPT ![l] = NoOp]
    /\ UNCHANGED <<attempts, closed, shutdownVars>>

\* Bug: the retry starts to count anew.
RetryAnew(l) ==
    /\ loop[l] \in Ops
    /\ opState[loop[l]] = "completing"
    /\ opState' = [opState EXCEPT ![loop[l]] = "backoff"]
    /\ attempts' = [attempts EXCEPT ![loop[l]] = 0]
    /\ loop' = [loop EXCEPT ![l] = NoOp]
    /\ UNCHANGED <<activeKeys, closed, shutdownVars>>

\* retryCompleteOp: completeBlock or the lifecycle failed.
RetryCompleteOp(l) ==
    /\ loop[l] \in Ops
    /\ opState[loop[l]] = "completing"
    /\ opState' = [opState EXCEPT ![loop[l]] = "backoff"]
    /\ loop' = [loop EXCEPT ![l] = NoOp]
    /\ UNCHANGED <<attempts, activeKeys, closed, shutdownVars>>
-----------------------------------------------------------------------------
\* Bug: Stop marks the queues stopped but does not close the heap.
StopWithoutClose == FALSE /\ UNCHANGED vars

\* stopAllBackgroundProcesses: s.cancel, then ExclusiveQueues.Stop, which
\* stores stopped before it takes the priority queue's lock to set closing.
Cancel ==
    /\ ~cancelled
    /\ cancelled' = TRUE
    /\ UNCHANGED <<opState, attempts, activeKeys, loop, stopped, closing, closed>>

StoreStopped ==
    /\ cancelled /\ ~stopped
    /\ stopped' = TRUE
    /\ UNCHANGED <<opState, attempts, activeKeys, loop, cancelled, closing, closed>>

Close ==
    /\ stopped /\ ~closing
    /\ closing' = TRUE
    /\ UNCHANGED <<opState, attempts, activeKeys, loop, cancelled, stopped, closed>>

OpStep(op) ==
    \/ EnqueueCompleteOp(op) \/ EnqueueOp(op) \/ LoadOrStore(op)
    \/ Push(op) \/ RequeueOp(op)

LoopStep(l) ==
    \/ LoopDequeue(l) \/ LoopExit(l) \/ ProcessCompleteOp(l)
    \/ CompleteOp(l) \/ RetryCompleteOp(l)

Next ==
    \/ \E op \in Ops : OpStep(op)
    \/ \E l \in Loops : LoopStep(l)
    \/ Cancel \/ StoreStopped \/ Close

Spec == Init /\ [][Next]_vars

(***************************************************************************)
(* Fairness: the Go scheduler runs every goroutine that is ready, so a     *)
(* created op is pushed, a sleeping op wakes up, a loop takes what is      *)
(* queued and ends what it holds, and a shutdown that began goes on.  That *)
(* an op is created and that shutdown begins is up to the environment.     *)
(***************************************************************************)
Fairness ==
    /\ \A op \in Ops : WF_vars(EnqueueOp(op) \/ LoadOrStore(op) \/ Push(op) \/ RequeueOp(op))
    /\ \A l \in Loops : WF_vars(LoopStep(l))
    /\ WF_vars(StoreStopped \/ Close)

FairSpec == Spec /\ Fairness
-----------------------------------------------------------------------------
(***************************************************************************)
(* TypeOK: every variable keeps its type, and an op is dequeued at most    *)
(* maxFlushAttempts times before globalCompleteLoop gives it up.           *)
(***************************************************************************)
TypeOK ==
    /\ opState \in [Ops -> OpStates]
    /\ attempts \in [Ops -> 0 .. MaxFlushAttempts + 1]
    /\ \A op \in Ops : attempts[op] > MaxFlushAttempts => opState[op] = "givenUp"
    /\ activeKeys \in SUBSET Keys
    /\ loop \in [Loops -> Ops \cup {NoOp, Exited}]
    /\ cancelled \in BOOLEAN /\ stopped \in BOOLEAN
    /\ closing \in BOOLEAN /\ closed \in BOOLEAN

\* An op that owns its key: it stored the key and has not cleared it.
Carries(op) ==
    opState[op] \in {"stored", "queued", "held", "completing", "backoff", "rechecked"}

(***************************************************************************)
(* Exclusive: two ops about the same block are never both between          *)
(* LoadOrStore and Clear, so no two complete loops ever convert the same   *)
(* WAL block, whatever the enqueues, retries, backoffs and shutdown do.    *)
(***************************************************************************)
Exclusive ==
    \A op1, op2 \in Ops :
        Carries(op1) /\ Carries(op2) /\ KeyOf[op1] = KeyOf[op2] => op1 = op2

\* Why Exclusive holds: a carried key is in activeKeys, which LoadOrStore
\* tests, and a loop clears only the key of the op it alone holds.
CarriedKeysActive == \A op \in Ops : Carries(op) => KeyOf[op] \in activeKeys

LoopsHold ==
    /\ \A l \in Loops : loop[l] \in Ops => opState[loop[l]] \in {"held", "completing"}
    /\ \A l1, l2 \in Loops : loop[l1] \in Ops /\ loop[l1] = loop[l2] => l1 = l2

\* Why NothingStranded holds: a loop returns only from a closed queue, and a
\* closed queue is empty and accepts nothing.
ClosedIsEmpty ==
    /\ closed => queue = {}
    /\ \A l \in Loops : loop[l] = Exited => closed

\* The inductive invariant.
QueueInv == TypeOK /\ Exclusive /\ CarriedKeysActive /\ LoopsHold /\ ClosedIsEmpty

(***************************************************************************)
(* NothingStranded: when every loop has returned, no op is left in the     *)
(* heap: a push that races Stop is either drained or refused.              *)
(***************************************************************************)
NothingStranded ==
    (\A l \in Loops : loop[l] = Exited) => queue = {}

(***************************************************************************)
(* LeaseSpec: the queue implements KeyLease.  A block is worked on by the  *)
(* op that has its key and maxFlushAttempts times at most; Clear gives the *)
(* key back, and after an op that was given up or refused, which leaves    *)
(* the key in activeKeys, no op of the block is ever worked on.            *)
(***************************************************************************)
Lease == INSTANCE KeyLease
    WITH MaxTries <- MaxFlushAttempts,
         lease <- [k \in Keys |-> {op \in Ops : Carries(op) /\ KeyOf[op] = k}],
         abandoned <- {k \in activeKeys : \A op \in Ops : Carries(op) => KeyOf[op] # k},
         asked <- {op \in Ops : opState[op] \notin {"new", "jitter", "checked"}},
         tries <- [op \in Ops |-> IF opState[op] = "givenUp" THEN attempts[op] - 1
                                  ELSE attempts[op]]
LeaseSpec == Lease!LeaseSpec

(***************************************************************************)
(* EveryOpSettles: an op handed to enqueueCompleteOp does not circulate    *)
(* for ever between the heap, the loops and the backoff: it is cleared,    *)
(* ignored, refused, or given up after maxFlushAttempts.                   *)
(***************************************************************************)
EveryOpSettles ==
    \A op \in Ops : opState[op] = "jitter" ~>
        opState[op] \in {"cleared", "ignored", "givenUp", "refused"}

(***************************************************************************)
(* ShutdownCompletes: once shutdown begins every loop returns, so the      *)
(* wg.Wait of stopAllBackgroundProcesses ends.                             *)
(***************************************************************************)
ShutdownCompletes == cancelled ~> \A l \in Loops : loop[l] = Exited
=============================================================================
