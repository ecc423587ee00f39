------------------------- MODULE CompleteQueueProofs -------------------------
(***************************************************************************)
(* For any number of ops, keys, loops and attempts: the completion queue   *)
(* works on a block at most once at a time, and shutdown leaves no op in   *)
(* the heap.                                                               *)
(***************************************************************************)
EXTENDS CompleteQueue, TLAPS

USE CompleteQueueAssumption

(***************************************************************************)
(* TypeOK is inductive on its own.                                         *)
(***************************************************************************)
LEMMA TypeStep == TypeOK /\ [Next]_vars => TypeOK'
<1> SUFFICES ASSUME TypeOK, [Next]_vars PROVE TypeOK'
    OBVIOUS
<1> USE DEF TypeOK, OpStates, shutdownVars, queue
<1>1. ASSUME NEW op \in Ops, OpStep(op) PROVE TypeOK'
    BY <1>1 DEF OpStep, EnqueueCompleteOp, EnqueueOp, LoadOrStore, Push, PushResult, RequeueOp
<1>2. ASSUME NEW l \in Loops, LoopStep(l) PROVE TypeOK'
    <2>1. CASE LoopDequeue(l) BY <2>1 DEF LoopDequeue, Exhausted
    <2>2. CASE LoopExit(l) BY <2>2 DEF LoopExit
    <2>3. CASE ProcessCompleteOp(l) BY <2>3 DEF ProcessCompleteOp, Clear
    <2>4. CASE CompleteOp(l) BY <2>4 DEF CompleteOp, Clear
    <2>5. CASE RetryCompleteOp(l) BY <2>5 DEF RetryCompleteOp
    <2> QED BY <1>2, <2>1, <2>2, <2>3, <2>4, <2>5 DEF LoopStep
<1>3. ASSUME Cancel \/ StoreStopped \/ Close PROVE TypeOK'
    BY <1>3 DEF Cancel, StoreStopped, Close
<1>4. ASSUME UNCHANGED vars PROVE TypeOK'
    BY <1>4 DEF vars
<1> QED BY <1>1, <1>2, <1>3, <1>4 DEF Next

LEMMA InvInit == Init => QueueInv
<1> SUFFICES ASSUME Init PROVE QueueInv
    OBVIOUS
<1> USE DEF Init
<1>1. TypeOK
    <2>1. 0 \in 0 .. MaxFlushAttempts + 1 /\ ~(0 > MaxFlushAttempts) OBVIOUS
    <2> QED BY <2>1 DEF TypeOK, OpStates
<1>2. \A op \in Ops : ~Carries(op) BY DEF Carries
<1>3. Exclusive /\ CarriedKeysActive BY <1>2 DEF Exclusive, CarriedKeysActive
<1>4. LoopsHold BY DEF LoopsHold
<1>5. ClosedIsEmpty BY DEF ClosedIsEmpty
<1> QED BY <1>1, <1>3, <1>4, <1>5 DEF QueueInv

(***************************************************************************)
(* Every step of an op, of a loop and of shutdown keeps the invariant.     *)
(***************************************************************************)
LEMMA InvStep == QueueInv /\ [Next]_vars => QueueInv'
<1> SUFFICES ASSUME QueueInv, [Next]_vars PROVE QueueInv'
    OBVIOUS
<1>0. TypeOK' BY TypeStep DEF QueueInv
<1> USE <1>0 DEF QueueInv, TypeOK, Exclusive, Carries, CarriedKeysActive, LoopsHold,
              ClosedIsEmpty, shutdownVars
<1>1. ASSUME NEW op \in Ops, OpStep(op) PROVE QueueInv'
    <2>1. CASE EnqueueCompleteOp(op) BY <2>1 DEF EnqueueCompleteOp, queue
    <2>2. CASE EnqueueOp(op) BY <2>2 DEF EnqueueOp, queue
    <2>3. CASE LoadOrStore(op)
        BY <2>3 DEF LoadOrStore, queue
    <2>4. CASE Push(op)
        BY <2>4 DEF Push, PushResult, queue
    <2>5. CASE RequeueOp(op) BY <2>5 DEF RequeueOp, queue
    <2> QED BY <1>1, <2>1, <2>2, <2>3, <2>4, <2>5 DEF OpStep
<1>2. ASSUME NEW l \in Loops, LoopStep(l) PROVE QueueInv'
    <2>1. CASE LoopDequeue(l)
        BY <2>1 DEF LoopDequeue, Exhausted, queue
    <2>2. CASE LoopExit(l) BY <2>2 DEF LoopExit, queue
    <2>3. CASE ProcessCompleteOp(l)
        BY <2>3 DEF ProcessCompleteOp, Clear, queue
    <2>4. CASE CompleteOp(l)
        BY <2>4 DEF CompleteOp, Clear, queue
    <2>5. CASE RetryCompleteOp(l) BY <2>5 DEF RetryCompleteOp, queue
    <2> QED BY <1>2, <2>1, <2>2, <2>3, <2>4, <2>5 DEF LoopStep
<1>3. ASSUME Cancel \/ StoreStopped \/ Close PROVE QueueInv'
    BY <1>3 DEF Cancel, StoreStopped, Close, queue
<1>4. ASSUME UNCHANGED vars PROVE QueueInv'
    BY <1>4 DEF vars, queue
<1> QED BY <1>1, <1>2, <1>3, <1>4 DEF Next

(***************************************************************************)
(* The ops, loops and flags of the completion queue have their types in    *)
(* every reachable state; an op never has more attempts than the loop that *)
(* gives it up allows.                                                     *)
(***************************************************************************)
THEOREM CompleteQueueTypeOK == Spec => []TypeOK
<1>1. QueueInv => TypeOK BY DEF QueueInv
<1> QED BY <1>1, InvInit, InvStep, PTL DEF Spec

(***************************************************************************)
(* ExclusiveQueues.Enqueue and Clear keep every block with one op at most: *)
(* Exclusive holds in every reachable state.                               *)
(***************************************************************************)
THEOREM QueueExclusive == Spec => []Exclusive
<1>1. QueueInv => Exclusive BY DEF QueueInv
<1> QED BY <1>1, InvInit, InvStep, PTL DEF Spec

(***************************************************************************)
(* PriorityQueue.Close and the loops' exit strand nothing: NothingStranded *)
(* holds in every reachable state.                                         *)
(***************************************************************************)
THEOREM QueueNothingStranded == Spec => []NothingStranded
<1>1. QueueInv => NothingStranded
    BY DEF QueueInv, ClosedIsEmpty, NothingStranded
<1> QED BY <1>1, InvInit, InvStep, PTL DEF Spec

(***************************************************************************)
(* The refinement mapping of LeaseSpec, with a name for each part.         *)
(***************************************************************************)
LeaseOf == [k \in Keys |-> {op \in Ops : Carries(op) /\ KeyOf[op] = k}]
Abandoned == {k \in activeKeys : \A op \in Ops : Carries(op) => KeyOf[op] # k}
Asked == {op \in Ops : opState[op] \notin {"new", "jitter", "checked"}}
Tries == [op \in Ops |-> IF opState[op] = "givenUp" THEN attempts[op] - 1 ELSE attempts[op]]

(***************************************************************************)
(* An op that moves: its key's lease goes with its carrying the key, and   *)
(* no other lease changes.                                                 *)
(***************************************************************************)
LEMMA OpMoves ==
    ASSUME QueueInv, QueueInv', NEW op \in Ops, NEW st \in OpStates,
           opState' = [opState EXCEPT ![op] = st]
    PROVE  /\ (Carries(op)' <=> Carries(op)) => LeaseOf' = LeaseOf
           /\ Carries(op)' => LeaseOf' = [LeaseOf EXCEPT ![KeyOf[op]] = {op}]
           /\ Carries(op) => LeaseOf[KeyOf[op]] = {op}
           /\ Carries(op) /\ ~Carries(op)' => LeaseOf' = [LeaseOf EXCEPT ![KeyOf[op]] = {}]
           /\ Asked' = IF st \in {"new", "jitter", "checked"} THEN Asked \ {op}
                       ELSE Asked \cup {op}
<1>1. opState'[op] = st /\ \A o \in Ops \ {op} : opState'[o] = opState[o]
    BY DEF QueueInv, TypeOK
<1>2. \A o \in Ops \ {op} : Carries(o)' <=> Carries(o) BY <1>1 DEF Carries
<1>3. KeyOf[op] \in Keys OBVIOUS
<1>4. \A k \in Keys \ {KeyOf[op]} : LeaseOf'[k] = LeaseOf[k] BY <1>2 DEF LeaseOf
<1>5. /\ (Carries(op)' <=> Carries(op)) => LeaseOf'[KeyOf[op]] = LeaseOf[KeyOf[op]]
      /\ Carries(op)' => LeaseOf'[KeyOf[op]] = {op}
      /\ Carries(op) => LeaseOf[KeyOf[op]] = {op}
      /\ Carries(op) /\ ~Carries(op)' => LeaseOf'[KeyOf[op]] = {}
    BY <1>2, <1>3 DEF LeaseOf, QueueInv, Exclusive
<1>6. /\ LeaseOf = [k \in Keys |-> LeaseOf[k]] /\ LeaseOf' = [k \in Keys |-> LeaseOf'[k]]
    BY DEF LeaseOf
<1>7. Asked' = IF st \in {"new", "jitter", "checked"} THEN Asked \ {op} ELSE Asked \cup {op}
    BY <1>1 DEF Asked
<1> HIDE DEF LeaseOf
<1> QED BY <1>3, <1>4, <1>5, <1>6, <1>7

(***************************************************************************)
(* A step of an op is a grant, a denial, an abandonment or nothing.        *)
(***************************************************************************)
LEMMA OpLeases ==
    ASSUME QueueInv, QueueInv', NEW op \in Ops, OpStep(op)
    PROVE  Lease!LeaseNext \/ UNCHANGED <<LeaseOf, Abandoned, Asked, Tries>>
<1>0. PICK st \in OpStates : opState' = [opState EXCEPT ![op] = st]
    BY DEF OpStep, EnqueueCompleteOp, EnqueueOp, LoadOrStore, Push, PushResult, RequeueOp,
           OpStates
<1>1. /\ opState'[op] = st /\ opState \in [Ops -> OpStates]
      /\ \A o \in Ops \ {op} : opState'[o] = opState[o] /\ (Carries(o)' <=> Carries(o))
    BY <1>0 DEF QueueInv, TypeOK, Carries
<1>2. attempts' = attempts /\ opState[op] # "givenUp" /\ st # "givenUp"
    BY <1>1 DEF OpStep, EnqueueCompleteOp, EnqueueOp, LoadOrStore, Push, PushResult, RequeueOp,
                QueueInv, TypeOK
<1>3. Tries' = Tries BY <1>1, <1>2 DEF Tries
<1>4. CASE EnqueueCompleteOp(op) \/ (EnqueueOp(op) /\ ~stopped)
    <2>1. /\ st \in {"jitter", "checked"} /\ activeKeys' = activeKeys
          /\ opState[op] \in {"new", "jitter"}
        BY <1>1, <1>4 DEF EnqueueCompleteOp, EnqueueOp, QueueInv, TypeOK
    <2>2. ~Carries(op) /\ ~Carries(op)' BY <1>1, <2>1 DEF Carries
    <2>3. Asked' = Asked BY <1>1, <2>1 DEF Asked
    <2>4. Abandoned' = Abandoned BY <1>1, <2>1, <2>2 DEF Abandoned
    <2>5. LeaseOf' = LeaseOf BY <1>0, <2>2, OpMoves
    <2> QED BY <1>3, <2>3, <2>4, <2>5
<1>5. CASE \/ EnqueueOp(op) /\ stopped
           \/ LoadOrStore(op) /\ KeyOf[op] \in activeKeys
    <2>1. /\ st \in {"refused", "ignored"} /\ activeKeys' = activeKeys
          /\ opState[op] \in {"jitter", "checked"}
        BY <1>1, <1>5 DEF EnqueueOp, LoadOrStore, QueueInv, TypeOK
    <2>2. ~Carries(op) /\ ~Carries(op)' BY <1>1, <2>1 DEF Carries
    <2>3. op \notin Asked /\ Asked' = Asked \cup {op} BY <1>0, <2>1, OpMoves DEF Asked
    <2>4. Abandoned' = Abandoned BY <1>1, <2>1, <2>2 DEF Abandoned
    <2>5. LeaseOf' = LeaseOf BY <1>0, <2>2, OpMoves
    <2>6. Lease!Deny(op)
        BY <1>3, <2>3, <2>4, <2>5 DEF Lease!Deny, LeaseOf, Abandoned, Asked, Tries
    <2> QED BY <2>6 DEF Lease!LeaseNext
<1>6. CASE LoadOrStore(op) /\ KeyOf[op] \notin activeKeys
    <2>1. /\ st = "stored" /\ activeKeys' = activeKeys \cup {KeyOf[op]}
          /\ opState[op] = "checked"
        BY <1>1, <1>6 DEF LoadOrStore, QueueInv, TypeOK
    <2>2. ~Carries(op) /\ Carries(op)' BY <1>1, <2>1 DEF Carries
    <2>3. op \notin Asked /\ Asked' = Asked \cup {op} BY <1>0, <2>1, OpMoves DEF Asked
    <2>4. KeyOf[op] \notin Abandoned /\ Abandoned' = Abandoned
        BY <1>1, <1>6, <2>1, <2>2 DEF Abandoned
    <2>5. LeaseOf' = [LeaseOf EXCEPT ![KeyOf[op]] = {op}] BY <1>0, <2>2, OpMoves
    <2>6. LeaseOf[KeyOf[op]] = {} BY <1>6 DEF LeaseOf, QueueInv, CarriedKeysActive
    <2>7. Lease!Grant(op)
        BY <1>3, <2>3, <2>4, <2>5, <2>6 DEF Lease!Grant, LeaseOf, Abandoned, Asked, Tries
    <2> QED BY <2>7 DEF Lease!LeaseNext
<1>7. CASE Push(op) \/ RequeueOp(op)
    <2>1. /\ st \in {"queued", "rechecked", "ignored", "refused"} /\ activeKeys' = activeKeys
          /\ opState[op] \in {"stored", "rechecked", "backoff"}
        BY <1>1, <1>7 DEF Push, PushResult, RequeueOp, QueueInv, TypeOK
    <2>2. Carries(op) /\ KeyOf[op] \in activeKeys
        BY <2>1 DEF Carries, QueueInv, CarriedKeysActive
    <2>3. Asked' = Asked BY <1>1, <2>1 DEF Asked
    <2>4. CASE Carries(op)'
        <3>1. Abandoned' = Abandoned BY <1>1, <2>1, <2>2, <2>4 DEF Abandoned
        <3>2. LeaseOf' = LeaseOf BY <1>0, <2>2, <2>4, OpMoves
        <3> QED BY <1>3, <2>3, <3>1, <3>2
    <2>5. CASE ~Carries(op)'
        <3>1. Abandoned' = Abandoned \cup {KeyOf[op]}
            BY <1>1, <2>1, <2>2, <2>5 DEF Abandoned, QueueInv, Exclusive
        <3>2. /\ LeaseOf[KeyOf[op]] = {op}
              /\ LeaseOf' = [LeaseOf EXCEPT ![KeyOf[op]] = {}]
            BY <1>0, <2>2, <2>5, OpMoves
        <3>3. Lease!Abandon(op)
            BY <1>3, <2>3, <3>1, <3>2 DEF Lease!Abandon, LeaseOf, Abandoned, Asked, Tries
        <3> QED BY <3>3 DEF Lease!LeaseNext
    <2> QED BY <2>4, <2>5
<1> QED BY <1>4, <1>5, <1>6, <1>7 DEF OpStep, LoadOrStore, EnqueueOp

(***************************************************************************)
(* A step of a loop is a try, an abandonment, a return or nothing.         *)
(***************************************************************************)
LEMMA LoopLeases ==
    ASSUME QueueInv, QueueInv', NEW l \in Loops, LoopStep(l)
    PROVE  Lease!LeaseNext \/ UNCHANGED <<LeaseOf, Abandoned, Asked, Tries>>
<1>1. ASSUME NEW op \in queue, loop[l] = NoOp, attempts' = [attempts EXCEPT ![op] = @ + 1],
             activeKeys' = activeKeys,
             \/ Exhausted(op) /\ opState' = [opState EXCEPT ![op] = "givenUp"]
             \/ ~Exhausted(op) /\ opState' = [opState EXCEPT ![op] = "held"]
      PROVE  Lease!LeaseNext
    <2>0. /\ op \in Ops /\ opState[op] = "queued" /\ attempts[op] \in Nat
          /\ attempts[op] <= MaxFlushAttempts
        BY DEF queue, QueueInv, TypeOK
    <2>1. Carries(op) /\ KeyOf[op] \in activeKeys
        BY <2>0 DEF Carries, QueueInv, CarriedKeysActive
    <2>2. \A o \in Ops \ {op} : /\ opState'[o] = opState[o] /\ attempts'[o] = attempts[o]
                                /\ (Carries(o)' <=> Carries(o))
        BY <1>1 DEF QueueInv, TypeOK, Carries
    <2>3. Asked' = Asked BY <1>1, <2>0, <2>2 DEF Asked, QueueInv, TypeOK
    <2>4. CASE Exhausted(op)
        <3>1. opState' = [opState EXCEPT ![op] = "givenUp"] BY <1>1, <2>4
        <3>2. opState'[op] = "givenUp" /\ attempts'[op] = attempts[op] + 1
            BY <1>1, <2>0, <3>1 DEF QueueInv, TypeOK
        <3>3. Tries' = Tries BY <2>0, <2>2, <3>2 DEF Tries
        <3>4. ~Carries(op)' BY <3>2 DEF Carries
        <3>5. Abandoned' = Abandoned \cup {KeyOf[op]}
            BY <1>1, <2>0, <2>1, <2>2, <3>4 DEF Abandoned, QueueInv, Exclusive
        <3>6. /\ LeaseOf[KeyOf[op]] = {op}
              /\ LeaseOf' = [LeaseOf EXCEPT ![KeyOf[op]] = {}]
            BY <2>0, <2>1, <3>1, <3>4, OpMoves DEF OpStates
        <3>7. Lease!Abandon(op)
            BY <2>3, <3>3, <3>5, <3>6 DEF Lease!Abandon, LeaseOf, Abandoned, Asked, Tries
        <3> QED BY <2>0, <3>7 DEF Lease!LeaseNext
    <2>5. CASE ~Exhausted(op)
        <3>1. opState' = [opState EXCEPT ![op] = "held"] BY <1>1, <2>5
        <3>2. /\ opState'[op] = "held" /\ attempts'[op] = attempts[op] + 1
              /\ attempts[op] < MaxFlushAttempts
            BY <1>1, <2>0, <2>5, <3>1 DEF QueueInv, TypeOK, Exhausted
        <3>3. Carries(op)' BY <3>2 DEF Carries
        <3>4. Tries[op] < MaxFlushAttempts /\ Tries' = [Tries EXCEPT ![op] = @ + 1]
            BY <2>0, <2>2, <3>2 DEF Tries
        <3>5. Abandoned' = Abandoned BY <1>1, <2>1, <2>2, <3>3 DEF Abandoned
        <3>6. LeaseOf[KeyOf[op]] = {op} /\ LeaseOf' = LeaseOf
            BY <2>0, <2>1, <3>1, <3>3, OpMoves DEF OpStates
        <3>7. Lease!Try(op)
            BY <2>3, <3>4, <3>5, <3>6 DEF Lease!Try, LeaseOf, Abandoned, Asked, Tries
        <3> QED BY <2>0, <3>7 DEF Lease!LeaseNext
    <2> QED BY <2>4, <2>5
<1>2. CASE LoopDequeue(l) BY <1>1, <1>2 DEF LoopDequeue
<1>3. CASE LoopExit(l)
    BY <1>3 DEF LoopExit, LeaseOf, Abandoned, Asked, Tries, Carries
<1>4. ASSUME NEW op \in Ops, opState[op] \in {"held", "completing"},
             NEW st \in {"completing", "backoff"}, opState' = [opState EXCEPT ![op] = st],
             UNCHANGED <<attempts, activeKeys>>
      PROVE  UNCHANGED <<LeaseOf, Abandoned, Asked, Tries>>
    <2>1. /\ opState'[op] = st
          /\ \A o \in Ops \ {op} : opState'[o] = opState[o] /\ (Carries(o)' <=> Carries(o))
        BY <1>4 DEF QueueInv, TypeOK, Carries
    <2>2. Carries(op) /\ Carries(op)' BY <1>4, <2>1 DEF Carries
    <2>3. st \in OpStates BY DEF OpStates
    <2>4. LeaseOf' = LeaseOf BY <1>4, <2>2, <2>3, OpMoves
    <2>5. Asked' = Asked /\ Tries' = Tries BY <1>4, <2>1 DEF Asked, Tries
    <2>6. Abandoned' = Abandoned BY <1>4, <2>1, <2>2 DEF Abandoned
    <2> QED BY <2>4, <2>5, <2>6
<1>5. ASSUME NEW op \in Ops, opState[op] \in {"held", "completing"},
             opState' = [opState EXCEPT ![op] = "cleared"], Clear(op), UNCHANGED attempts
      PROVE  Lease!LeaseNext
    <2>1. /\ opState'[op] = "cleared" /\ activeKeys' = activeKeys \ {KeyOf[op]}
          /\ \A o \in Ops \ {op} : opState'[o] = opState[o] /\ (Carries(o)' <=> Carries(o))
        BY <1>5 DEF QueueInv, TypeOK, Carries, Clear
    <2>2. Carries(op) /\ ~Carries(op)' BY <1>5, <2>1 DEF Carries
    <2>3. /\ LeaseOf[KeyOf[op]] = {op} /\ LeaseOf' = [LeaseOf EXCEPT ![KeyOf[op]] = {}]
        BY <1>5, <2>2, OpMoves DEF OpStates
    <2>4. Asked' = Asked /\ Tries' = Tries BY <1>5, <2>1 DEF Asked, Tries
    <2>5. Abandoned' = Abandoned BY <2>1, <2>2 DEF Abandoned
    <2>6. Lease!GiveBack(op)
        BY <2>3, <2>4, <2>5 DEF Lease!GiveBack, LeaseOf, Abandoned, Asked, Tries
    <2> QED BY <2>6 DEF Lease!LeaseNext
<1>6. CASE ProcessCompleteOp(l) BY <1>4, <1>5, <1>6 DEF ProcessCompleteOp
<1>7. CASE CompleteOp(l) BY <1>5, <1>7 DEF CompleteOp
<1>8. CASE RetryCompleteOp(l) BY <1>4, <1>8 DEF RetryCompleteOp
<1> QED BY <1>2, <1>3, <1>6, <1>7, <1>8 DEF LoopStep

(***************************************************************************)
(* Enqueues, retries, backoffs, give-ups and shutdown are steps of the     *)
(* lease of a block: the completion queue implements KeyLease.             *)
(***************************************************************************)
THEOREM QueueImplementsLease == Spec => LeaseSpec
<1>1. Init => Lease!LeaseInit
    BY DEF Init, Lease!LeaseInit, Carries
<1>2. QueueInv /\ QueueInv' /\ [Next]_vars => [Lease!LeaseNext]_Lease!leaseVars
    <2> SUFFICES ASSUME QueueInv, QueueInv', [Next]_vars
                 PROVE  Lease!LeaseNext \/ UNCHANGED <<LeaseOf, Abandoned, Asked, Tries>>
        BY DEF Lease!leaseVars, LeaseOf, Abandoned, Asked, Tries
    <2>1. CASE \/ UNCHANGED vars \/ Cancel \/ StoreStopped \/ Close
        BY <2>1 DEF vars, Cancel, StoreStopped, Close, LeaseOf, Abandoned, Asked, Tries,
                    Carries
    <2> QED BY <2>1, OpLeases, LoopLeases DEF Next
<1> QED BY <1>1, <1>2, InvInit, InvStep, PTL DEF Spec, LeaseSpec, Lease!LeaseSpec
==============================================================================
