------------------------------ MODULE KeyLease ------------------------------
(***************************************************************************)
(* What the completion queue promises about a block, whatever enqueues,    *)
(* retries, backoffs and shutdowns lie behind it: an op asks once, works   *)
(* on the block only while the block is leased to it, a bounded number of  *)
(* times, and gives the block back or abandons it.  An abandoned block is  *)
(* leased to nobody again before the process restarts.                     *)
(***************************************************************************)
EXTENDS Naturals

CONSTANTS Ops, Keys, KeyOf,
          MaxTries          \* how often an op may work on its block

VARIABLES lease,            \* per key: the ops it is leased to
          abandoned,        \* keys that were neither given back nor will be
          asked,            \* ops that have had their answer
          tries             \* how often each op has worked on its block

leaseVars == <<lease, abandoned, asked, tries>>

LeaseInit == /\ lease = [k \in Keys |-> {}]
             /\ abandoned = {} /\ asked = {}
             /\ tries = [op \in Ops |-> 0]

Grant(op) == /\ op \notin asked
             /\ lease[KeyOf[op]] = {} /\ KeyOf[op] \notin abandoned
             /\ lease' = [lease EXCEPT ![KeyOf[op]] = {op}]
             /\ asked' = asked \cup {op}
             /\ UNCHANGED <<abandoned, tries>>

\* The key is taken, or the queue is stopping.
Deny(op) == /\ op \notin asked
            /\ asked' = asked \cup {op}
            /\ UNCHANGED <<lease, abandoned, tries>>

Try(op) == /\ lease[KeyOf[op]] = {op} /\ tries[op] < MaxTries
           /\ tries' = [tries EXCEPT ![op] = @ + 1]
           /\ UNCHANGED <<lease, abandoned, asked>>

GiveBack(op) == /\ lease[KeyOf[op]] = {op}
                /\ lease' = [lease EXCEPT ![KeyOf[op]] = {}]
                /\ UNCHANGED <<abandoned, asked, tries>>

Abandon(op) == /\ lease[KeyOf[op]] = {op}
               /\ lease' = [lease EXCEPT ![KeyOf[op]] = {}]
               /\ abandoned' = abandoned \cup {KeyOf[op]}
               /\ UNCHANGED <<asked, tries>>

LeaseNext == \E op \in Ops : Grant(op) \/ Deny(op) \/ Try(op) \/ GiveBack(op) \/ Abandon(op)

LeaseSpec == LeaseInit /\ [][LeaseNext]_leaseVars
=============================================================================
