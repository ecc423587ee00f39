------------------------- MODULE RequestQueueProofs -------------------------
(***************************************************************************)
(* The safety properties of RequestQueue, for any tenants, jobs, streams,  *)
(* weights and limits.                                                     *)
(*                                                                         *)
(* The conjuncts that make them inductive: only an open queue holds jobs,  *)
(* so that cleanupQueues drops none; only a stream that has sent its batch *)
(* has one, so that Take overwrites none; and a job between the two locks  *)
(* of EnqueueRequest is nowhere else.                                      *)
(***************************************************************************)
EXTENDS RequestQueue, SequenceTheorems, TLAPS

ClosedEmpty == \A u \in Users : index[u] = 0 => queued[u] = <<>>
BatchSent == \A s \in Streams : stream[s] # "sent" => batch[s] = {}
Upgrading == \A r \in Requests : client[r] = "upgrade" => ~Queued(r) /\ ~InBatch(r)

Inv == /\ TypeOK /\ SpotsAgree /\ InOnePlace /\ Accounted /\ NoLostWakeup
       /\ ClosedEmpty /\ BatchSent /\ Upgrading

-----------------------------------------------------------------------------
(* Queues as sequences. *)

LEMMA SeqFacts ==
    ASSUME NEW S, NEW q \in Seq(S)
    PROVE  /\ Len(q) \in Nat /\ DOMAIN q = 1 .. Len(q)
           /\ \A i \in DOMAIN q : q[i] \in S
           /\ q = <<>> <=> Elements(q) = {}
<1>1. Len(q) \in Nat /\ DOMAIN q = 1 .. Len(q) BY LenProperties
<1>2. \A i \in DOMAIN q : q[i] \in S BY <1>1, ElementOfSeq
<1>3. ASSUME q = <<>> PROVE Elements(q) = {}
  <2>1. Len(q) = 0 BY <1>3, EmptySeq
  <2> QED BY <2>1, <1>1 DEF Elements
<1>4. ASSUME q # <<>> PROVE Elements(q) # {}
  <2>1. Len(q) \in Nat \ {0} BY <1>4, EmptySeq
  <2>2. 1 \in DOMAIN q BY <2>1, <1>1
  <2> QED BY <2>2 DEF Elements
<1> QED BY <1>1, <1>2, <1>3, <1>4

LEMMA AppendFacts ==
    ASSUME NEW S, NEW q \in Seq(S), NEW r \in S
    PROVE  /\ Append(q, r) \in Seq(S)
           /\ DOMAIN Append(q, r) = 1 .. Len(q) + 1
           /\ \A i \in 1 .. Len(q) : Append(q, r)[i] = q[i]
           /\ Append(q, r)[Len(q) + 1] = r
           /\ Elements(Append(q, r)) = Elements(q) \cup {r}
<1>1. /\ Append(q, r) \in Seq(S) /\ Len(Append(q, r)) = Len(q) + 1
      /\ \A i \in 1 .. Len(q) : Append(q, r)[i] = q[i]
      /\ Append(q, r)[Len(q) + 1] = r
  BY AppendProperties
<1>2. DOMAIN Append(q, r) = 1 .. Len(q) + 1 BY <1>1, LenProperties
<1>3. Len(q) \in Nat /\ DOMAIN q = 1 .. Len(q) BY LenProperties
<1>4. 1 .. Len(q) + 1 = 1 .. Len(q) \cup {Len(q) + 1} BY <1>3
<1>5. Elements(Append(q, r)) = Elements(q) \cup {r}
  BY <1>1, <1>2, <1>3, <1>4 DEF Elements
<1> QED BY <1>1, <1>2, <1>5

\* What a stream leaves of a queue after it has taken the first n jobs.
LEMMA RestFacts ==
    ASSUME NEW S, NEW q \in Seq(S), NEW n \in 1 .. Len(q)
    PROVE  LET rest == SubSeq(q, n + 1, Len(q)) IN
           /\ rest \in Seq(S)
           /\ DOMAIN rest = 1 .. Len(q) - n
           /\ \A i \in DOMAIN rest : i + n \in DOMAIN q /\ rest[i] = q[i + n]
           /\ Elements(rest) = {q[i] : i \in n + 1 .. Len(q)}
           /\ Elements(q) = {q[i] : i \in 1 .. n} \cup Elements(rest)
<1> DEFINE rest == SubSeq(q, n + 1, Len(q))
<1>1. Len(q) \in Nat /\ DOMAIN q = 1 .. Len(q) BY LenProperties
<1>2. \A i \in n + 1 .. Len(q) : q[i] \in S BY <1>1, ElementOfSeq
<1>3. /\ rest \in Seq(S)
      /\ Len(rest) = IF n + 1 <= Len(q) THEN Len(q) - (n + 1) + 1 ELSE 0
      /\ \A i \in 1 .. Len(q) - (n + 1) + 1 : rest[i] = q[(n + 1) + i - 1]
  <2>1. n + 1 \in Int /\ Len(q) \in Int BY <1>1
  <2> HIDE DEF rest
  <2>2. rest = SubSeq(q, n + 1, Len(q)) BY DEF rest
  <2> QED BY <1>2, <2>1, <2>2, SubSeqProperties
<1> HIDE DEF rest
<1> DEFINE L == Len(q)
           M == Len(rest)
<1>a. L \in Nat /\ n \in Int /\ 1 <= n /\ n <= L BY <1>1
<1>b. M = IF n + 1 <= L THEN L - (n + 1) + 1 ELSE 0 BY <1>3
<1>c. DOMAIN rest = 1 .. M BY <1>3, LenProperties
<1>d. \A i \in 1 .. L - (n + 1) + 1 : rest[i] = q[(n + 1) + i - 1] BY <1>3
<1>e. DOMAIN q = 1 .. L BY <1>1
<1> HIDE DEF L, M
<1>f. M = L - n BY <1>a, <1>b
<1>4. DOMAIN rest = 1 .. Len(q) - n BY <1>c, <1>f DEF L
<1>5. \A i \in DOMAIN rest : i + n \in DOMAIN q /\ rest[i] = q[i + n]
  <2> TAKE i \in DOMAIN rest
  <2>1. i \in 1 .. L - n BY <1>c, <1>f
  <2>2. i \in 1 .. L - (n + 1) + 1 /\ (n + 1) + i - 1 = i + n /\ i + n \in 1 .. L BY <1>a, <2>1
  <2>3. rest[i] = q[(n + 1) + i - 1] BY <1>d, <2>2
  <2> QED BY <2>2, <2>3, <1>e
<1>6. Elements(rest) = {q[i] : i \in n + 1 .. Len(q)}
  <2>1. ASSUME NEW i \in n + 1 .. Len(q) PROVE q[i] \in Elements(rest)
    <3>1. i - n \in DOMAIN rest /\ (i - n) + n = i BY <1>1, <1>4
    <3> QED BY <3>1, <1>5 DEF Elements
  <2>2. ASSUME NEW i \in DOMAIN rest PROVE rest[i] \in {q[k] : k \in n + 1 .. Len(q)}
    <3>1. i + n \in n + 1 .. Len(q) BY <1>1, <1>4
    <3> QED BY <3>1, <1>5
  <2> QED BY <2>1, <2>2 DEF Elements
<1>7. Elements(q) = {q[i] : i \in 1 .. n} \cup Elements(rest)
  <2>1. 1 .. Len(q) = 1 .. n \cup n + 1 .. Len(q) BY <1>1
  <2> QED BY <2>1, <1>1, <1>6 DEF Elements
<1> QED BY <1>3, <1>4, <1>5, <1>6, <1>7 DEF rest

-----------------------------------------------------------------------------
(* The clients. *)

LEMMA InitInv == Init => Inv
<1> SUFFICES ASSUME Init PROVE Inv OBVIOUS
<1> USE QueueAssumption DEF Init
<1>1. <<>> \in Seq(Users \cup {NoUser}) /\ <<>> \in Seq(Requests) BY EmptySeq
<1>2. DOMAIN <<>> = {} /\ Len(<<>>) = 0 BY EmptySeq
<1>3. TypeOK BY <1>1 DEF TypeOK
<1>4. SpotsAgree BY <1>2 DEF SpotsAgree
<1>5. \A r \in Requests : ~Queued(r) /\ ~InBatch(r) BY <1>2 DEF Queued, InBatch, Elements
<1>6. InOnePlace BY <1>2, <1>5 DEF InOnePlace
<1> QED BY <1>3, <1>4, <1>5, <1>6
        DEF Inv, Accounted, NoLostWakeup, ClosedEmpty, BatchSent, Upgrading

\* Inv does not depend on more than this of the state.
LEMMA StutterInv == Inv /\ UNCHANGED vars => Inv'
<1> SUFFICES ASSUME Inv, UNCHANGED vars PROVE Inv' OBVIOUS
<1> QED BY DEF vars, Inv, TypeOK, SpotsAgree, InOnePlace, Accounted, NoLostWakeup, ClosedEmpty,
               BatchSent, Upgrading, Queued, InBatch, Open

\* The end of a RoundTrip, whatever has become of its job.
LEMMA Returned ==
    ASSUME Inv, NEW r \in Requests, Return(r),
           UNCHANGED <<queueVars, service, stream, last, batch, faults>>,
           cancelled' \in SUBSET Requests, cancelled \ {r} \subseteq cancelled'
    PROVE  Inv'
<1> USE QueueAssumption DEF Return, queueVars, Inv
<1>0. \A q \in Requests : (Queued(q)' <=> Queued(q)) /\ (InBatch(q)' <=> InBatch(q))
  BY DEF Queued, InBatch
<1>1. TypeOK' BY DEF TypeOK
<1>2. SpotsAgree' BY DEF SpotsAgree
<1>3. InOnePlace' BY <1>0 DEF InOnePlace, TypeOK
<1>4. Accounted'
  <2> SUFFICES ASSUME NEW q \in Requests, client'[q] = "wait"
               PROVE  \/ Queued(q)' /\ UserOf[q] \in Open'
                      \/ InBatch(q)' \/ answer'[q] # "none" \/ q \in cancelled' \/ q \in lost'
    BY DEF Accounted
  <2>1. q # r /\ client[q] = "wait" BY DEF TypeOK
  <2>2. answer'[q] = answer[q] /\ (q \in cancelled => q \in cancelled') /\ (q \in lost => q \in lost')
    BY <2>1 DEF TypeOK
  <2>3. Open' = Open BY DEF Open
  <2> QED BY <2>1, <2>2, <2>3, <1>0 DEF Accounted
<1>5. NoLostWakeup' /\ ClosedEmpty' /\ BatchSent'
  BY DEF NoLostWakeup, ClosedEmpty, BatchSent
<1>6. Upgrading' BY <1>0 DEF Upgrading, TypeOK
<1> QED BY <1>1, <1>2, <1>3, <1>4, <1>5, <1>6

\* A job that is nowhere enters the queue of its tenant, which is open by then.
LEMMA Pushed ==
    ASSUME Inv, NEW r \in Requests, NEW n \in Nat, ~Queued(r), ~InBatch(r),
           Push(r, n), Len(queued[UserOf[r]]) < MaxOutstanding,
           users' \in Seq(Users \cup {NoUser}), index' \in [Users -> Nat], SpotsAgree',
           index'[UserOf[r]] # 0, \A u \in Users : index[u] # 0 => index'[u] # 0,
           UNCHANGED <<last, batch, faults>>,
           cancelled' \in SUBSET Requests, cancelled \ {r} \subseteq cancelled'
    PROVE  Inv'
<1> DEFINE v == UserOf[r]
<1> USE QueueAssumption DEF Inv
<1>1. v \in Users BY DEF v
<1>2. queued[v] \in Seq(Requests) /\ queued' = [queued EXCEPT ![v] = Append(queued[v], r)]
  BY <1>1 DEF Push, TypeOK
<1>3. /\ Append(queued[v], r) \in Seq(Requests)
      /\ DOMAIN Append(queued[v], r) = 1 .. Len(queued[v]) + 1
      /\ \A i \in 1 .. Len(queued[v]) : Append(queued[v], r)[i] = queued[v][i]
      /\ Append(queued[v], r)[Len(queued[v]) + 1] = r
      /\ Elements(Append(queued[v], r)) = Elements(queued[v]) \cup {r}
  BY <1>2, AppendFacts
<1>4. /\ client' = [client EXCEPT ![r] = "wait"] /\ tries' = [tries EXCEPT ![r] = n]
      /\ answer' = [answer EXCEPT ![r] = "none"] /\ lost' = lost
      /\ stream' = Woken(stream)
      /\ service' = IF service = "waiting" THEN "stopping" ELSE service
  BY DEF Push, Broadcast
<1>5. queued' \in [Users -> Seq(Requests)] BY <1>1, <1>2, <1>3 DEF TypeOK
<1>6. \A q \in Requests : (Queued(q)' <=> Queued(q) \/ q = r) /\ (InBatch(q)' <=> InBatch(q))
  <2> TAKE q \in Requests
  <2>1. UserOf[q] \in Users OBVIOUS
  <2>2. CASE UserOf[q] = v
    <3>1. queued'[v] = Append(queued[v], r) BY <1>1, <1>2 DEF TypeOK
    <3> QED BY <2>2, <3>1, <1>3 DEF Queued, InBatch
  <2>3. CASE UserOf[q] # v
    <3>1. queued'[UserOf[q]] = queued[UserOf[q]] BY <2>1, <2>3, <1>1, <1>2 DEF TypeOK
    <3> QED BY <2>3, <3>1 DEF Queued, InBatch, v
  <2> QED BY <2>2, <2>3
<1>7. stream' \in [Streams -> {"off", "ask", "sent"}] /\ \A s \in Streams :
          stream'[s] = "sent" <=> stream[s] = "sent"
  BY <1>4 DEF Woken, TypeOK
<1>8. TypeOK' BY <1>4, <1>5, <1>7 DEF TypeOK
<1>9. InOnePlace'
  <2>1. ASSUME NEW u \in Users, NEW i \in DOMAIN queued'[u], NEW j \in DOMAIN queued'[u]
        PROVE  UserOf[queued'[u][i]] = u /\ (queued'[u][i] = queued'[u][j] => i = j)
    <3>1. CASE u # v
      <4>1. queued'[u] = queued[u] BY <3>1, <1>1, <1>2 DEF TypeOK
      <4> QED BY <4>1, <2>1 DEF InOnePlace
    <3>2. CASE u = v
      <4>1. queued'[v] = Append(queued[v], r) BY <1>1, <1>2 DEF TypeOK
      <4>2. Len(queued[v]) \in Nat /\ DOMAIN queued[v] = 1 .. Len(queued[v])
        BY <1>2, SeqFacts
      <4>3. /\ i \in DOMAIN queued[v] \/ i = Len(queued[v]) + 1
            /\ j \in DOMAIN queued[v] \/ j = Len(queued[v]) + 1
        BY <2>1, <3>2, <4>1, <4>2, <1>3
      <4>4. \A k \in DOMAIN queued[v] : queued[v][k] # r
        BY DEF Queued, Elements, v
      <4>5. \A k \in DOMAIN queued[v] : Append(queued[v], r)[k] = queued[v][k]
        BY <4>2, <1>3
      <4> DEFINE Q == queued[v]
                 A == Append(queued[v], r)
                 m == Len(queued[v]) + 1
      <4>6. UserOf[r] = v /\ A[m] = r BY <1>3
      <4>7. \A a, b \in DOMAIN Q : UserOf[Q[a]] = v /\ (Q[a] = Q[b] => a = b)
        BY <1>1 DEF InOnePlace
      <4>8. \A k \in DOMAIN Q : A[k] = Q[k] /\ Q[k] # r BY <4>4, <4>5
      <4>9. (i \in DOMAIN Q \/ i = m) /\ (j \in DOMAIN Q \/ j = m) BY <4>3
      <4> HIDE DEF v, Q, A, m
      <4>10. UserOf[A[i]] = v /\ (A[i] = A[j] => i = j) BY <4>6, <4>7, <4>8, <4>9
      <4>11. queued'[u] = A BY <3>2, <4>1 DEF A
      <4> QED BY <3>2, <4>10, <4>11
    <3> QED BY <3>1, <3>2
  <2>2. \A s, t \in Streams : s # t => batch'[s] \cap batch'[t] = {} BY DEF InOnePlace
  <2>3. \A q \in Requests : Queued(q)' => ~InBatch(q)' BY <1>6 DEF InOnePlace
  <2>4. \A q \in Requests : Queued(q)' \/ InBatch(q)' => answer'[q] = "none"
    BY <1>4, <1>6 DEF InOnePlace, TypeOK
  <2> QED BY <2>1, <2>2, <2>3, <2>4 DEF InOnePlace
<1>10. Accounted'
  <2> SUFFICES ASSUME NEW q \in Requests, client'[q] = "wait"
               PROVE  \/ Queued(q)' /\ UserOf[q] \in Open'
                      \/ InBatch(q)' \/ answer'[q] # "none" \/ q \in cancelled' \/ q \in lost'
    BY DEF Accounted
  <2>1. CASE q = r BY <2>1, <1>1, <1>6 DEF Open
  <2>2. CASE q # r
    <3>1. client[q] = "wait" /\ answer'[q] = answer[q] BY <2>2, <1>4 DEF TypeOK
    <3>2. UserOf[q] \in Open => UserOf[q] \in Open' BY DEF Open
    <3>3. (q \in cancelled => q \in cancelled') /\ (q \in lost => q \in lost') BY <2>2, <1>4
    <3> QED BY <3>1, <3>2, <3>3, <1>6 DEF Accounted
  <2> QED BY <2>1, <2>2
<1>11. NoLostWakeup' BY <1>7 DEF NoLostWakeup
<1>12. ClosedEmpty'
  <2> SUFFICES ASSUME NEW u \in Users, index'[u] = 0 PROVE queued'[u] = <<>> BY DEF ClosedEmpty
  <2>1. index[u] = 0 /\ u # v BY DEF TypeOK
  <2> QED BY <2>1, <1>1, <1>2 DEF ClosedEmpty, TypeOK
<1>13. BatchSent' BY <1>7 DEF BatchSent
<1>14. Upgrading' BY <1>4, <1>6 DEF Upgrading, TypeOK
<1> QED BY <1>8, <1>9, <1>10, <1>11, <1>12, <1>13, <1>14

LEMMA Enqueued ==
    ASSUME Inv, NEW r \in Requests, NEW n \in Nat, ~Queued(r), ~InBatch(r),
           EnqueueRequest(r, n), UNCHANGED <<last, batch, faults>>,
           cancelled' \in SUBSET Requests, cancelled \ {r} \subseteq cancelled'
    PROVE  Inv'
<1>1. CASE service = "stopped"
  BY <1>1, Returned DEF EnqueueRequest
<1>2. CASE service # "stopped" /\ UserOf[r] \in Open
  <2>1. Push(r, n) /\ UNCHANGED <<users, index>> BY <1>2 DEF EnqueueRequest
  <2>2. CASE Len(queued[UserOf[r]]) < MaxOutstanding
    <3>1. SpotsAgree' BY <2>1 DEF Inv, SpotsAgree
    <3>2. index'[UserOf[r]] # 0 BY <1>2, <2>1 DEF Open
    <3> QED BY <2>1, <2>2, <3>1, <3>2, Pushed DEF Inv, TypeOK
  <2>3. CASE ~(Len(queued[UserOf[r]]) < MaxOutstanding)
    <3>1. Return(r) /\ UNCHANGED <<queueVars, service, stream>>
      BY <2>1, <2>3 DEF Push, queueVars
    <3> QED BY <3>1, Returned
  <2> QED BY <2>2, <2>3
<1>3. CASE service # "stopped" /\ UserOf[r] \notin Open
  <2> USE QueueAssumption DEF Inv, queueVars
  <2>1. /\ client' = [client EXCEPT ![r] = "upgrade"] /\ tries' = [tries EXCEPT ![r] = n]
        /\ answer' = [answer EXCEPT ![r] = "none"]
        /\ UNCHANGED <<users, index, queued, service, stream, lost>>
    BY <1>3 DEF EnqueueRequest
  <2>2. \A q \in Requests : (Queued(q)' <=> Queued(q)) /\ (InBatch(q)' <=> InBatch(q))
    BY <2>1 DEF Queued, InBatch
  <2>3. TypeOK' BY <2>1 DEF TypeOK
  <2>4. SpotsAgree' BY <2>1 DEF SpotsAgree
  <2>5. InOnePlace' BY <2>1, <2>2 DEF InOnePlace, TypeOK
  <2>6. Accounted'
    <3> SUFFICES ASSUME NEW q \in Requests, client'[q] = "wait"
                 PROVE  \/ Queued(q)' /\ UserOf[q] \in Open'
                        \/ InBatch(q)' \/ answer'[q] # "none" \/ q \in cancelled' \/ q \in lost'
      BY DEF Accounted
    <3>1. q # r /\ client[q] = "wait" BY <2>1 DEF TypeOK
    <3>2. answer'[q] = answer[q] /\ (q \in cancelled => q \in cancelled') /\ lost' = lost
      BY <2>1, <3>1 DEF TypeOK
    <3>3. Open' = Open BY <2>1 DEF Open
    <3> QED BY <3>1, <3>2, <3>3, <2>2 DEF Accounted
  <2>7. NoLostWakeup' /\ ClosedEmpty' /\ BatchSent'
    BY <2>1 DEF NoLostWakeup, ClosedEmpty, BatchSent
  <2>8. Upgrading' BY <2>1, <2>2 DEF Upgrading, TypeOK
  <2> QED BY <2>3, <2>4, <2>5, <2>6, <2>7, <2>8
<1> QED BY <1>1, <1>2, <1>3

LEMMA SubmitInv == ASSUME Inv, NEW r \in Requests, Submit(r) PROVE Inv'
<1>1. /\ ~Queued(r) /\ ~InBatch(r) /\ EnqueueRequest(r, 0)
      /\ cancelled' = cancelled \ {r} /\ UNCHANGED <<last, batch, faults>>
  BY DEF Submit
<1>2. cancelled' \in SUBSET Requests BY <1>1 DEF Inv, TypeOK
<1> QED BY <1>1, <1>2, Enqueued

LEMMA ReceiveInv == ASSUME Inv, NEW r \in Requests, Receive(r) PROVE Inv'
<1>1. answer[r] # "none" /\ UNCHANGED <<cancelled, last, batch, faults>> BY DEF Receive
<1>2. ~Queued(r) /\ ~InBatch(r) BY <1>1 DEF Inv, InOnePlace
<1>3. cancelled' \in SUBSET Requests /\ tries[r] + 1 \in Nat BY <1>1 DEF Inv, TypeOK
<1>4. CASE Return(r) /\ UNCHANGED <<queueVars, service, stream>> BY <1>1, <1>3, <1>4, Returned
<1>5. CASE EnqueueRequest(r, tries[r] + 1) BY <1>1, <1>2, <1>3, <1>5, Enqueued
<1> QED BY <1>4, <1>5 DEF Receive

LEMMA GiveUpInv == ASSUME Inv, NEW r \in Requests, GiveUp(r) PROVE Inv'
<1>1. /\ Return(r) /\ UNCHANGED <<queueVars, service, cancelled, stream, last, batch, faults>>
  BY DEF GiveUp
<1>2. cancelled' \in SUBSET Requests BY <1>1 DEF Inv, TypeOK
<1> QED BY <1>1, <1>2, Returned

\* A tenant without a queue takes the first free spot of the list or a new one.
LEMMA Added ==
    ASSUME TypeOK, SpotsAgree, NEW u \in Users, getOrAddQueue(u)
    PROVE  /\ users' \in Seq(Users \cup {NoUser}) /\ index' \in [Users -> Nat] /\ SpotsAgree'
           /\ index'[u] # 0 /\ \A v \in Users : index[v] # 0 => index'[v] # 0
<1> DEFINE T == Users \cup {NoUser}
<1> USE QueueAssumption
<1>1. Len(users) \in Nat /\ DOMAIN users = 1 .. Len(users) BY SeqFacts DEF TypeOK
<1>2. CASE u \in Open /\ UNCHANGED <<users, index>>
  BY <1>2 DEF TypeOK, SpotsAgree, Open
<1>3. CASE /\ u \notin Open /\ Holes = {}
           /\ index' = [index EXCEPT ![u] = Len(users) + 1] /\ users' = Append(users, u)
  <2>1. /\ users' \in Seq(T) /\ DOMAIN users' = 1 .. Len(users) + 1
        /\ \A i \in 1 .. Len(users) : users'[i] = users[i]
        /\ users'[Len(users) + 1] = u /\ users' # <<>>
    <3>1. users \in Seq(T) /\ u \in T BY DEF TypeOK
    <3> HIDE DEF T
    <3>2. /\ Append(users, u) \in Seq(T) /\ DOMAIN Append(users, u) = 1 .. Len(users) + 1
          /\ \A i \in 1 .. Len(users) : Append(users, u)[i] = users[i]
          /\ Append(users, u)[Len(users) + 1] = u
      BY <3>1, AppendFacts
    <3>3. Append(users, u) # <<>> BY <3>1, AppendProperties
    <3> QED BY <3>2, <3>3, <1>3
  <2>2. Len(users') = Len(users) + 1 BY <1>3, AppendProperties DEF TypeOK
  <2>3. index' \in [Users -> Nat] /\ index'[u] = Len(users) + 1
        /\ \A v \in Users : v # u => index'[v] = index[v]
    BY <1>1, <1>3 DEF TypeOK
  <2>4. index[u] = 0 BY <1>3 DEF Open
  <2>5. ASSUME NEW v \in Users, index'[v] # 0
        PROVE  index'[v] <= Len(users') /\ users'[index'[v]] = v
    <3>1. CASE v = u BY <3>1, <2>1, <2>2, <2>3, <1>1
    <3>2. CASE v # u
      <4>1. index[v] # 0 /\ index[v] <= Len(users) /\ users[index[v]] = v /\ index[v] \in Nat
        BY <3>2, <2>3, <2>5 DEF SpotsAgree, TypeOK
      <4> QED BY <3>2, <4>1, <2>1, <2>2, <2>3, <1>1
    <3> QED BY <3>1, <3>2
  <2>6. ASSUME NEW i \in DOMAIN users', users'[i] # NoUser PROVE index'[users'[i]] = i
    <3>1. CASE i = Len(users) + 1 BY <3>1, <2>1, <2>3
    <3>2. CASE i # Len(users) + 1
      <4>1. i \in DOMAIN users /\ users'[i] = users[i] BY <3>2, <2>1, <1>1
      <4>2. users[i] \in T BY <4>1, SeqFacts DEF TypeOK
      <4>3. index[users[i]] = i /\ i # 0 BY <4>1, <2>6, <1>1 DEF SpotsAgree
      <4> QED BY <4>1, <4>2, <4>3, <2>3, <2>4, <2>6
    <3> QED BY <3>1, <3>2
  <2>7. users'[Len(users')] # NoUser BY <2>1, <2>2
  <2>8. SpotsAgree' BY <2>5, <2>6, <2>7 DEF SpotsAgree
  <2> QED BY <2>1, <2>3, <2>8, <1>1
<1>4. CASE /\ u \notin Open
           /\ \E i \in Holes : /\ \A j \in Holes : i <= j
                               /\ index' = [index EXCEPT ![u] = i]
                               /\ users' = [users EXCEPT ![i] = u]
  <2> PICK h \in Holes : index' = [index EXCEPT ![u] = h] /\ users' = [users EXCEPT ![h] = u]
    BY <1>4
  <2>1. h \in DOMAIN users /\ users[h] = NoUser /\ h \in 1 .. Len(users) BY <1>1 DEF Holes
  <2>2. /\ users' \in Seq(T) /\ Len(users') = Len(users)
        /\ \A j \in 1 .. Len(users) : users'[j] = IF j = h THEN u ELSE users[j]
    BY <2>1, ExceptSeq DEF TypeOK
  <2>3. DOMAIN users' = 1 .. Len(users) BY <2>2, LenProperties
  <2>4. index' \in [Users -> Nat] /\ index'[u] = h
        /\ \A v \in Users : v # u => index'[v] = index[v]
    BY <2>1, <1>1 DEF TypeOK
  <2>5. index[u] = 0 BY <1>4 DEF Open
  <2>6. ASSUME NEW v \in Users, index'[v] # 0
        PROVE  index'[v] <= Len(users') /\ users'[index'[v]] = v
    <3>1. CASE v = u BY <3>1, <2>1, <2>2, <2>4, <1>1
    <3>2. CASE v # u
      <4>1. index[v] # 0 /\ index[v] <= Len(users) /\ users[index[v]] = v /\ index[v] \in Nat
        BY <3>2, <2>4, <2>6 DEF SpotsAgree, TypeOK
      <4>2. index[v] # h BY <4>1, <2>1
      <4> QED BY <3>2, <4>1, <4>2, <2>2, <2>4, <1>1
    <3> QED BY <3>1, <3>2
  <2>7. ASSUME NEW i \in DOMAIN users', users'[i] # NoUser PROVE index'[users'[i]] = i
    <3>1. CASE i = h BY <3>1, <2>1, <2>2, <2>4
    <3>2. CASE i # h
      <4>1. i \in DOMAIN users /\ users'[i] = users[i] BY <3>2, <2>2, <2>3, <1>1
      <4>2. users[i] \in T BY <4>1, SeqFacts DEF TypeOK
      <4>3. index[users[i]] = i /\ i # 0 BY <4>1, <2>7, <1>1 DEF SpotsAgree
      <4> QED BY <4>1, <4>2, <4>3, <2>4, <2>5, <2>7
    <3> QED BY <3>1, <3>2
  <2>8. users'[Len(users')] # NoUser
    <3>1. users # <<>> BY <2>1, <1>1, EmptySeq
    <3>2. users[Len(users)] # NoUser /\ Len(users) \in 1 .. Len(users)
      BY <3>1, <2>1, <1>1 DEF SpotsAgree
    <3> QED BY <3>2, <2>2
  <2>9. SpotsAgree' BY <2>6, <2>7, <2>8 DEF SpotsAgree
  <2> QED BY <2>2, <2>4, <2>9, <2>1, <1>1
<1> QED BY <1>2, <1>3, <1>4 DEF getOrAddQueue

LEMMA UpgradeInv == ASSUME Inv, NEW r \in Requests, Upgrade(r) PROVE Inv'
<1>1. /\ client[r] = "upgrade" /\ getOrAddQueue(UserOf[r]) /\ Push(r, tries[r])
      /\ UNCHANGED <<cancelled, last, batch, faults>>
  BY DEF Upgrade
<1>2. ~Queued(r) /\ ~InBatch(r) BY <1>1 DEF Inv, Upgrading
<1>3. UserOf[r] \in Users /\ tries[r] \in Nat BY QueueAssumption DEF Inv, TypeOK
<1>4. /\ users' \in Seq(Users \cup {NoUser}) /\ index' \in [Users -> Nat] /\ SpotsAgree'
      /\ index'[UserOf[r]] # 0 /\ \A v \in Users : index[v] # 0 => index'[v] # 0
  BY <1>1, <1>3, Added DEF Inv
<1>5. cancelled' \in SUBSET Requests BY <1>1 DEF Inv, TypeOK
<1>6. CASE Len(queued[UserOf[r]]) < MaxOutstanding
  BY <1>1, <1>2, <1>3, <1>4, <1>5, <1>6, Pushed
<1>7. CASE ~(Len(queued[UserOf[r]]) < MaxOutstanding)
  <2> USE QueueAssumption DEF Inv
  <2>1. Return(r) /\ UNCHANGED <<queued, stream, service>> BY <1>1, <1>7 DEF Push
  <2>2. \A q \in Requests : (Queued(q)' <=> Queued(q)) /\ (InBatch(q)' <=> InBatch(q))
    BY <2>1, <1>1 DEF Queued, InBatch
  <2>3. TypeOK' BY <2>1, <1>1, <1>4 DEF TypeOK, Return
  <2>4. InOnePlace' BY <2>1, <2>2, <1>1 DEF InOnePlace, TypeOK, Return
  <2>5. Accounted'
    <3> SUFFICES ASSUME NEW q \in Requests, client'[q] = "wait"
                 PROVE  \/ Queued(q)' /\ UserOf[q] \in Open'
                        \/ InBatch(q)' \/ answer'[q] # "none" \/ q \in cancelled' \/ q \in lost'
      BY DEF Accounted
    <3>1. q # r /\ client[q] = "wait" BY <2>1 DEF TypeOK, Return
    <3>2. answer'[q] = answer[q] /\ cancelled' = cancelled /\ (q \in lost => q \in lost')
      BY <2>1, <3>1, <1>1 DEF TypeOK, Return
    <3>3. UserOf[q] \in Open => UserOf[q] \in Open' BY <1>4 DEF Open
    <3> QED BY <3>1, <3>2, <3>3, <2>2 DEF Accounted
  <2>6. NoLostWakeup' /\ BatchSent' BY <2>1, <1>1 DEF NoLostWakeup, BatchSent
  <2>7. ClosedEmpty' BY <2>1, <1>4 DEF ClosedEmpty
  <2>8. Upgrading' BY <2>1, <2>2 DEF Upgrading, TypeOK, Return
  <2> QED BY <2>3, <1>4, <2>4, <2>5, <2>6, <2>7, <2>8
<1> QED BY <1>6, <1>7

LEMMA CancelInv == ASSUME Inv, NEW r \in Requests, Cancel(r) PROVE Inv'
<1> USE DEF Cancel, Inv, queueVars
<1>1. \A q \in Requests : (Queued(q)' <=> Queued(q)) /\ (InBatch(q)' <=> InBatch(q))
  BY DEF Queued, InBatch
<1>2. TypeOK' BY QueueAssumption DEF TypeOK, Fault
<1>3. SpotsAgree' BY DEF SpotsAgree
<1>4. InOnePlace' BY <1>1 DEF InOnePlace
<1>5. Open' = Open BY DEF Open
<1>6. Accounted' BY <1>1, <1>5 DEF Accounted
<1>7. NoLostWakeup' /\ ClosedEmpty' /\ BatchSent' BY DEF NoLostWakeup, ClosedEmpty, BatchSent
<1>8. Upgrading' BY <1>1 DEF Upgrading
<1> QED BY <1>2, <1>3, <1>4, <1>6, <1>7, <1>8

-----------------------------------------------------------------------------
(* The streams and the service. *)

\* A step that moves streams and the service only.
LEMMA Moved ==
    ASSUME Inv, UNCHANGED <<queueVars, clientVars, batch, lost>>,
           service' \in {"running", "stopping", "waiting", "stopped"},
           stream' \in [Streams -> {"off", "ask", "cond", "sent"}],
           last' \in [Streams -> Nat], faults' \in 0 .. MaxFaults,
           NoLostWakeup', BatchSent'
    PROVE  Inv'
<1> USE DEF Inv, queueVars, clientVars
<1>1. \A q \in Requests : (Queued(q)' <=> Queued(q)) /\ (InBatch(q)' <=> InBatch(q))
  BY DEF Queued, InBatch
<1>2. TypeOK' BY DEF TypeOK
<1>3. SpotsAgree' BY DEF SpotsAgree
<1>4. InOnePlace' BY <1>1 DEF InOnePlace
<1>5. Open' = Open BY DEF Open
<1>6. Accounted' BY <1>1, <1>5 DEF Accounted
<1>7. ClosedEmpty' BY DEF ClosedEmpty
<1>8. Upgrading' BY <1>1 DEF Upgrading
<1> QED BY <1>2, <1>3, <1>4, <1>6, <1>7, <1>8

\* A stream is done with its batch, whose jobs are answered or given up.
LEMMA Cleared ==
    ASSUME Inv, NEW s \in Streams, batch' = [batch EXCEPT ![s] = {}],
           UNCHANGED <<queueVars, client, cancelled, tries, last>>,
           answer' \in [Requests -> {"none", "ok", "fail"}], lost' \in SUBSET Requests,
           \A q \in Requests : q \notin batch[s] => answer'[q] = answer[q],
           \A q \in Requests : answer[q] # "none" => answer'[q] # "none",
           lost \subseteq lost',
           \A q \in batch[s] : client[q] = "wait" =>
               answer'[q] # "none" \/ q \in cancelled \/ q \in lost',
           service' \in {"running", "stopping", "waiting", "stopped"},
           stream' \in [Streams -> {"off", "ask", "cond", "sent"}],
           \A t \in Streams : t # s /\ stream'[t] # "sent" => stream[t] # "sent",
           \A t \in Streams : stream'[t] = "cond" => stream[t] = "cond",
           faults' \in 0 .. MaxFaults
    PROVE  Inv'
<1> USE DEF Inv, queueVars
<1>1. batch' \in [Streams -> SUBSET Requests] /\ batch'[s] = {}
      /\ \A t \in Streams : t # s => batch'[t] = batch[t]
  BY DEF TypeOK
<1>2. \A q \in Requests : Queued(q)' <=> Queued(q) BY DEF Queued
<1>3. \A q \in Requests : InBatch(q)' => InBatch(q) /\ q \notin batch[s]
  BY <1>1 DEF InBatch, InOnePlace
<1>4. \A q \in Requests : InBatch(q) /\ q \notin batch[s] => InBatch(q)' BY <1>1 DEF InBatch
<1>5. TypeOK' BY <1>1 DEF TypeOK
<1>6. SpotsAgree' BY DEF SpotsAgree
<1>7. InOnePlace'
  <2>1. \A u \in Users : \A i, j \in DOMAIN queued'[u] :
          UserOf[queued'[u][i]] = u /\ (queued'[u][i] = queued'[u][j] => i = j)
    BY DEF InOnePlace
  <2>2. \A t, w \in Streams : t # w => batch'[t] \cap batch'[w] = {} BY <1>1 DEF InOnePlace
  <2>3. \A q \in Requests : Queued(q)' => ~InBatch(q)' BY <1>2, <1>3 DEF InOnePlace
  <2>4. ASSUME NEW q \in Requests, Queued(q)' \/ InBatch(q)' PROVE answer'[q] = "none"
    <3>1. Queued(q) => q \notin batch[s] BY DEF InOnePlace, InBatch
    <3>2. q \notin batch[s] /\ (Queued(q) \/ InBatch(q)) BY <3>1, <2>4, <1>2, <1>3
    <3> QED BY <3>2 DEF InOnePlace
  <2> QED BY <2>1, <2>2, <2>3, <2>4 DEF InOnePlace
<1>8. Open' = Open BY DEF Open
<1>9. Accounted'
  <2> SUFFICES ASSUME NEW q \in Requests, client'[q] = "wait"
               PROVE  \/ Queued(q)' /\ UserOf[q] \in Open'
                      \/ InBatch(q)' \/ answer'[q] # "none" \/ q \in cancelled' \/ q \in lost'
    BY DEF Accounted
  <2>1. CASE q \in batch[s] BY <2>1
  <2>2. CASE q \notin batch[s] BY <2>2, <1>2, <1>4, <1>8 DEF Accounted
  <2> QED BY <2>1, <2>2
<1>10. NoLostWakeup' /\ ClosedEmpty' BY DEF NoLostWakeup, ClosedEmpty
<1>11. BatchSent' BY <1>1 DEF BatchSent
<1>12. Upgrading' BY <1>2, <1>3 DEF Upgrading
<1> QED BY <1>5, <1>6, <1>7, <1>9, <1>10, <1>11, <1>12

LEMMA ConnectInv == ASSUME Inv, NEW s \in Streams, Connect(s) PROVE Inv'
<1> USE DEF Connect, Inv
<1>1. NoLostWakeup' BY DEF NoLostWakeup, queueVars, TypeOK
<1>2. BatchSent' BY DEF BatchSent, TypeOK
<1> QED BY <1>1, <1>2, Moved DEF TypeOK

LEMMA SpotFacts ==
    ASSUME TypeOK, users # <<>>, NEW l \in Nat, NEW k \in 0 .. Len(users) - 1
    PROVE  Spot(l, k) \in DOMAIN users
<1>1. Len(users) \in Nat /\ DOMAIN users = 1 .. Len(users) BY SeqFacts DEF TypeOK
<1> QED BY <1>1 DEF Spot

LEMMA WaitInv == ASSUME Inv, NEW s \in Streams, Wait(s) PROVE Inv'
<1> USE DEF Inv
<1>0. Len(users) \in Nat /\ DOMAIN users = 1 .. Len(users) BY SeqFacts DEF TypeOK
<1>1. /\ stream[s] = "ask" /\ stream' \in [Streams -> {"off", "ask", "cond", "sent"}]
      /\ stream'[s] # "sent" /\ \A t \in Streams : t # s => stream'[t] = stream[t]
      /\ UNCHANGED <<queueVars, service, clientVars, batch, lost, faults>>
  BY DEF Wait, TypeOK
<1>2. BatchSent' BY <1>1 DEF BatchSent
<1>3. last' \in [Streams -> Nat]
  <2>1. CASE last' = last BY <2>1 DEF TypeOK
  <2>2. CASE Open # {} /\ last' = [last EXCEPT ![s] = Spot(last[s], Len(users) - 1)]
    <3>1. PICK u \in Users : index[u] # 0 BY <2>2 DEF Open
    <3>2. Len(users) >= 1 BY <3>1, <1>0 DEF SpotsAgree, TypeOK
    <3>3. Len(users) - 1 \in 0 .. Len(users) - 1 /\ users # <<>> BY <3>2, <1>0, EmptySeq
    <3>a. last[s] \in Nat BY DEF TypeOK
    <3>b. Spot(last[s], Len(users) - 1) \in DOMAIN users BY <3>3, <3>a, SpotFacts
    <3>4. Spot(last[s], Len(users) - 1) \in Nat BY <3>b, <1>0
    <3> QED BY <2>2, <3>4 DEF TypeOK
  <2> QED BY <2>1, <2>2 DEF Wait
<1>4. NoLostWakeup'
  <2> SUFFICES ASSUME NEW t \in Streams, stream'[t] = "cond", NEW u \in Users
               PROVE  queued'[u] = <<>>
    BY DEF NoLostWakeup
  <2>1. CASE t # s BY <2>1, <1>1 DEF NoLostWakeup, queueVars
  <2>2. CASE t = s
    <3>1. Open = {} \/ \A i \in DOMAIN users : ~Nonempty(i) BY <2>2, <1>1 DEF Wait, TypeOK
    <3>2. CASE index[u] = 0 BY <3>2, <1>1 DEF ClosedEmpty, queueVars
    <3>3. CASE index[u] # 0
      <4>1. index[u] \in DOMAIN users /\ users[index[u]] = u
        BY <3>3, <1>0 DEF SpotsAgree, TypeOK
      <4>2. ~Nonempty(index[u]) BY <3>1, <3>3, <4>1 DEF Open
      <4> QED BY <4>1, <4>2, <1>1, QueueAssumption DEF Nonempty, queueVars
    <3> QED BY <3>2, <3>3
  <2> QED BY <2>1, <2>2
<1> QED BY <1>1, <1>2, <1>3, <1>4, Moved DEF TypeOK

LEMMA AddFailsInv == ASSUME Inv, NEW s \in Streams, AddFails(s) PROVE Inv'
<1> USE DEF AddFails, Inv
<1>1. stream' \in [Streams -> {"off", "ask", "cond", "sent"}]
      /\ (\A t \in Streams : t # s => stream'[t] = stream[t]) /\ stream'[s] = "off"
  BY DEF TypeOK
<1>2. lost' \in SUBSET Requests /\ faults' \in 0 .. MaxFaults BY QueueAssumption DEF TypeOK, Fault
<1>3. UNCHANGED <<queueVars, service, client, cancelled, tries, answer, last>> BY DEF clientVars
<1>4. \A q \in batch[s] : client[q] = "wait" => q \in lost' OBVIOUS
<1> QED BY <1>1, <1>2, <1>3, <1>4, Cleared DEF TypeOK

LEMMA AbandonInv == ASSUME Inv, NEW s \in Streams, Abandon(s) PROVE Inv'
<1> USE DEF Abandon, Inv
<1>1. stream' \in [Streams -> {"off", "ask", "cond", "sent"}]
      /\ (\A t \in Streams : t # s => stream'[t] = stream[t]) /\ stream'[s] = "off"
  BY DEF TypeOK
<1>2. UNCHANGED <<queueVars, service, client, cancelled, tries, answer, last, lost, faults>>
  BY DEF clientVars
<1> QED BY <1>1, <1>2, Cleared DEF TypeOK

\* What Respond and Break do to the answers.
LEMMA Answered ==
    ASSUME TypeOK, NEW s \in Streams, NEW a \in [Requests -> {"ok", "fail"}], Answers(s, a)
    PROVE  /\ answer' \in [Requests -> {"none", "ok", "fail"}]
           /\ \A q \in Requests : q \notin batch[s] => answer'[q] = answer[q]
           /\ \A q \in Requests : answer[q] # "none" => answer'[q] # "none"
           /\ \A q \in batch[s] : client[q] = "wait" => answer'[q] # "none"
  BY DEF Answers, TypeOK

LEMMA RespondInv ==
    ASSUME Inv, NEW s \in Streams, NEW a \in [Requests -> {"ok", "fail"}], Respond(s, a)
    PROVE  Inv'
<1> USE DEF Respond, Inv
<1>1. stream' \in [Streams -> {"off", "ask", "cond", "sent"}]
      /\ (\A t \in Streams : t # s => stream'[t] = stream[t]) /\ stream'[s] = "ask"
  BY DEF TypeOK
<1>2. /\ answer' \in [Requests -> {"none", "ok", "fail"}]
      /\ \A q \in Requests : q \notin batch[s] => answer'[q] = answer[q]
      /\ \A q \in Requests : answer[q] # "none" => answer'[q] # "none"
      /\ \A q \in batch[s] : client[q] = "wait" => answer'[q] # "none"
  BY Answered
<1> QED BY <1>1, <1>2, Cleared DEF TypeOK

LEMMA WokenFacts ==
    ASSUME TypeOK
    PROVE  /\ Woken(stream) \in [Streams -> {"off", "ask", "cond", "sent"}]
           /\ \A t \in Streams : \/ Woken(stream)[t] = stream[t] /\ stream[t] # "cond"
                                 \/ stream[t] = "cond" /\ Woken(stream)[t] = "ask"
  BY DEF Woken, TypeOK

LEMMA BreakInv == ASSUME Inv, NEW s \in Streams, Break(s) PROVE Inv'
<1> USE DEF Inv
<1> DEFINE a == [r \in Requests |-> "fail"]
<1>1. /\ answer' \in [Requests -> {"none", "ok", "fail"}]
      /\ \A q \in Requests : q \notin batch[s] => answer'[q] = answer[q]
      /\ \A q \in Requests : answer[q] # "none" => answer'[q] # "none"
      /\ \A q \in batch[s] : client[q] = "wait" => answer'[q] # "none"
  <2>1. a \in [Requests -> {"ok", "fail"}] /\ Answers(s, a) BY DEF Break
  <2> HIDE DEF a
  <2> QED BY <2>1, Answered
<1>2. stream' \in [Streams -> {"off", "ask", "cond", "sent"}]
      /\ stream'[s] = "off"
      /\ \A t \in Streams : t # s => stream'[t] = stream[t]
                                     \/ (stream[t] = "cond" /\ stream'[t] = "ask")
  <2> DEFINE st == IF stream[s] = "cond" THEN Woken(stream) ELSE stream
  <2>1. stream' = [st EXCEPT ![s] = "off"] BY DEF Break
  <2>2. stream \in [Streams -> {"off", "ask", "cond", "sent"}] BY DEF TypeOK
  <2>3. st \in [Streams -> {"off", "ask", "cond", "sent"}]
        /\ \A t \in Streams : st[t] = stream[t] \/ (stream[t] = "cond" /\ st[t] = "ask")
    <3>1. CASE stream[s] = "cond"
      <4>1. st = Woken(stream) BY <3>1
      <4> HIDE DEF st
      <4> QED BY <4>1, WokenFacts
    <3>2. CASE stream[s] # "cond"
      <4>1. st = stream BY <3>2
      <4> HIDE DEF st
      <4> QED BY <4>1, <2>2
    <3> QED BY <3>1, <3>2
  <2> HIDE DEF st
  <2> QED BY <2>1, <2>3
<1>3. service' \in {"running", "stopping", "waiting", "stopped"} BY DEF Break, TypeOK
<1>4. faults' \in 0 .. MaxFaults BY QueueAssumption DEF Break, Fault, TypeOK
<1>5. batch' = [batch EXCEPT ![s] = {}]
      /\ UNCHANGED <<queueVars, client, cancelled, tries, last, lost>>
  BY DEF Break
<1>6. /\ lost' \in SUBSET Requests /\ lost \subseteq lost'
      /\ \A t \in Streams : t # s /\ stream'[t] # "sent" => stream[t] # "sent"
      /\ \A t \in Streams : stream'[t] = "cond" => stream[t] = "cond"
  BY <1>2, <1>5 DEF TypeOK
<1>7. UNCHANGED <<queueVars, client, cancelled, tries, last>> BY <1>5 DEF queueVars
<1> QED BY <1>1, <1>2, <1>3, <1>4, <1>5, <1>6, <1>7, Cleared

LEMMA StopInv == ASSUME Inv, StopAsync \/ stopping PROVE Inv'
<1> USE DEF Inv
<1>1. /\ service' \in {"running", "stopping", "waiting", "stopped"}
      /\ stream' \in [Streams -> {"off", "ask", "cond", "sent"}]
      /\ \A t \in Streams : stream'[t] = stream[t] \/ (stream[t] = "cond" /\ stream'[t] = "ask")
      /\ UNCHANGED <<queueVars, clientVars, last, batch, lost, faults>>
  <2>1. service \in {"running", "stopping", "waiting", "stopped"}
        /\ stream \in [Streams -> {"off", "ask", "cond", "sent"}]
    BY DEF TypeOK
  <2>2. CASE StopAsync BY <2>1, <2>2 DEF StopAsync, queueVars, clientVars
  <2>3. CASE stopping
    <3>1. (stream' = stream \/ stream' = Woken(stream)) /\ service' \in {"waiting", "stopped"}
          /\ UNCHANGED <<queueVars, clientVars, last, batch, lost, faults>>
      BY <2>3 DEF stopping
    <3>2. CASE stream' = stream BY <3>1, <3>2, <2>1
    <3>3. CASE stream' = Woken(stream) BY <3>1, <3>3, WokenFacts
    <3> QED BY <3>1, <3>2, <3>3
  <2> QED BY <2>2, <2>3
<1>2. NoLostWakeup' BY <1>1 DEF NoLostWakeup, queueVars
<1>3. BatchSent' BY <1>1 DEF BatchSent
<1> QED BY <1>1, <1>2, <1>3, Moved DEF TypeOK

\* A stream takes the first n jobs of a queue: its batch was empty before, and
\* the jobs that it does not keep are cancelled.
LEMMA TakeInv ==
    ASSUME Inv, NEW s \in Streams, NEW k \in 0 .. Len(users) - 1, NEW n \in 1 .. MaxBatchSize,
           Take(s, k, n)
    PROVE  Inv'
<1> USE QueueAssumption DEF Inv
<1> DEFINE i == Spot(last[s], k)
           u == users[i]
           q == queued[u]
           rest == SubSeq(q, n + 1, Len(q))
           taken == {q[j] : j \in 1 .. n}
           live == taken \ cancelled
<1>1. Len(users) \in Nat /\ DOMAIN users = 1 .. Len(users) BY SeqFacts DEF TypeOK
<1>2. users # <<>> BY <1>1, EmptySeq
<1>3. i \in DOMAIN users /\ i \in Nat \ {0}
  <2>1. last[s] \in Nat BY DEF TypeOK
  <2>2. i \in DOMAIN users BY <2>1, <1>2, SpotFacts
  <2> QED BY <2>2, <1>1
<1>4. u \in Users
  <2>1. u \in Users \cup {NoUser} BY <1>3, SeqFacts DEF TypeOK
  <2>2. u # NoUser BY DEF Take, getNextQueue, Nonempty
  <2> QED BY <2>1, <2>2
<1>5. q \in Seq(Requests) BY <1>4 DEF TypeOK
<1>6. n \in 1 .. Len(q) BY DEF Take, getBatchBuffer
<1>7. /\ rest \in Seq(Requests)
      /\ DOMAIN rest = 1 .. Len(q) - n
      /\ \A j \in DOMAIN rest : j + n \in DOMAIN q /\ rest[j] = q[j + n]
      /\ Elements(rest) = {q[j] : j \in n + 1 .. Len(q)}
      /\ Elements(q) = taken \cup Elements(rest)
  BY <1>5, <1>6, RestFacts
<1>8. Len(q) \in Nat /\ DOMAIN q = 1 .. Len(q) /\ q # <<>> /\ \A j \in DOMAIN q : q[j] \in Requests
  <2>1. Len(q) \in Nat /\ DOMAIN q = 1 .. Len(q) /\ \A j \in DOMAIN q : q[j] \in Requests
    BY <1>5, SeqFacts
  <2>2. Len(q) # 0 BY <2>1, <1>6
  <2> QED BY <2>1, <2>2, EmptySeq
<1>9. /\ stream[s] = "ask" /\ batch' = [batch EXCEPT ![s] = live]
      /\ queued' = [queued EXCEPT ![u] = rest]
      /\ stream' = [stream EXCEPT ![s] = IF live = {} THEN "ask" ELSE "sent"]
      /\ last' = [last EXCEPT ![s] = IF live = {} THEN i - 1 ELSE i]
      /\ UNCHANGED <<users, index, service, client, cancelled, tries, answer, lost, faults>>
  BY DEF Take, ReuseLastUser, clientVars
<1>10. \A j, l \in DOMAIN q : UserOf[q[j]] = u /\ (q[j] = q[l] => j = l)
  BY <1>4 DEF InOnePlace
<1> HIDE DEF i, u
<1>11. queued'[u] = rest /\ \A v \in Users : v # u => queued'[v] = queued[v]
  BY <1>4, <1>9 DEF TypeOK
<1>12. batch[s] = {} /\ batch'[s] = live /\ \A t \in Streams : t # s => batch'[t] = batch[t]
  <2>1. batch[s] = {} BY <1>9 DEF BatchSent
  <2> QED BY <2>1, <1>9 DEF TypeOK
<1>13. taken \subseteq Requests /\ taken \subseteq Elements(q) BY <1>6, <1>8 DEF Elements
<1> HIDE DEF q, rest
<1>14. taken \cap Elements(rest) = {}
  <2> SUFFICES ASSUME NEW j \in 1 .. n, NEW l \in n + 1 .. Len(q), q[j] = q[l] PROVE FALSE
    BY <1>7
  <2>1. j \in DOMAIN q /\ l \in DOMAIN q /\ j # l BY <1>6, <1>8
  <2> QED BY <2>1, <1>10
<1>15. \A r \in taken : UserOf[r] = u BY <1>6, <1>8, <1>10
<1>16. \A r \in Requests : Queued(r)' <=> Queued(r) /\ r \notin taken
  <2> TAKE r \in Requests
  <2>1. CASE UserOf[r] = u
    <3>1. Queued(r) <=> r \in Elements(q) BY <2>1 DEF Queued, q
    <3>2. Queued(r)' <=> r \in Elements(rest) BY <2>1, <1>11 DEF Queued
    <3> HIDE DEF taken
    <3> QED BY <3>1, <3>2, <1>7, <1>14
  <2>2. CASE UserOf[r] # u
    <3>1. UserOf[r] \in Users OBVIOUS
    <3>2. Queued(r)' <=> Queued(r) BY <2>2, <3>1, <1>11 DEF Queued
    <3> QED BY <2>2, <3>2, <1>15
  <2> QED BY <2>1, <2>2
<1>17. \A r \in taken : Queued(r) BY <1>13, <1>15 DEF Queued, q
<1> HIDE DEF taken
<1>18. \A r \in Requests : InBatch(r)' <=> InBatch(r) \/ r \in live
  BY <1>12 DEF InBatch
<1>19. live \subseteq taken /\ live \subseteq Requests BY <1>13
<1>20. TypeOK'
  <2>1. queued' \in [Users -> Seq(Requests)] BY <1>4, <1>7, <1>9 DEF TypeOK
  <2>2. batch' \in [Streams -> SUBSET Requests] BY <1>9, <1>19 DEF TypeOK
  <2>3. stream' \in [Streams -> {"off", "ask", "cond", "sent"}] BY <1>9 DEF TypeOK
  <2>4. last' \in [Streams -> Nat]
    <3>1. (IF live = {} THEN i - 1 ELSE i) \in Nat BY <1>3
    <3> QED BY <3>1, <1>9 DEF TypeOK
  <2> QED BY <2>1, <2>2, <2>3, <2>4, <1>9 DEF TypeOK
<1>21. InOnePlace'
  <2>1. ASSUME NEW v \in Users, NEW j \in DOMAIN queued'[v], NEW l \in DOMAIN queued'[v]
        PROVE  UserOf[queued'[v][j]] = v /\ (queued'[v][j] = queued'[v][l] => j = l)
    <3>1. CASE v # u
      <4>1. queued'[v] = queued[v] BY <3>1, <1>11
      <4> QED BY <4>1, <2>1 DEF InOnePlace
    <3>2. CASE v = u
      <4>1. queued'[v] = rest /\ j \in DOMAIN rest /\ l \in DOMAIN rest BY <3>2, <1>11, <2>1
      <4>2. /\ j + n \in DOMAIN q /\ rest[j] = q[j + n]
            /\ l + n \in DOMAIN q /\ rest[l] = q[l + n]
        BY <4>1, <1>7
      <4>3. UserOf[q[j + n]] = u /\ (q[j + n] = q[l + n] => j + n = l + n) BY <4>2, <1>10
      <4>4. j \in Int /\ l \in Int /\ n \in Int BY <4>1, <1>7
      <4>5. j + n = l + n => j = l BY <4>4
      <4> QED BY <3>2, <4>1, <4>2, <4>3, <4>5
    <3> QED BY <3>1, <3>2
  <2>2. ASSUME NEW t \in Streams, NEW w \in Streams, t # w PROVE batch'[t] \cap batch'[w] = {}
    <3>1. \A x \in Streams : live \cap batch[x] = {}
      BY <1>17, <1>19 DEF InOnePlace, InBatch
    <3>2. batch[t] \cap batch[w] = {} BY <2>2 DEF InOnePlace
    <3> QED BY <2>2, <3>1, <3>2, <1>12
  <2>3. \A r \in Requests : Queued(r)' => ~InBatch(r)' BY <1>16, <1>18, <1>19 DEF InOnePlace
  <2>4. \A r \in Requests : Queued(r)' \/ InBatch(r)' => answer'[r] = "none"
    BY <1>9, <1>16, <1>17, <1>18, <1>19 DEF InOnePlace
  <2> QED BY <2>1, <2>2, <2>3, <2>4 DEF InOnePlace
<1>22. Accounted'
  <2> SUFFICES ASSUME NEW r \in Requests, client'[r] = "wait"
               PROVE  \/ Queued(r)' /\ UserOf[r] \in Open'
                      \/ InBatch(r)' \/ answer'[r] # "none" \/ r \in cancelled' \/ r \in lost'
    BY DEF Accounted
  <2>1. Open' = Open BY <1>9 DEF Open
  <2>2. client[r] = "wait" BY <1>9
  <2>3. r \in taken => r \in live \/ r \in cancelled OBVIOUS
  <2> HIDE DEF live
  <2> QED BY <2>1, <2>2, <2>3, <1>9, <1>16, <1>18 DEF Accounted
<1>23. NoLostWakeup' /\ BatchSent'
  <2>1. \A t \in Streams : stream[t] # "cond" BY <1>4, <1>8 DEF NoLostWakeup, q
  <2>2. \A t \in Streams : t # s => stream'[t] = stream[t] BY <1>9 DEF TypeOK
  <2>3. stream'[s] = IF live = {} THEN "ask" ELSE "sent" BY <1>9 DEF TypeOK
  <2> HIDE DEF live
  <2>4. NoLostWakeup' BY <2>1, <2>2, <2>3 DEF NoLostWakeup
  <2>5. BatchSent' BY <2>2, <2>3, <1>12 DEF BatchSent
  <2> QED BY <2>4, <2>5
<1>24. ClosedEmpty'
  <2>1. index[u] # 0 BY <1>4, <1>8 DEF ClosedEmpty, q
  <2> QED BY <2>1, <1>9, <1>11 DEF ClosedEmpty
<1>25. Upgrading' BY <1>9, <1>16, <1>17, <1>18, <1>19 DEF Upgrading
<1>26. SpotsAgree' BY <1>9 DEF SpotsAgree
<1> QED BY <1>20, <1>21, <1>22, <1>23, <1>24, <1>25, <1>26

\* cleanupQueues closes queues without jobs and gives up their spots.
LEMMA CleanupInv == ASSUME Inv, cleanupQueues PROVE Inv'
<1> USE QueueAssumption DEF Inv
<1> DEFINE T == Users \cup {NoUser}
           freed == [i \in DOMAIN users |-> IF users[i] \in Empties THEN NoUser ELSE users[i]]
<1>1. Len(users) \in Nat /\ DOMAIN users = 1 .. Len(users) /\ \A i \in DOMAIN users : users[i] \in T
  BY SeqFacts DEF TypeOK
<1>2. PICK n \in 0 .. Len(users) : Shrinks(freed, n) /\ users' = SubSeq(freed, 1, n)
  BY DEF cleanupQueues
<1>3. /\ index' = [u \in Users |-> IF u \in Empties THEN 0 ELSE index[u]]
      /\ stream' = Woken(stream)
      /\ UNCHANGED <<queued, service, client, cancelled, tries, answer, last, batch, lost, faults>>
  BY DEF cleanupQueues, clientVars
<1>4. freed \in Seq(T) /\ Len(freed) = Len(users)
  <2>1. freed \in [1 .. Len(users) -> T] BY <1>1
  <2> HIDE DEF freed
  <2> QED BY <2>1, <1>1, LenProperties, SeqDef
<1>5. \A i \in DOMAIN users : freed[i] = IF users[i] \in Empties THEN NoUser ELSE users[i]
  OBVIOUS
<1> HIDE DEF freed, T
<1>6. users' \in Seq(T) /\ Len(users') = n /\ \A i \in 1 .. n : users'[i] = freed[i]
  <2>1. 1 \in Int /\ n \in Int BY <1>1
  <2>2. \A i \in 1 .. n : freed[i] \in T BY <1>4, <1>1, ElementOfSeq
  <2>3. /\ SubSeq(freed, 1, n) \in Seq(T)
        /\ Len(SubSeq(freed, 1, n)) = IF 1 <= n THEN n - 1 + 1 ELSE 0
        /\ \A i \in 1 .. n - 1 + 1 : SubSeq(freed, 1, n)[i] = freed[1 + i - 1]
    BY <2>1, <2>2, SubSeqProperties
  <2>4. n \in Nat BY <1>1
  <2>5. (IF 1 <= n THEN n - 1 + 1 ELSE 0) = n /\ n - 1 + 1 = n BY <2>4
  <2>6. \A i \in 1 .. n : 1 + i - 1 = i OBVIOUS
  <2> QED BY <2>3, <2>5, <2>6, <1>2
<1>7. /\ n > 0 => freed[n] # NoUser
      /\ \A i \in 1 .. Len(users) : freed[i] # NoUser => i <= n
  BY <1>1, <1>2, <1>4 DEF Shrinks
<1>8. DOMAIN users' = 1 .. n BY <1>6, LenProperties
<1>9. SpotsAgree'
  <2>1. ASSUME NEW u \in Users, index'[u] # 0 PROVE index'[u] <= Len(users') /\ users'[index'[u]] = u
    <3>1. u \notin Empties /\ index'[u] = index[u] BY <1>3, <2>1
    <3>2. index[u] \in 1 .. Len(users) /\ users[index[u]] = u
      BY <2>1, <3>1, <1>1 DEF SpotsAgree, TypeOK
    <3>3. freed[index[u]] = u /\ u # NoUser BY <3>1, <3>2, <1>1, <1>5
    <3>4. index[u] \in 1 .. n BY <3>2, <3>3, <1>7
    <3> QED BY <3>1, <3>3, <3>4, <1>6
  <2>2. ASSUME NEW i \in DOMAIN users', users'[i] # NoUser PROVE index'[users'[i]] = i
    <3>1. i \in DOMAIN users /\ users'[i] = freed[i] BY <1>1, <1>6, <1>8
    <3>2. users[i] \notin Empties /\ users'[i] = users[i] BY <2>2, <3>1, <1>5
    <3>3. users[i] \in Users BY <2>2, <3>1, <3>2, <1>1 DEF T
    <3>4. index[users[i]] = i BY <2>2, <3>1, <3>2 DEF SpotsAgree
    <3> QED BY <3>2, <3>3, <3>4, <1>3
  <2>3. ASSUME users' # <<>> PROVE users'[Len(users')] # NoUser
    <3>1. n > 0 BY <2>3, <1>1, <1>6, EmptySeq
    <3> QED BY <3>1, <1>1, <1>6, <1>7
  <2> QED BY <2>1, <2>2, <2>3 DEF SpotsAgree
<1>10. TypeOK'
  <2>1. index' \in [Users -> Nat] BY <1>3 DEF TypeOK
  <2>2. stream' \in [Streams -> {"off", "ask", "cond", "sent"}] BY <1>3, WokenFacts
  <2> QED BY <2>1, <2>2, <1>3, <1>6 DEF TypeOK, T
<1>11. \A r \in Requests : (Queued(r)' <=> Queued(r)) /\ (InBatch(r)' <=> InBatch(r))
  BY <1>3 DEF Queued, InBatch
<1>12. InOnePlace' BY <1>3, <1>11 DEF InOnePlace
<1>13. Accounted'
  <2>1. ASSUME NEW r \in Requests, Queued(r), UserOf[r] \in Open PROVE UserOf[r] \in Open'
    <3>1. UserOf[r] \in Users /\ index[UserOf[r]] # 0 BY <2>1 DEF Open
    <3>2. queued[UserOf[r]] \in Seq(Requests) BY <3>1 DEF TypeOK
    <3>3. queued[UserOf[r]] # <<>> BY <2>1, <3>2, SeqFacts DEF Queued
    <3>4. UserOf[r] \notin Empties BY <3>3 DEF Empties
    <3> QED BY <3>1, <3>4, <1>3 DEF Open
  <2> QED BY <2>1, <1>3, <1>11 DEF Accounted
<1>14. NoLostWakeup' /\ BatchSent'
  <2>1. \A t \in Streams : stream'[t] # "cond" /\ (stream'[t] # "sent" => stream[t] # "sent")
    BY <1>3, WokenFacts
  <2> QED BY <2>1, <1>3 DEF NoLostWakeup, BatchSent
<1>15. ClosedEmpty' BY <1>3 DEF ClosedEmpty, Empties
<1>16. Upgrading' BY <1>3, <1>11 DEF Upgrading
<1> QED BY <1>9, <1>10, <1>12, <1>13, <1>14, <1>15, <1>16

-----------------------------------------------------------------------------
LEMMA NextInv == Inv /\ [Next]_vars => Inv'
<1> SUFFICES ASSUME Inv, [Next]_vars PROVE Inv' OBVIOUS
<1>1. ASSUME NEW r \in Requests, Submit(r) \/ Cancel(r) \/ ClientStep(r) PROVE Inv'
  BY <1>1, SubmitInv, CancelInv, UpgradeInv, ReceiveInv, GiveUpInv DEF ClientStep
<1>2. ASSUME NEW s \in Streams, StreamStep(s) \/ AddFails(s) \/ Break(s) PROVE Inv'
  <2>1. CASE TakeStep(s) BY <2>1, TakeInv DEF TakeStep
  <2>2. CASE \E a \in [Requests -> {"ok", "fail"}] : Respond(s, a) BY <2>2, RespondInv
  <2> QED BY <1>2, <2>1, <2>2, ConnectInv, WaitInv, AbandonInv, AddFailsInv, BreakInv DEF StreamStep
<1>3. CASE cleanupQueues \/ StopAsync \/ stopping BY <1>3, CleanupInv, StopInv
<1>4. CASE UNCHANGED vars BY <1>4, StutterInv
<1> QED BY <1>1, <1>2, <1>3, <1>4 DEF Next

LEMMA SpecInv == Spec => []Inv
  BY InitInv, NextInv, PTL DEF Spec

\* The variables of the queue, its clients and its streams keep their types.
THEOREM QueueTypeOK == Spec => []TypeOK
<1>1. Inv => TypeOK BY DEF Inv
<1> QED BY <1>1, SpecInv, PTL

\* queues.users and userQueue.index agree, whatever was deleted and added.
THEOREM QueueSpotsAgree == Spec => []SpotsAgree
<1>1. Inv => SpotsAgree BY DEF Inv
<1> QED BY <1>1, SpecInv, PTL

\* A job is in at most one queue or batch, and its channels are empty then, so
\* that reporting an answer never blocks a stream.
THEOREM QueueInOnePlace == Spec => []InOnePlace
<1>1. Inv => InOnePlace BY DEF Inv
<1> QED BY <1>1, SpecInv, PTL

\* A RoundTrip that waits will hear of its job, except for a batch that could
\* not be sent: cleanupQueues, retries and broken streams lose none.
THEOREM QueueAccounted == Spec => []Accounted
<1>1. Inv => Accounted BY DEF Inv
<1> QED BY <1>1, SpecInv, PTL

\* contextCond loses no wakeup: no stream sleeps while a job is queued.
THEOREM QueueNoLostWakeup == Spec => []NoLostWakeup
<1>1. Inv => NoLostWakeup BY DEF Inv
<1> QED BY <1>1, SpecInv, PTL
=============================================================================
