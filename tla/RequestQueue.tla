---------------------------- MODULE RequestQueue ----------------------------
(***************************************************************************)
(* The query-frontend's request queue (modules/frontend/queue), the        *)
(* streams on which queriers take requests from it (modules/frontend/v1,   *)
(* modules/querier/worker) and the retries of the jobs that wait for an    *)
(* answer (modules/frontend/pipeline).                                     *)
(*                                                                         *)
(* A job of a query keeps its identity over its retries; the RWMutex makes *)
(* every action below atomic, except that EnqueueRequest lets the read     *)
(* lock go before it takes the lock to add a queue.  A wait on the         *)
(* condition ends with a broadcast only.                                   *)
(***************************************************************************)
EXTENDS Integers, Sequences, FiniteSets

CONSTANTS Requests,        \* jobs
          Users,           \* tenants
          Streams,         \* Process streams of the queriers
          NoUser,          \* the free spot "" of queues.users
          UserOf,          \* tenant of a job
          Weight,          \* weight of a job, before retries
          MaxOutstanding,  \* max_outstanding_per_tenant
          MaxBatchSize,    \* max_batch_size
          MaxRetries,      \* max_retries
          MaxFaults        \* bound: cancelled jobs and broken streams

ASSUME QueueAssumption == /\ NoUser \notin Users
                          /\ UserOf \in [Requests -> Users]
                          /\ Weight \in [Requests -> Nat \ {0}]
                          /\ MaxOutstanding \in Nat /\ MaxBatchSize \in Nat \ {0}
                          /\ MaxRetries \in Nat /\ MaxFaults \in Nat

VARIABLES users,           \* queues.users
          index,           \* userQueue.index, 0 without a queue
          queued,          \* userQueue.ch
          service,         \* running, stopping, waiting (in stopping), stopped
          client,          \* where RoundTrip is: idle, upgrade, wait
          cancelled,       \* jobs whose context is done
          tries,           \* retryWare
          answer,          \* what the job's two channels hold
          stream,          \* where Process is: off, ask, cond, sent
          last,            \* UserIndex of a stream
          batch,           \* requestBatch of a stream
          lost,            \* jobs that were dropped with their batch
          faults

queueVars == <<users, index, queued>>
clientVars == <<client, cancelled, tries, answer>>
vars == <<users, index, queued, service, client, cancelled, tries, answer, stream, last, batch,
          lost, faults>>

Init == /\ users = <<>>
        /\ index = [u \in Users |-> 0]
        /\ queued = [u \in Users |-> <<>>]
        /\ service = "running"
        /\ client = [r \in Requests |-> "idle"]
        /\ cancelled = {}
        /\ tries = [r \in Requests |-> 0]
        /\ answer = [r \in Requests |-> "none"]
        /\ stream = [s \in Streams |-> "off"]
        /\ last = [s \in Streams |-> 0]
        /\ batch = [s \in Streams |-> {}]
        /\ lost = {}
        /\ faults = 0

Fault == faults < MaxFaults /\ faults' = faults + 1

Open == {u \in Users : index[u] # 0}
Elements(q) == {q[i] : i \in DOMAIN q}
Queued(r) == r \in Elements(queued[UserOf[r]])
InBatch(r) == \E s \in Streams : r \in batch[s]

\* cond.Broadcast wakes the streams and the service that wait.
Woken(st) == [s \in Streams |-> IF st[s] = "cond" THEN "ask" ELSE st[s]]
Broadcast == /\ stream' = Woken(stream)
             /\ service' = IF service = "waiting" THEN "stopping" ELSE service

-----------------------------------------------------------------------------
(* The clients: retryWare.RoundTrip around Frontend.RoundTrip. *)

\* RoundTrip returns, and its variables and channels are dropped.
Return(r) == /\ client' = [client EXCEPT ![r] = "idle"]
             /\ tries' = [tries EXCEPT ![r] = 0]
             /\ answer' = [answer EXCEPT ![r] = "none"]
             /\ lost' = lost \ {r}

\* Mutant: the waiting streams are not told.
PushSilently(r, n) ==
    IF Len(queued[UserOf[r]]) < MaxOutstanding
    THEN /\ queued' = [queued EXCEPT ![UserOf[r]] = Append(@, r)]
         /\ client' = [client EXCEPT ![r] = "wait"]
         /\ tries' = [tries EXCEPT ![r] = n]
         /\ answer' = [answer EXCEPT ![r] = "none"]
         /\ UNCHANGED <<lost, stream, service>>
    ELSE Return(r) /\ UNCHANGED <<queued, stream, service>>

\* The select of EnqueueRequest, in try n: a full queue is a 429, which is not
\* retried.
Push(r, n) ==
    IF Len(queued[UserOf[r]]) < MaxOutstanding
    THEN /\ queued' = [queued EXCEPT ![UserOf[r]] = Append(@, r)]
         /\ client' = [client EXCEPT ![r] = "wait"]
         /\ tries' = [tries EXCEPT ![r] = n]
         /\ answer' = [answer EXCEPT ![r] = "none"]
         /\ Broadcast
         /\ UNCHANGED lost
    ELSE Return(r) /\ UNCHANGED <<queued, stream, service>>

\* EnqueueRequest under the read lock.  A queue that has stopped refuses every
\* retry too.
EnqueueRequest(r, n) ==
    \/ service = "stopped" /\ Return(r) /\ UNCHANGED <<queueVars, service, stream>>
    \/ service # "stopped" /\ UserOf[r] \in Open /\ Push(r, n) /\ UNCHANGED <<users, index>>
    \/ /\ service # "stopped" /\ UserOf[r] \notin Open
       /\ client' = [client EXCEPT ![r] = "upgrade"]
       /\ tries' = [tries EXCEPT ![r] = n]
       /\ answer' = [answer EXCEPT ![r] = "none"]
       /\ UNCHANGED <<queueVars, service, stream, lost>>

\* A new query; its job is a new object.
Submit(r) == /\ client[r] = "idle" /\ ~Queued(r) /\ ~InBatch(r)
             /\ EnqueueRequest(r, 0)
             /\ cancelled' = cancelled \ {r}
             /\ UNCHANGED <<last, batch, faults>>

Cancel(r) == /\ client[r] # "idle" /\ r \notin cancelled /\ Fault
             /\ cancelled' = cancelled \cup {r}
             /\ UNCHANGED <<queueVars, service, client, tries, answer, stream, last, batch, lost>>

Holes == {i \in DOMAIN users : users[i] = NoUser}

\* Mutant: the tenant is appended although there is a free spot for it.
AddAtFirst(u) == IF u \in Open THEN UNCHANGED <<users, index>>
                 ELSE /\ index' = [index EXCEPT ![u] = 1]
                      /\ users' = Append(users, u)

\* getOrAddQueue: the first free spot, or one more.
getOrAddQueue(u) == \/ u \in Open /\ UNCHANGED <<users, index>>
                    \/ /\ u \notin Open /\ Holes = {}
                       /\ index' = [index EXCEPT ![u] = Len(users) + 1]
                       /\ users' = Append(users, u)
                    \/ /\ u \notin Open
                       /\ \E i \in Holes : /\ \A j \in Holes : i <= j
                                           /\ index' = [index EXCEPT ![u] = i]
                                           /\ users' = [users EXCEPT ![i] = u]

\* getQueueUnderRlock with the lock it traded the read lock for: whether the
\* queue has stopped is not asked again.
Upgrade(r) == /\ client[r] = "upgrade"
              /\ getOrAddQueue(UserOf[r]) /\ Push(r, tries[r])
              /\ UNCHANGED <<cancelled, last, batch, faults>>

\* The select of RoundTrip and the loop of retryWare: an error or a 5xx is
\* tried again.
Receive(r) == /\ client[r] = "wait" /\ answer[r] # "none"
              /\ \/ /\ answer[r] = "ok" \/ r \in cancelled \/ tries[r] + 1 >= MaxRetries
                    /\ Return(r)
                    /\ UNCHANGED <<queueVars, service, stream>>
                 \/ /\ answer[r] = "fail" /\ r \notin cancelled /\ tries[r] + 1 < MaxRetries
                    /\ EnqueueRequest(r, tries[r] + 1)
              /\ UNCHANGED <<cancelled, last, batch, faults>>

GiveUp(r) == /\ client[r] = "wait" /\ r \in cancelled
             /\ Return(r)
             /\ UNCHANGED <<queueVars, service, cancelled, stream, last, batch, faults>>

-----------------------------------------------------------------------------
(* The streams: Frontend.Process. *)

\* processQueriesOnSingleStream connects again and again; Process starts with
\* the first user.
Connect(s) == /\ stream[s] = "off"
              /\ stream' = [stream EXCEPT ![s] = "ask"]
              /\ last' = [last EXCEPT ![s] = 0]
              /\ UNCHANGED <<queueVars, service, clientVars, batch, lost, faults>>

\* Mutant: every search starts with the first user.
SpotFromFirst(l, k) == k + 1

\* The k-th spot that getNextQueueForQuerier looks at.
Spot(l, k) == LET first == IF l >= Len(users) THEN 1 ELSE l + 1
              IN  IF first + k > Len(users) THEN first + k - Len(users) ELSE first + k

Nonempty(i) == users[i] # NoUser /\ queued[users[i]] # <<>>

\* getNextQueueForQuerier finds a queue at the k-th spot.
getNextQueue(l, k) == /\ k \in 0 .. Len(users) - 1 /\ Nonempty(Spot(l, k))
                      /\ \A m \in 0 .. k - 1 : ~Nonempty(Spot(l, m))

\* The weight of the first n jobs; a retried one is heavier.
BatchWeight(q, n) == LET W[i \in 0 .. n] == IF i = 0 THEN 0
                                            ELSE W[i - 1] + Weight[q[i]] + tries[q[i]]
                     IN  W[n]

\* getBatchBuffer: how many jobs a stream takes of the queue q.
getBatchBuffer(q, n) == /\ n \in 1 .. Len(q) /\ n <= MaxBatchSize
                        /\ n < Len(q) /\ n < MaxBatchSize => BatchWeight(q, n) >= MaxBatchSize
                        /\ \A m \in 1 .. n - 1 : BatchWeight(q, m) < MaxBatchSize

\* GetNextRequestForQuerier without a job: the stream ends with the queue, or
\* waits for a broadcast.
Wait(s) == /\ stream[s] = "ask"
           /\ \/ /\ service = "stopped"
                 /\ stream' = [stream EXCEPT ![s] = "off"]
                 /\ UNCHANGED last
              \/ /\ service # "stopped" /\ Open = {}
                 /\ stream' = [stream EXCEPT ![s] = "cond"]
                 /\ UNCHANGED last
              \/ /\ service # "stopped" /\ Open # {} /\ \A i \in DOMAIN users : ~Nonempty(i)
                 /\ stream' = [stream EXCEPT ![s] = "cond"]
                 /\ last' = [last EXCEPT ![s] = Spot(last[s], Len(users) - 1)]
           /\ UNCHANGED <<queueVars, service, clientVars, batch, lost, faults>>

\* Mutant: one user too far back.
ReuseUserBefore(i) == i - 2

ReuseLastUser(i) == i - 1

\* GetNextRequestForQuerier takes n jobs of the k-th spot and Process leaves
\* out the expired ones; if all are, the user stays the next one.
Take(s, k, n) ==
    LET i == Spot(last[s], k)
        q == queued[users[i]]
        live == {q[j] : j \in 1 .. n} \ cancelled
    IN  /\ stream[s] = "ask" /\ service # "stopped"
        /\ getNextQueue(last[s], k) /\ getBatchBuffer(q, n)
        /\ queued' = [queued EXCEPT ![users[i]] = SubSeq(q, n + 1, Len(q))]
        /\ batch' = [batch EXCEPT ![s] = live]
        /\ stream' = [stream EXCEPT ![s] = IF live = {} THEN "ask" ELSE "sent"]
        /\ last' = [last EXCEPT ![s] = IF live = {} THEN ReuseLastUser(i) ELSE i]
        /\ UNCHANGED <<users, index, service, clientVars, lost, faults>>

\* requestBatch.add fails: Process ends and answers no job of the batch.
AddFails(s) == /\ stream[s] = "sent" /\ Fault
               /\ lost' = lost \cup {r \in batch[s] : client[r] = "wait"}
               /\ batch' = [batch EXCEPT ![s] = {}]
               /\ stream' = [stream EXCEPT ![s] = "off"]
               /\ UNCHANGED <<queueVars, service, clientVars, last>>

\* What the channels of the jobs that are still waited for hold then.
Answers(s, a) == answer' = [r \in Requests |-> IF r \in batch[s] /\ client[r] = "wait"
                                              THEN a[r] ELSE answer[r]]

\* Mutant: the batch is not cleared.
RespondKeeping(s, a) ==
                 /\ stream[s] = "sent"
                 /\ Answers(s, a)
                 /\ stream' = [stream EXCEPT ![s] = "ask"]
                 /\ UNCHANGED <<queueVars, service, client, cancelled, tries, last, batch, lost,
                                faults>>

\* runRequests of the querier, and reportResultsToPipeline.
Respond(s, a) == /\ stream[s] = "sent"
                 /\ Answers(s, a)
                 /\ batch' = [batch EXCEPT ![s] = {}]
                 /\ stream' = [stream EXCEPT ![s] = "ask"]
                 /\ UNCHANGED <<queueVars, service, client, cancelled, tries, last, lost, faults>>

\* Mutant: the stream is closed as soon as one job of the batch is cancelled.
AbandonAny(s) == /\ stream[s] = "sent" /\ batch[s] \cap cancelled # {}
                 /\ batch' = [batch EXCEPT ![s] = {}]
                 /\ stream' = [stream EXCEPT ![s] = "off"]
                 /\ UNCHANGED <<queueVars, service, clientVars, last, lost, faults>>

\* doneChan: all jobs of the batch are cancelled, and the stream is closed.
Abandon(s) == /\ stream[s] = "sent" /\ batch[s] \subseteq cancelled
              /\ batch' = [batch EXCEPT ![s] = {}]
              /\ stream' = [stream EXCEPT ![s] = "off"]
              /\ UNCHANGED <<queueVars, service, clientVars, last, lost, faults>>

\* The stream breaks: reportErrorToPipeline, or the end of a wait, which wakes
\* the others too.
Break(s) == /\ stream[s] # "off" /\ Fault
            /\ Answers(s, [r \in Requests |-> "fail"])
            /\ batch' = [batch EXCEPT ![s] = {}]
            /\ stream' = [(IF stream[s] = "cond" THEN Woken(stream) ELSE stream)
                             EXCEPT ![s] = "off"]
            /\ service' = IF stream[s] = "cond" /\ service = "waiting" THEN "stopping" ELSE service
            /\ UNCHANGED <<queueVars, client, cancelled, tries, last, lost>>

-----------------------------------------------------------------------------
(* The service. *)

Empties == {u \in Open : queued[u] = <<>>}

\* The list l without the free spots at its end has n spots.
Shrinks(l, n) == /\ n \in 0 .. Len(l) /\ (n > 0 => l[n] # NoUser)
                 /\ \A i \in n + 1 .. Len(l) : l[i] = NoUser

\* cleanupQueues, from the timer of the running service only.
cleanupQueues ==
    LET freed == [i \in DOMAIN users |-> IF users[i] \in Empties THEN NoUser ELSE users[i]] IN
    /\ service = "running" /\ Empties # {}
    /\ \E n \in 0 .. Len(users) : Shrinks(freed, n) /\ users' = SubSeq(freed, 1, n)
    /\ index' = [u \in Users |-> IF u \in Empties THEN 0 ELSE index[u]]
    /\ stream' = Woken(stream)
    /\ UNCHANGED <<queued, service, clientVars, last, batch, lost, faults>>

StopAsync == /\ service = "running"
             /\ service' = "stopping"
             /\ UNCHANGED <<queueVars, clientVars, stream, last, batch, lost, faults>>

\* RequestQueue.stopping waits until there are no queues.
stopping == /\ service = "stopping"
            /\ IF Open = {} THEN service' = "stopped" /\ stream' = Woken(stream)
               ELSE service' = "waiting" /\ UNCHANGED stream
            /\ UNCHANGED <<queueVars, clientVars, last, batch, lost, faults>>

-----------------------------------------------------------------------------
ClientStep(r) == Upgrade(r) \/ Receive(r) \/ GiveUp(r)

TakeStep(s) == \E k \in 0 .. Len(users) - 1, n \in 1 .. MaxBatchSize : Take(s, k, n)

StreamStep(s) == \/ Connect(s) \/ Wait(s) \/ TakeStep(s) \/ Abandon(s)
                 \/ \E a \in [Requests -> {"ok", "fail"}] : Respond(s, a)

Next == \/ \E r \in Requests : Submit(r) \/ Cancel(r) \/ ClientStep(r)
        \/ \E s \in Streams : StreamStep(s) \/ AddFails(s) \/ Break(s)
        \/ cleanupQueues \/ StopAsync \/ stopping

Spec == Init /\ [][Next]_vars

\* Goroutines that can run do, the queriers answer and connect again, and the
\* timer of the service ticks.
FairSpec == /\ Spec
            /\ \A r \in Requests : WF_vars(ClientStep(r))
            /\ \A s \in Streams : WF_vars(StreamStep(s))
            /\ WF_vars(cleanupQueues \/ stopping)

-----------------------------------------------------------------------------
\* Every variable has its type.
TypeOK == /\ users \in Seq(Users \cup {NoUser})
          /\ index \in [Users -> Nat]
          /\ queued \in [Users -> Seq(Requests)]
          /\ service \in {"running", "stopping", "waiting", "stopped"}
          /\ client \in [Requests -> {"idle", "upgrade", "wait"}]
          /\ cancelled \in SUBSET Requests
          /\ tries \in [Requests -> Nat]
          /\ answer \in [Requests -> {"none", "ok", "fail"}]
          /\ stream \in [Streams -> {"off", "ask", "cond", "sent"}]
          /\ last \in [Streams -> Nat]
          /\ batch \in [Streams -> SUBSET Requests]
          /\ lost \in SUBSET Requests
          /\ faults \in 0 .. MaxFaults

\* queues.users and userQueue.index agree: every tenant with a queue has one
\* spot and that spot names it, whatever was deleted and added in between, and
\* the list does not end with a free spot (deleteQueue, getOrAddQueue).
SpotsAgree == /\ \A u \in Users : index[u] # 0 => index[u] <= Len(users) /\ users[index[u]] = u
              /\ \A i \in DOMAIN users : users[i] # NoUser => index[users[i]] = i
              /\ users # <<>> => users[Len(users)] # NoUser

\* A job is in one place: once in the queue of its tenant or in the batch of
\* one stream, and while it is there nothing is in its channels, so that
\* reportErrorToPipeline and reportResultsToPipeline, which write to buffers of
\* one, never block a stream.
InOnePlace ==
    /\ \A u \in Users : \A i, j \in DOMAIN queued[u] :
         UserOf[queued[u][i]] = u /\ (queued[u][i] = queued[u][j] => i = j)
    /\ \A s, t \in Streams : s # t => batch[s] \cap batch[t] = {}
    /\ \A r \in Requests : Queued(r) => ~InBatch(r)
    /\ \A r \in Requests : Queued(r) \/ InBatch(r) => answer[r] = "none"

\* A job whose RoundTrip waits will hear of it: it is in a queue that the
\* streams can see or in a batch, or has its answer, or its client has gone,
\* or it was dropped with a batch that could not be sent.
Accounted == \A r \in Requests : client[r] = "wait" =>
                 \/ Queued(r) /\ UserOf[r] \in Open
                 \/ InBatch(r) \/ answer[r] # "none" \/ r \in cancelled \/ r \in lost

\* No stream sleeps while a job is queued: contextCond loses no wakeup.
NoLostWakeup == \A s \in Streams : stream[s] = "cond" => \A u \in Users : queued[u] = <<>>

\* Every job of a tenant is answered, however many jobs the other tenants have
\* queued before and after it (getNextQueueForQuerier), unless it was dropped
\* with its batch or the queue has stopped.
EveryJobAnswered == \A r \in Requests :
    client[r] = "wait" ~> client[r] # "wait" \/ r \in lost \/ service = "stopped"

\* The comments of queueCleanupPeriod and stopping: the queue stops when it is
\* asked to, once the clients have their answers and come with nothing new.
StopCompletes == <>[](\A r \in Requests : client[r] = "idle") /\ <>(service # "running")
                     => <>(service = "stopped")
=============================================================================
