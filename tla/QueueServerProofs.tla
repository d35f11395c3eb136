-------------------------- MODULE QueueServerProofs --------------------------
(***************************************************************************)
(* Proofs about QueueServer, for any processes, threads, boxes, names and  *)
(* bounds.                                                                 *)
(*                                                                         *)
(* First the queues: types, their servers, their order.  Then the calls    *)
(* that go through them: a client is woken by its reply and, as long as    *)
(* the counter of requests has not come back to a number, gets the reply   *)
(* to its own request, no request is left behind and a request that is     *)
(* served is not lost.                                                     *)
(***************************************************************************)
EXTENDS QueueServer, SequenceTheorems, TLAPS

USE ProcessAssumption, NameAssumption, BoundAssumption

-----------------------------------------------------------------------------
(* Types *)

\* A thread that waits, collects or serves has a queue and a request, and one
\* that is in the loop of a callback belongs to a proxy, whose queue it serves.
ThreadsOK ==
    \A p \in Pids, t \in Threads :
        LET th == thread[p][t]
        IN  /\ th.at \in {"wait", "woken", "serve"} =>
                   th.name \in QueueNames /\ th.data # 0
            /\ th.at \in {"check", "serve"} => serves[p] \in QueueNames
            /\ th.at = "serve" => th.name = serves[p]

\* The mark of a process without a queue is no name of a queue.
LEMMA NoNameIsNone == NoName \notin QueueNames
BY DEF QueueNames, Names

\* What DeleteRequestObj leaves is a list of the same kind, one shorter, and
\* keeps the order of the others.
LEMMA DeleteKeeps ==
    ASSUME NEW S, NEW s \in Seq(S), NEW i \in 1 .. Len(s)
    PROVE  LET d == DeleteRequestObj(s, i)
           IN  /\ d \in Seq(S)
               /\ Len(d) = Len(s) - 1
               /\ \A j \in 1 .. Len(d) : d[j] = IF j < i THEN s[j] ELSE s[j + 1]
<1> DEFINE d == DeleteRequestObj(s, i)
<1>1. Len(s) \in Nat /\ \A j \in 1 .. Len(s) : s[j] \in S
  BY ElementOfSeq, LenProperties
<1>2. Len(s) - 1 \in Nat /\ d \in [1 .. Len(s) - 1 -> S]
  BY <1>1 DEF DeleteRequestObj
<1>3. d \in Seq(S)
  BY <1>2, SeqDef
<1>4. Len(d) = Len(s) - 1
  BY <1>2, <1>3, LenProperties
<1> QED
  BY <1>3, <1>4 DEF DeleteRequestObj

\* A new list of requests for one queue keeps the type of all.
LEMMA SetRequestsType ==
    ASSUME m_queues \in [QueueNames -> QueueType],
           NEW q \in QueueNames, NEW r \in Seq(RequestType)
    PROVE  SetRequests(q, r) \in [QueueNames -> QueueType]
<1>1. [m_queues[q] EXCEPT !.requests = r] \in QueueType
  BY DEF QueueType
<1> QED
  BY <1>1 DEF SetRequests

\* The threads' constructors build threads.
LEMMA ThreadTypes ==
    ASSUME NEW s \in Statuses, NEW d \in 0 .. MaxRequests, NEW r \in 0 .. MaxRequests
    PROVE  /\ Idle(s) \in ThreadType
           /\ Done(d, r, s) \in ThreadType
           /\ Checking(s) \in ThreadType
           /\ AfterReply(s) \in ThreadType
BY DEF Idle, Done, Checking, AfterReply, Thread, ThreadType

\* Replacing one thread keeps the type of all.
LEMMA SetThreadType ==
    ASSUME thread \in [Pids -> [Threads -> ThreadType]],
           NEW p \in Pids, NEW t \in Threads, NEW th \in ThreadType
    PROVE  [thread EXCEPT ![p][t] = th] \in [Pids -> [Threads -> ThreadType]]
OBVIOUS

\* The name that a caller may use is the name of a queue.
LEMMA NameType ==
    ASSUME TypeOK, NEW p \in Pids, NEW n \in Names
    PROVE  MakeQueueName(p, n) \in QueueNames
BY DEF TypeOK, MakeQueueName, QueueNames, Names

\* A queue that is found has its type, and so has the record of none.
LEMMA FindType ==
    ASSUME TypeOK, NEW q \in QueueNames
    PROVE  /\ NoQueue \in QueueType
           /\ FindQueueObj(q) \in QueueType
           /\ FindQueueObj(q).requests \in Seq(RequestType)
<1>1. NoQueue \in QueueType
  BY EmptySeq DEF NoQueue, QueueType
<1>2. m_queues[q] \in QueueType
  BY DEF TypeOK
<1>3. FindQueueObj(q) \in QueueType
  BY <1>1, <1>2 DEF FindQueueObj
<1> QED
  BY <1>1, <1>3 DEF QueueType

\* The next number is neither 0 nor below the last one; the counter behind it
\* skips 0 and -1.
LEMMA NextNumber ==
    ASSUME TypeOK
    PROVE  /\ Incremented = m_RequestId + 1
           /\ Incremented \in 2 .. IdMod - 1
           /\ SkipReserved(Incremented) \in 1 .. IdMod - 2
<1>1. m_RequestId \in Nat /\ m_RequestId + 1 < IdMod /\ m_RequestId >= 1
  BY DEF TypeOK
<1>2. (m_RequestId + 1) % IdMod = m_RequestId + 1
  BY <1>1
<1> QED
  BY <1>1, <1>2 DEF Incremented, SkipReserved

\* What a handler answers that finds no queue of the caller or no request.
LEMMA RefusalType ==
    ASSUME NEW p, NEW q
    PROVE  Refusal(p, q) \in Statuses
BY DEF Refusal, Statuses

\* Initially every variable has its type.
LEMMA InitType == Init => TypeOK
<1> SUFFICES ASSUME Init PROVE TypeOK
  OBVIOUS
<1>1. NoQueue \in QueueType
  BY EmptySeq DEF NoQueue, QueueType
<1>2. Idle("SUCCESS") \in ThreadType
  BY DEF Idle, Thread, ThreadType, Statuses
<1> QED
  BY <1>1, <1>2 DEF Init, TypeOK

\* What a handler that hands out a request reads of it.
LEMMA RequestAt ==
    ASSUME TypeOK, NEW q \in QueueNames,
           NEW i \in 1 .. Len(FindQueueObj(q).requests)
    PROVE  /\ FindQueueObj(q).requests[i] \in RequestType
           /\ ServerProcessIsActive(q)
           /\ FindQueueObj(q) = m_queues[q]
<1>1. FindQueueObj(q).requests[i] \in RequestType
  BY FindType, ElementOfSeq
<1>2. Len(<< >>) = 0
  OBVIOUS
<1>3. ServerProcessIsActive(q)
  BY <1>2 DEF FindQueueObj, NoQueue
<1> QED
  BY <1>1, <1>3 DEF FindQueueObj

\* Every handler and every step of a process keeps the types.
LEMMA TypeStep == TypeOK /\ ThreadsOK /\ [Next]_vars => TypeOK'
<1> SUFFICES ASSUME TypeOK, ThreadsOK, [Next]_vars PROVE TypeOK'
  OBVIOUS
<1> USE DEF AllocFails, AllocSucceeds
<1>t. \A s \in Statuses : Idle(s) \in ThreadType /\ AfterReply(s) \in ThreadType
  BY ThreadTypes
<1>s. \A p \in Pids, t \in Threads : thread[p][t] \in ThreadType
  BY DEF TypeOK
<1>1. ASSUME NEW p \in Pids, NEW b \in Boxes \cup {NoBox}, Start(p, b)
      PROVE  TypeOK'
  BY <1>1 DEF Start, TypeOK
<1>2. ASSUME NEW p \in Pids, Exit(p)
      PROVE  TypeOK'
  BY <1>2, <1>t DEF Exit, TypeOK, Statuses
<1>3. ASSUME NEW p \in Pids, NEW n \in Names, CreateHandler(p, n)
      PROVE  TypeOK'
  <2> DEFINE q == MakeQueueName(p, n)
             new == [server_pid |-> p, server_create_time |-> proc[p].born,
                     requests |-> << >>]
  <2>1. q \in QueueNames /\ FindQueueObj(q) \in QueueType
    BY NameType, FindType
  <2>2. new \in QueueType
    BY EmptySeq DEF QueueType, TypeOK
  <2>3. CASE CreateQueueObj(p, q)
    BY <1>3, <2>1, <2>2, <2>3 DEF CreateHandler, CreateQueueObj, TypeOK
  <2>4. CASE CreateNoMemory(q)
    BY <1>3, <2>1, <2>4 DEF CreateHandler, CreateNoMemory, TypeOK
  <2>5. CASE UNCHANGED <<m_queues, serves, failures>>
    BY <1>3, <2>5 DEF CreateHandler, TypeOK
  <2> QED
    BY <1>3, <2>3, <2>4, <2>5 DEF CreateHandler
<1>4. ASSUME NEW p \in Pids, NEW t \in Threads, NEW n \in Names,
             PutReqRefused(p, t, n)
      PROVE  TypeOK'
  <2>1. MakeQueueName(p, n) \in QueueNames /\ NoQueue \in QueueType
    BY NameType, FindType
  <2>2. CASE PutReqDenied(p, t, n)
    BY <1>4, <1>t, <2>2 DEF PutReqRefused, PutReqDenied, TypeOK, Statuses
  <2>3. CASE PutReqNotFound(p, t, n)
    BY <1>4, <1>t, <2>1, <2>3 DEF PutReqRefused, PutReqNotFound, TypeOK, Statuses
  <2>4. CASE PutReqNoMemory(p, t, n)
    BY <1>4, <1>t, <2>4 DEF PutReqRefused, PutReqNoMemory, TypeOK, Statuses
  <2> QED
    BY <1>4, <2>2, <2>3, <2>4 DEF PutReqRefused
<1>5. ASSUME NEW p \in Pids, NEW t \in Threads, NEW n \in Names,
             PutReqHandler(p, t, n)
      PROVE  TypeOK'
  <2> DEFINE q == MakeQueueName(p, n)
             r == Request(p, Incremented, sent + 1)
             th == Waiting(p, q, Incremented, sent + 1)
  <2>1. q \in QueueNames /\ sent + 1 \in 1 .. MaxRequests
    BY <1>5, NameType DEF PutReqHandler, CanPut, TypeOK
  <2>2. r \in RequestType
    BY <2>1, NextNumber DEF Request, RequestType, EventOf, SvcEvent
  <2>3. Append(m_queues[q].requests, r) \in Seq(RequestType)
    BY <2>1, <2>2, AppendProperties DEF TypeOK, QueueType
  <2>4. m_queues' \in [QueueNames -> QueueType]
    BY <1>5, <2>1, <2>3, SetRequestsType DEF PutReqHandler, TypeOK
  <2>5. th \in ThreadType
    BY <2>1, NextNumber DEF Waiting, Thread, ThreadType, Statuses
  <2>6. thread' \in [Pids -> [Threads -> ThreadType]]
    BY <1>5, <2>5, SetThreadType DEF PutReqHandler, TypeOK
  <2>7. queue_event' \subseteq Pids
    BY <1>5, <2>1 DEF PutReqHandler, ServerSignalled, TypeOK, QueueType
  <2>8. m_RequestId' \in 1 .. IdMod - 2
    BY <1>5, NextNumber DEF PutReqHandler
  <2> QED
    BY <1>5, <2>1, <2>4, <2>6, <2>7, <2>8 DEF PutReqHandler, TypeOK
<1>6. ASSUME NEW p \in Pids, NEW t \in Threads, NEW n \in Names,
             PutReqNoReply(p, t, n)
      PROVE  TypeOK'
  BY <1>6, <1>t, NextNumber DEF PutReqNoReply, CanPut, TypeOK, Statuses
<1>7. ASSUME NEW p \in Pids, NEW t \in Threads, Wake(p, t)
      PROVE  TypeOK'
  <2>1. [thread[p][t] EXCEPT !.at = "woken"] \in ThreadType
    BY <1>s DEF ThreadType
  <2>2. thread' = [thread EXCEPT ![p][t] = [thread[p][t] EXCEPT !.at = "woken"]]
    BY <1>7 DEF Wake, TypeOK
  <2>3. thread' \in [Pids -> [Threads -> ThreadType]]
    BY <2>1, <2>2, SetThreadType DEF TypeOK
  <2> QED
    BY <1>7, <2>3 DEF Wake, TypeOK
<1>8. ASSUME NEW p \in Pids, NEW t \in Threads, Timeout(p, t)
      PROVE  TypeOK'
  BY <1>8, <1>t DEF Timeout, TypeOK, Statuses
<1>9. ASSUME NEW p \in Pids, NEW t \in Threads, GetRplHandler(p, t)
      PROVE  TypeOK'
  <2> DEFINE q == thread[p][t].name
  <2>1. q \in QueueNames /\ NoQueue \in QueueType /\ thread[p][t].data \in 0 .. MaxRequests
    BY <1>9, <1>s, FindType DEF GetRplHandler, ThreadsOK, ThreadType
  <2>2. \A d \in 0 .. MaxRequests, s \in Statuses :
           Return(p, t, d, s) => thread' \in [Pids -> [Threads -> ThreadType]]
    BY <2>1, ThreadTypes, SetThreadType DEF Return, TypeOK
  <2>3. CASE GetRplNotFound(p, t)
    BY <1>9, <2>1, <2>2, <2>3 DEF GetRplHandler, GetRplNotFound, TypeOK, Statuses
  <2>4. CASE GetRplNoRequest(p, t)
    BY <1>9, <2>2, <2>4 DEF GetRplHandler, GetRplNoRequest, TypeOK, Statuses
  <2>5. ASSUME NEW i \in Mine(p, t), GetRplDenied(p, t, i)
        PROVE  TypeOK'
    BY <1>9, <2>2, <2>5 DEF GetRplHandler, GetRplDenied, TypeOK, Statuses
  <2>6. ASSUME NEW i \in Mine(p, t), GetRplNoMemory(p, t, i)
        PROVE  TypeOK'
    BY <1>9, <2>2, <2>6 DEF GetRplHandler, GetRplNoMemory, TypeOK, Statuses
  <2>7. ASSUME NEW i \in Mine(p, t), GetRplTake(p, t, i)
        PROVE  TypeOK'
    <3>1. i \in 1 .. Len(Found(p, t)) /\ Found(p, t) \in Seq(RequestType)
      BY <2>1, FindType DEF Mine, Found, WithId
    <3>2. DeleteRequestObj(Found(p, t), i) \in Seq(RequestType)
      BY <3>1, DeleteKeeps
    <3>3. Found(p, t)[i].rpl \in 0 .. MaxRequests
      BY <2>1, <3>1, RequestAt DEF Found, RequestType
    <3>4. m_queues' \in [QueueNames -> QueueType]
      BY <2>1, <2>7, <3>2, SetRequestsType DEF GetRplTake, TypeOK
    <3>5. thread' \in [Pids -> [Threads -> ThreadType]]
      BY <2>2, <2>7, <3>3 DEF GetRplTake, Statuses
    <3> QED
      BY <1>9, <2>7, <3>4, <3>5 DEF GetRplHandler, GetRplTake, TypeOK
  <2> QED
    BY <1>9, <2>3, <2>4, <2>5, <2>6, <2>7 DEF GetRplHandler
<1>10. ASSUME NEW p \in Pids, NEW t \in Threads, QueueCallback(p, t)
       PROVE  TypeOK'
  <2>1. Checking("SUCCESS") \in ThreadType
    BY ThreadTypes DEF Statuses
  <2> QED
    BY <1>10, <2>1 DEF QueueCallback, TypeOK
<1>11. ASSUME NEW p \in Pids, NEW t \in Threads, GetReqHandler(p, t)
       PROVE  TypeOK'
  <2> DEFINE q == serves[p]
             reqs == FindQueueObj(q).requests
  <2>1. q \in QueueNames /\ FindQueueObj(q) \in QueueType
    BY <1>11, FindType DEF GetReqHandler, ThreadsOK
  <2>2. CASE GetReqNothing(p, t)
    BY <1>11, <1>t, <2>1, <2>2, RefusalType DEF GetReqHandler, GetReqNothing, TypeOK, Statuses
  <2>3. ASSUME NEW i \in Open(p), GetReqTake(p, t, i)
        PROVE  TypeOK'
    <3>1. i \in 1 .. Len(reqs) /\ reqs \in Seq(RequestType)
      BY <2>1, FindType DEF Open, Unfetched
    <3>2. reqs[i] \in RequestType
      BY <2>1, <3>1, RequestAt
    <3>3. [reqs[i] EXCEPT !.fetched = TRUE] \in RequestType
      BY <3>2 DEF RequestType
    <3>4. [reqs EXCEPT ![i].fetched = TRUE] \in Seq(RequestType)
      BY <3>1, <3>3, ExceptSeq
    <3>5. Serving(q, reqs[i]) \in ThreadType
      BY <2>1, <3>2 DEF Serving, Thread, ThreadType, RequestType, Statuses
    <3>6. m_queues' \in [QueueNames -> QueueType]
      BY <2>1, <2>3, <3>4, SetRequestsType DEF GetReqTake, TypeOK
    <3>7. thread' \in [Pids -> [Threads -> ThreadType]]
      BY <2>3, <3>5, SetThreadType DEF GetReqTake, TypeOK
    <3> QED
      BY <1>11, <2>3, <3>6, <3>7 DEF GetReqHandler, GetReqTake, TypeOK
  <2>4. CASE GetReqNoMemory(p, t)
    BY <1>11, <1>t, <2>4 DEF GetReqHandler, GetReqNoMemory, TypeOK, Statuses
  <2> QED
    BY <1>11, <2>2, <2>3, <2>4 DEF GetReqHandler
<1>12. ASSUME NEW p \in Pids, NEW t \in Threads, PutRplHandler(p, t)
       PROVE  TypeOK'
  <2> DEFINE q == thread[p][t].name
  <2>1. q \in QueueNames /\ FindQueueObj(q) \in QueueType
    BY <1>12, FindType DEF PutRplHandler, ThreadsOK
  <2>2. CASE PutRplNothing(p, t)
    BY <1>12, <1>t, <2>1, <2>2, RefusalType DEF PutRplHandler, PutRplNothing, TypeOK, Statuses
  <2>3. ASSUME NEW i \in Mine(p, t)
        PROVE  /\ i \in 1 .. Len(Found(p, t)) /\ Found(p, t) \in Seq(RequestType)
               /\ Found(p, t)[i] \in RequestType
    BY <2>1, FindType, RequestAt DEF Mine, Found, WithId
  <2>4. ASSUME NEW i \in Mine(p, t), PutRplStore(p, t, i)
        PROVE  TypeOK'
    <3>1. thread[p][t].data \in 0 .. MaxRequests
      BY <1>s DEF ThreadType
    <3>2. [Found(p, t)[i] EXCEPT !.rpl = thread[p][t].data] \in RequestType
      BY <2>3, <3>1 DEF RequestType
    <3>3. [Found(p, t) EXCEPT ![i].rpl = thread[p][t].data] \in Seq(RequestType)
      BY <2>3, <3>2, ExceptSeq
    <3>4. m_queues' \in [QueueNames -> QueueType]
      BY <2>1, <2>4, <3>3, SetRequestsType DEF PutRplStore, TypeOK
    <3>5. signalled' \subseteq 0 .. MaxRequests
      BY <2>3, <2>4 DEF PutRplStore, ClientSignalled, RequestType, TypeOK
    <3> QED
      BY <1>12, <1>t, <2>4, <3>4, <3>5 DEF PutRplHandler, PutRplStore, TypeOK, Statuses
  <2>5. ASSUME NEW i \in Mine(p, t), PutRplDrop(p, t, i)
        PROVE  TypeOK'
    <3>1. DeleteRequestObj(Found(p, t), i) \in Seq(RequestType)
      BY <2>3, DeleteKeeps
    <3>2. m_queues' \in [QueueNames -> QueueType]
      BY <2>1, <2>5, <3>1, SetRequestsType DEF PutRplDrop, TypeOK
    <3> QED
      BY <1>12, <1>t, <2>5, <3>2 DEF PutRplHandler, PutRplDrop, TypeOK, Statuses
  <2> QED
    BY <1>12, <2>2, <2>4, <2>5 DEF PutRplHandler
<1>13. CASE UNCHANGED vars
  BY <1>13 DEF vars, TypeOK
<1> QED
  BY <1>1, <1>2, <1>3, <1>4, <1>5, <1>6, <1>7, <1>8, <1>9, <1>10, <1>11, <1>12,
     <1>13 DEF Next

\* In what a thread does next, only Serving and Waiting name a queue.
LEMMA ThreadFields ==
    ASSUME NEW s \in Statuses, NEW d, NEW r, NEW p, NEW q, NEW id, NEW rq
    PROVE  /\ Idle(s).at = "idle" /\ Idle(s).reply = 0
           /\ Done(d, r, s).at = "idle" /\ Done(d, r, s).reply = r
           /\ Done(d, r, s).data = d
           /\ Checking(s).at = "check" /\ Checking(s).reply = 0
           /\ AfterReply(s).at \in {"idle", "check"} /\ AfterReply(s).reply = 0
           /\ Waiting(p, q, id, d).at = "wait" /\ Waiting(p, q, id, d).name = q
           /\ Waiting(p, q, id, d).data = d /\ Waiting(p, q, id, d).id = id
           /\ Waiting(p, q, id, d).reply = 0
           /\ Serving(q, rq).at = "serve" /\ Serving(q, rq).name = q
           /\ Serving(q, rq).data = rq.data /\ Serving(q, rq).id = rq.request_id
           /\ Serving(q, rq).reply = 0
BY DEF Idle, Done, Checking, AfterReply, Waiting, Serving, Thread

\* A step that replaces one thread, by one that names the right queue if any,
\* and changes no process's queue, keeps ThreadsOK.
LEMMA ThreadsKept ==
    ASSUME TypeOK, ThreadsOK, UNCHANGED serves,
           NEW p \in Pids, NEW t \in Threads, NEW th,
           thread' = [thread EXCEPT ![p][t] = th],
           th.at \in {"wait", "woken", "serve"} => th.name \in QueueNames /\ th.data # 0,
           th.at \in {"check", "serve"} => serves[p] \in QueueNames,
           th.at = "serve" => th.name = serves[p]
    PROVE  ThreadsOK'
BY DEF TypeOK, ThreadsOK

\* Every step leaves each thread with what its place in the code needs.
LEMMA ThreadsStep == TypeOK /\ ThreadsOK /\ [Next]_vars => ThreadsOK'
<1> SUFFICES ASSUME TypeOK, ThreadsOK, [Next]_vars PROVE ThreadsOK'
  OBVIOUS
<1>t. \A s \in Statuses : /\ Idle(s).at = "idle"
                          /\ AfterReply(s).at \in {"idle", "check"}
  BY ThreadFields
<1>1. ASSUME NEW p \in Pids, NEW b \in Boxes \cup {NoBox}, Start(p, b)
      PROVE  ThreadsOK'
  BY <1>1 DEF Start, ThreadsOK
<1>2. ASSUME NEW p \in Pids, Exit(p)
      PROVE  ThreadsOK'
  BY <1>2, <1>t DEF Exit, ThreadsOK, TypeOK, Statuses
<1>3. ASSUME NEW p \in Pids, NEW n \in Names, CreateHandler(p, n)
      PROVE  ThreadsOK'
  <2>1. /\ UNCHANGED thread
        /\ \A t \in Threads : thread[p][t].at = "idle"
    BY <1>3 DEF CreateHandler
  <2>2. \A r \in Pids : serves'[r] = serves[r] \/ r = p
    BY <1>3 DEF CreateHandler, CreateQueueObj, CreateNoMemory, TypeOK
  <2> QED
    BY <2>1, <2>2 DEF ThreadsOK
<1>4. ASSUME NEW p \in Pids, NEW t \in Threads, NEW n \in Names,
             PutReqRefused(p, t, n)
      PROVE  ThreadsOK'
  <2>1. UNCHANGED serves /\ \E s \in Statuses : thread' = [thread EXCEPT ![p][t] = Idle(s)]
    BY <1>4 DEF PutReqRefused, PutReqDenied, PutReqNotFound, PutReqNoMemory, Statuses
  <2> QED
    BY <1>t, <2>1, ThreadsKept
<1>5. ASSUME NEW p \in Pids, NEW t \in Threads, NEW n \in Names,
             PutReqHandler(p, t, n)
      PROVE  ThreadsOK'
  <2> DEFINE th == Waiting(p, MakeQueueName(p, n), Incremented, sent + 1)
  <2>1. UNCHANGED serves /\ thread' = [thread EXCEPT ![p][t] = th]
    BY <1>5 DEF PutReqHandler
  <2>2. th.at = "wait" /\ th.name \in QueueNames /\ th.data = sent + 1
    BY NameType DEF Waiting, Thread
  <2>3. sent + 1 # 0
    BY DEF TypeOK
  <2> QED
    BY <2>1, <2>2, <2>3, ThreadsKept
<1>6. ASSUME NEW p \in Pids, NEW t \in Threads, NEW n \in Names,
             PutReqNoReply(p, t, n)
      PROVE  ThreadsOK'
  BY <1>6, <1>t, ThreadsKept DEF PutReqNoReply, Statuses
<1>7. ASSUME NEW p \in Pids, NEW t \in Threads, Wake(p, t)
      PROVE  ThreadsOK'
  <2> DEFINE th == [thread[p][t] EXCEPT !.at = "woken"]
  <2>1. thread[p][t] \in ThreadType
    BY DEF TypeOK
  <2>2. th.at = "woken" /\ th.name = thread[p][t].name /\ th.data = thread[p][t].data
    BY <2>1 DEF ThreadType
  <2>3. thread' = [thread EXCEPT ![p][t] = th] /\ UNCHANGED serves
    BY <1>7 DEF Wake, TypeOK
  <2>4. th.name \in QueueNames /\ th.data # 0
    BY <1>7, <2>2 DEF Wake, ThreadsOK
  <2> QED
    BY <2>2, <2>3, <2>4, ThreadsKept
<1>8. ASSUME NEW p \in Pids, NEW t \in Threads, Timeout(p, t)
      PROVE  ThreadsOK'
  BY <1>8, <1>t, ThreadsKept DEF Timeout, Statuses
<1>9. ASSUME NEW p \in Pids, NEW t \in Threads, GetRplHandler(p, t)
      PROVE  ThreadsOK'
  <2>1. UNCHANGED serves
    BY <1>9 DEF GetRplHandler
  <2>2. ASSUME NEW d, NEW s, Return(p, t, d, s)
        PROVE  ThreadsOK'
    BY <2>1, <2>2, ThreadsKept DEF Return, Done, Thread
  <2> QED
    BY <1>9, <2>2 DEF GetRplHandler, GetRplNotFound, GetRplNoRequest, GetRplDenied,
                      GetRplNoMemory, GetRplTake
<1>10. ASSUME NEW p \in Pids, NEW t \in Threads, QueueCallback(p, t)
       PROVE  ThreadsOK'
  <2>1. Checking("SUCCESS").at = "check"
    BY DEF Checking, Thread
  <2>2. serves[p] \in QueueNames
    BY <1>10 DEF QueueCallback, TypeOK
  <2> QED
    BY <1>10, <2>1, <2>2, ThreadsKept DEF QueueCallback
<1>11. ASSUME NEW p \in Pids, NEW t \in Threads, GetReqHandler(p, t)
       PROVE  ThreadsOK'
  <2>1. serves[p] \in QueueNames /\ UNCHANGED serves
    BY <1>11 DEF GetReqHandler, ThreadsOK
  <2>2. CASE GetReqNothing(p, t)
    BY <2>1, <2>2, <1>t, ThreadsKept, RefusalType DEF GetReqNothing, Statuses
  <2>3. ASSUME NEW i \in Open(p), GetReqTake(p, t, i)
        PROVE  ThreadsOK'
    <3> DEFINE r == FindQueueObj(serves[p]).requests[i]
    <3>1. r.data # 0
      BY <2>1, RequestAt DEF Open, Unfetched, RequestType
    <3>2. /\ Serving(serves[p], r).at = "serve"
          /\ Serving(serves[p], r).name = serves[p]
          /\ Serving(serves[p], r).data = r.data
      BY DEF Serving, Thread
    <3> QED
      BY <2>1, <2>3, <3>1, <3>2, ThreadsKept DEF GetReqTake
  <2>4. CASE GetReqNoMemory(p, t)
    BY <2>1, <2>4, <1>t, ThreadsKept DEF GetReqNoMemory, Statuses
  <2> QED
    BY <1>11, <2>2, <2>3, <2>4 DEF GetReqHandler
<1>12. ASSUME NEW p \in Pids, NEW t \in Threads, PutRplHandler(p, t)
       PROVE  ThreadsOK'
  <2>1. serves[p] \in QueueNames /\ UNCHANGED serves
    BY <1>12 DEF PutRplHandler, ThreadsOK
  <2>2. \E s \in Statuses : thread' = [thread EXCEPT ![p][t] = AfterReply(s)]
    BY <1>12, RefusalType DEF PutRplHandler, PutRplNothing, PutRplStore, PutRplDrop, Statuses
  <2> QED
    BY <1>t, <2>1, <2>2, ThreadsKept
<1>13. CASE UNCHANGED vars
  BY <1>13 DEF vars, ThreadsOK
<1> QED
  BY <1>1, <1>2, <1>3, <1>4, <1>5, <1>6, <1>7, <1>8, <1>9, <1>10, <1>11, <1>12,
     <1>13 DEF Next

\* Initially all threads are idle.
LEMMA InitThreads == Init => ThreadsOK
BY DEF Init, ThreadsOK, Idle, Thread

\* The variables always have their types: no request is ever numbered 0, the
\* counter skips 0 and -1, and what is stored in a queue is a request.
THEOREM TypeCorrect == Spec => []TypeOK
<1>1. Init => TypeOK /\ ThreadsOK
  BY InitType, InitThreads
<1>2. TypeOK /\ ThreadsOK /\ [Next]_vars => (TypeOK /\ ThreadsOK)'
  BY TypeStep, ThreadsStep
<1> QED
  BY <1>1, <1>2, PTL DEF Spec, Safety

-----------------------------------------------------------------------------
(* Queues and their servers *)

\* No queue and no process is younger than the latest start, so a process that
\* starts is not taken for the creator of an old queue; and a process serves
\* every queue that it is the active server of.
ServersOK ==
    /\ \A p \in Pids : proc[p].born <= starts
    /\ \A q \in QueueNames : m_queues[q].server_create_time <= starts
    /\ \A q \in QueueNames : ServerProcessIsActive(q) =>
                                serves[m_queues[q].server_pid] = q

Servers == ServersOK /\ ServerKeepsQueue /\ ServerBelongsToName

\* Most steps leave the processes alone, and each queue its server unless the
\* server is gone.
ServersKept ==
    /\ UNCHANGED <<proc, serves, starts>>
    /\ \A q \in QueueNames :
          \/ /\ m_queues'[q].server_pid = m_queues[q].server_pid
             /\ m_queues'[q].server_create_time = m_queues[q].server_create_time
          \/ ~ServerProcessIsActive(q) /\ m_queues'[q] = NoQueue

\* FindQueueObj deletes nothing but queues without a server.
LEMMA SweepKeeps ==
    ASSUME TypeOK, UNCHANGED <<proc, serves, starts>>, NEW q \in QueueNames,
           \/ m_queues' = [m_queues EXCEPT ![q] = FindQueueObj(q)]
           \/ ~ServerProcessIsActive(q) /\ m_queues' = [m_queues EXCEPT ![q] = NoQueue]
    PROVE  ServersKept
BY DEF TypeOK, FindQueueObj, ServersKept

\* Replacing the requests of a queue leaves its server alone.
LEMMA SetRequestsKeeps ==
    ASSUME TypeOK, UNCHANGED <<proc, serves, starts>>, NEW q \in QueueNames, NEW r,
           m_queues' = SetRequests(q, r)
    PROVE  ServersKept
<1>1. \A x \in QueueNames : m_queues[x] \in QueueType
  BY DEF TypeOK
<1> QED
  BY <1>1 DEF TypeOK, QueueType, SetRequests, ServersKept

\* A step that leaves servers alone keeps what is known of them.
LEMMA KeptKeeps == TypeOK /\ Servers /\ ServersKept => Servers'
<1> SUFFICES ASSUME TypeOK, Servers, ServersKept PROVE Servers'
  OBVIOUS
<1> USE DEF Servers, ServersKept, ServerProcessIsActive
<1>1. ServersOK'
  <2>1. \A q \in QueueNames : m_queues'[q].server_create_time <= starts'
    BY DEF ServersOK, NoQueue, TypeOK
  <2>2. \A q \in QueueNames : ServerProcessIsActive(q)' =>
                               serves'[m_queues'[q].server_pid] = q
    BY DEF ServersOK, NoQueue
  <2> QED
    BY <2>1, <2>2 DEF ServersOK
<1>2. ServerKeepsQueue'
  BY DEF ServerKeepsQueue, TypeOK
<1>3. ServerBelongsToName'
  BY DEF ServerBelongsToName
<1> QED
  BY <1>1, <1>2, <1>3

\* Every step keeps what is known of the servers.
LEMMA ServersStep == TypeOK /\ ThreadsOK /\ Servers /\ [Next]_vars => Servers'
<1> SUFFICES ASSUME TypeOK, ThreadsOK, Servers, [Next]_vars PROVE Servers'
  OBVIOUS
<1>1. ASSUME NEW p \in Pids, NEW b \in Boxes \cup {NoBox}, Start(p, b)
      PROVE  Servers'
  <2> USE DEF Servers, ServerProcessIsActive
  <2>1. starts \in Nat /\ \A r \in Pids : proc[r].born \in Nat
    BY DEF TypeOK
  <2>2. \A r \in Pids : proc'[r] = IF r = p THEN [born |-> starts + 1, box |-> b]
                                            ELSE proc[r]
    BY <1>1 DEF Start, TypeOK
  <2>3. UNCHANGED <<m_queues, serves>> /\ starts' = starts + 1 /\ proc[p].born = 0
    BY <1>1 DEF Start, Alive
  <2>4. \A q \in QueueNames : /\ m_queues[q].server_create_time \in Nat
                              /\ m_queues[q].server_pid \in Pids
    BY DEF TypeOK, QueueType
  <2>5. serves[p] = NoName
    BY <2>3 DEF ServerKeepsQueue
  <2>6. ServersOK'
    BY <2>1, <2>2, <2>3, <2>4 DEF ServersOK
  <2>7. ServerKeepsQueue'
    BY <2>2, <2>3, <2>5 DEF ServerKeepsQueue
  <2>8. ServerBelongsToName'
    BY <2>2, <2>3, <2>5 DEF ServerBelongsToName
  <2> QED
    BY <2>6, <2>7, <2>8
<1>2. ASSUME NEW p \in Pids, Exit(p)
      PROVE  Servers'
  <2> USE DEF Servers, ServerProcessIsActive
  <2>1. \A r \in Pids : /\ proc'[r] = IF r = p THEN [born |-> 0, box |-> NoBox]
                                              ELSE proc[r]
                        /\ serves'[r] = IF r = p THEN NoName ELSE serves[r]
    BY <1>2 DEF Exit, TypeOK
  <2>2. UNCHANGED <<m_queues, starts>> /\ starts \in Nat
    BY <1>2 DEF Exit, TypeOK
  <2>3. \A q \in QueueNames : m_queues[q].server_pid \in Pids
    BY DEF TypeOK, QueueType
  <2>4. ServersOK'
    BY <2>1, <2>2, <2>3 DEF ServersOK
  <2>5. ServerKeepsQueue'
    BY <2>1, <2>2 DEF ServerKeepsQueue
  <2>6. ServerBelongsToName'
    BY <2>1 DEF ServerBelongsToName
  <2> QED
    BY <2>4, <2>5, <2>6
<1>3. ASSUME NEW p \in Pids, NEW n \in Names, CreateHandler(p, n)
      PROVE  Servers'
  <2> DEFINE q == MakeQueueName(p, n)
  <2>1. q \in QueueNames
    BY NameType
  <2>2. UNCHANGED <<proc, starts>> /\ serves[p] = NoName /\ proc[p].born # 0
    BY <1>3 DEF CreateHandler, Alive
  <2>3. CASE CreateQueueObj(p, q) /\ ~Denied(p, n) /\ ~Collision(q)
    <3> USE DEF Servers, ServerProcessIsActive
    <3>1. \A x \in QueueNames : m_queues'[x] =
             IF x = q THEN [server_pid |-> p, server_create_time |-> proc[p].born,
                            requests |-> << >>]
                      ELSE m_queues[x]
      BY <2>1, <2>3 DEF CreateQueueObj, TypeOK
    <3>2. \A r \in Pids : serves'[r] = IF r = p THEN q ELSE serves[r]
      BY <2>3 DEF CreateQueueObj, TypeOK
    <3>3. \A r \in Pids : serves[r] # q
      BY <2>1, <2>3, NoNameIsNone DEF ServerKeepsQueue, Collision
    <3>4. \A x \in QueueNames : m_queues[x].server_pid \in Pids
      BY DEF TypeOK, QueueType
    <3>5. ServersOK'
      BY <2>1, <2>2, <3>1, <3>2, <3>4, NoNameIsNone DEF ServersOK
    <3>6. ServerKeepsQueue'
      BY <2>1, <2>2, <3>1, <3>2, <3>3 DEF ServerKeepsQueue, TypeOK
    <3>7. q[1] = proc[p].box
      BY <2>3 DEF MakeQueueName, Denied, Boxed
    <3>8. ServerBelongsToName'
      BY <2>2, <3>2, <3>7 DEF ServerBelongsToName
    <3> QED
      BY <3>5, <3>6, <3>8
  <2>4. CASE CreateNoMemory(q)
    BY <2>1, <2>2, <2>4, SweepKeeps, KeptKeeps DEF CreateNoMemory
  <2>5. CASE UNCHANGED <<m_queues, serves, failures>>
    BY <2>2, <2>5, KeptKeeps DEF ServersKept
  <2> QED
    BY <1>3, <2>3, <2>4, <2>5 DEF CreateHandler
<1>4. ASSUME NEW p \in Pids, NEW t \in Threads, NEW n \in Names,
             PutReqRefused(p, t, n)
      PROVE  Servers'
  <2>1. UNCHANGED <<proc, serves, starts>> /\ MakeQueueName(p, n) \in QueueNames
    BY <1>4, NameType DEF PutReqRefused
  <2>2. CASE PutReqNotFound(p, t, n)
    BY <2>1, <2>2, SweepKeeps, KeptKeeps DEF PutReqNotFound
  <2>3. CASE PutReqDenied(p, t, n) \/ PutReqNoMemory(p, t, n)
    BY <2>1, <2>3, KeptKeeps DEF PutReqDenied, PutReqNoMemory, ServersKept
  <2> QED
    BY <1>4, <2>2, <2>3 DEF PutReqRefused
<1>5. ASSUME NEW p \in Pids, NEW t \in Threads, NEW n \in Names,
             PutReqHandler(p, t, n)
      PROVE  Servers'
  BY <1>5, NameType, SetRequestsKeeps, KeptKeeps DEF PutReqHandler
<1>6. ASSUME NEW p \in Pids, NEW t \in Threads, NEW n \in Names,
             PutReqNoReply(p, t, n)
      PROVE  Servers'
  BY <1>6, KeptKeeps DEF PutReqNoReply, ServersKept
<1>7. ASSUME NEW p \in Pids, NEW t \in Threads,
             Wake(p, t) \/ Timeout(p, t) \/ QueueCallback(p, t)
      PROVE  Servers'
  BY <1>7, KeptKeeps DEF Wake, Timeout, QueueCallback, ServersKept
<1>8. ASSUME NEW p \in Pids, NEW t \in Threads, GetRplHandler(p, t)
      PROVE  Servers'
  <2>1. UNCHANGED <<proc, serves, starts>> /\ thread[p][t].name \in QueueNames
    BY <1>8 DEF GetRplHandler, ThreadsOK
  <2>2. CASE GetRplNotFound(p, t)
    BY <2>1, <2>2, SweepKeeps, KeptKeeps DEF GetRplNotFound
  <2>3. ASSUME NEW i, GetRplTake(p, t, i)
        PROVE  Servers'
    BY <2>1, <2>3, SetRequestsKeeps, KeptKeeps DEF GetRplTake
  <2>4. CASE UNCHANGED m_queues
    BY <2>1, <2>4, KeptKeeps DEF ServersKept
  <2> QED
    BY <1>8, <2>2, <2>3, <2>4 DEF GetRplHandler, GetRplNoRequest, GetRplDenied,
                                  GetRplNoMemory
<1>9. ASSUME NEW p \in Pids, NEW t \in Threads, GetReqHandler(p, t)
      PROVE  Servers'
  <2>1. UNCHANGED <<proc, serves, starts>> /\ serves[p] \in QueueNames
    BY <1>9 DEF GetReqHandler, ThreadsOK
  <2>2. CASE GetReqNothing(p, t)
    BY <2>1, <2>2, SweepKeeps, KeptKeeps DEF GetReqNothing
  <2>3. ASSUME NEW i, GetReqTake(p, t, i)
        PROVE  Servers'
    BY <2>1, <2>3, SetRequestsKeeps, KeptKeeps DEF GetReqTake
  <2>4. CASE GetReqNoMemory(p, t)
    BY <2>1, <2>4, KeptKeeps DEF GetReqNoMemory, ServersKept
  <2> QED
    BY <1>9, <2>2, <2>3, <2>4 DEF GetReqHandler
<1>10. ASSUME NEW p \in Pids, NEW t \in Threads, PutRplHandler(p, t)
       PROVE  Servers'
  <2>1. UNCHANGED <<proc, serves, starts>> /\ thread[p][t].name \in QueueNames
    BY <1>10 DEF PutRplHandler, ThreadsOK
  <2>2. CASE PutRplNothing(p, t)
    BY <2>1, <2>2, SweepKeeps, KeptKeeps DEF PutRplNothing
  <2>3. ASSUME NEW i, PutRplStore(p, t, i) \/ PutRplDrop(p, t, i)
        PROVE  Servers'
    BY <2>1, <2>3, SetRequestsKeeps, KeptKeeps DEF PutRplStore, PutRplDrop
  <2> QED
    BY <1>10, <2>2, <2>3 DEF PutRplHandler
<1>11. CASE UNCHANGED vars
  BY <1>11, KeptKeeps DEF vars, ServersKept
<1> QED
  BY <1>1, <1>2, <1>3, <1>4, <1>5, <1>6, <1>7, <1>8, <1>9, <1>10, <1>11 DEF Next

\* Initially there are no servers.
LEMMA InitServers == Init => Servers
<1> SUFFICES ASSUME Init PROVE Servers
  OBVIOUS
<1>1. \A q \in QueueNames : m_queues[q].server_create_time = 0
  BY DEF Init, NoQueue
<1>2. \A p \in Pids : proc[p].born \in {0, 1} /\ serves[p] = NoName
  BY DEF Init
<1>3. starts = 1
  BY DEF Init
<1> QED
  BY <1>1, <1>2, <1>3 DEF Servers, ServersOK, ServerKeepsQueue, ServerBelongsToName,
                          ServerProcessIsActive

\* A running proxy keeps the queue that it created, however many processes
\* end and start with the ids of others.
THEOREM ProxyKeepsQueue == Spec => []ServerKeepsQueue
<1>1. Init => TypeOK /\ ThreadsOK /\ Servers
  BY InitType, InitThreads, InitServers
<1>2. TypeOK /\ ThreadsOK /\ Servers /\ [Next]_vars => (TypeOK /\ ThreadsOK /\ Servers)'
  BY TypeStep, ThreadsStep, ServersStep
<1>3. Servers => ServerKeepsQueue
  BY DEF Servers
<1> QED
  BY <1>1, <1>2, <1>3, PTL DEF Spec, Safety

\* A queue with an asterisk is only ever served from outside the sandboxes, and
\* the queue of a sandbox from inside it.
THEOREM ProxyBelongsToName == Spec => []ServerBelongsToName
<1>1. Init => TypeOK /\ ThreadsOK /\ Servers
  BY InitType, InitThreads, InitServers
<1>2. TypeOK /\ ThreadsOK /\ Servers /\ [Next]_vars => (TypeOK /\ ThreadsOK /\ Servers)'
  BY TypeStep, ThreadsStep, ServersStep
<1>3. Servers => ServerBelongsToName
  BY DEF Servers
<1> QED
  BY <1>1, <1>2, <1>3, PTL DEF Spec, Safety

-----------------------------------------------------------------------------
(* The order of the requests *)

\* A list of requests, when n requests were numbered so far: it is in the
\* order in which the requests were put, what was fetched comes first, and only
\* that was answered.
GoodList(s, n) ==
    /\ \A i \in 1 .. Len(s) : /\ s[i].data <= n
                              /\ s[i].rpl # 0 => s[i].fetched
    /\ \A i, j \in 1 .. Len(s) : i < j => /\ s[i].data < s[j].data
                                          /\ s[j].fetched => s[i].fetched

\* The data of a request in a list is a number.
LEMMA RequestFields ==
    ASSUME NEW s \in Seq(RequestType), NEW i \in 1 .. Len(s)
    PROVE  s[i].data \in Nat
<1>1. s[i] \in RequestType
  BY ElementOfSeq
<1>2. s[i].data \in 1 .. MaxRequests
  BY <1>1 DEF RequestType
<1> QED
  BY <1>2

\* A good list stays good when more requests are numbered.
LEMMA GoodMore ==
    ASSUME NEW s \in Seq(RequestType), NEW n \in Nat, NEW m \in Nat, n <= m,
           GoodList(s, n)
    PROVE  GoodList(s, m)
<1>1. \A i \in 1 .. Len(s) : s[i].data \in Nat
  BY RequestFields
<1> QED
  BY <1>1 DEF GoodList

\* The empty list is good.
LEMMA GoodEmpty == ASSUME NEW n PROVE GoodList(<< >>, n)
BY DEF GoodList

\* PutReqHandler's append of the newest request keeps a list good.
LEMMA GoodAppend ==
    ASSUME NEW s \in Seq(RequestType), NEW n \in Nat, GoodList(s, n),
           NEW r \in RequestType, r.data = n + 1, ~r.fetched, r.rpl = 0
    PROVE  GoodList(Append(s, r), n + 1)
<1>1. \A i \in 1 .. Len(s) : s[i].data \in Nat
  BY RequestFields
<1>2. /\ Len(Append(s, r)) = Len(s) + 1 /\ Len(s) \in Nat
      /\ \A i \in 1 .. Len(s) : Append(s, r)[i] = s[i]
      /\ Append(s, r)[Len(s) + 1] = r
  BY AppendProperties, LenProperties
<1> DEFINE d == Append(s, r)
<1>3. \A i \in 1 .. Len(d) : \/ i \in 1 .. Len(s) /\ d[i] = s[i]
                             \/ i = Len(s) + 1 /\ d[i] = r
  BY <1>2
<1> HIDE DEF d
<1>4. \A i \in 1 .. Len(d) : /\ d[i].data <= n + 1
                             /\ d[i].rpl # 0 => d[i].fetched
  BY <1>1, <1>3 DEF GoodList
<1>5. ASSUME NEW i \in 1 .. Len(d), NEW j \in 1 .. Len(d), i < j
      PROVE  d[i].data < d[j].data /\ (d[j].fetched => d[i].fetched)
  <2>1. i \in 1 .. Len(s) /\ d[i] = s[i]
    BY <1>2, <1>3, <1>5
  <2>2. CASE j \in 1 .. Len(s) /\ d[j] = s[j]
    BY <1>5, <2>1, <2>2 DEF GoodList
  <2>3. CASE d[j] = r
    BY <1>1, <2>1, <2>3 DEF GoodList
  <2> QED
    BY <1>3, <2>2, <2>3
<1>6. GoodList(d, n + 1)
  BY <1>4, <1>5 DEF GoodList
<1> QED
  BY <1>6 DEF d

\* Deleting a request keeps a list good.
LEMMA GoodDelete ==
    ASSUME NEW s \in Seq(RequestType), NEW n \in Nat, GoodList(s, n),
           NEW i \in 1 .. Len(s)
    PROVE  GoodList(DeleteRequestObj(s, i), n)
<1> DEFINE d == DeleteRequestObj(s, i)
           old(j) == IF j < i THEN j ELSE j + 1
<1>1. Len(s) \in Nat /\ Len(d) = Len(s) - 1
  BY DeleteKeeps, LenProperties
<1>2. \A j \in 1 .. Len(d) : d[j] = s[old(j)] /\ old(j) \in 1 .. Len(s)
  BY <1>1, DeleteKeeps
<1>3. \A j, k \in 1 .. Len(d) : j < k => old(j) < old(k)
  BY <1>1
<1> HIDE DEF d, old
<1>4. GoodList(d, n)
  BY <1>2, <1>3 DEF GoodList
<1> QED
  BY <1>4 DEF d

\* Marking the first unfetched request as fetched keeps a list good.
LEMMA GoodFetch ==
    ASSUME NEW s \in Seq(RequestType), NEW n \in Nat, GoodList(s, n),
           NEW i, IsFirst(i, Unfetched(s))
    PROVE  GoodList([s EXCEPT ![i].fetched = TRUE], n)
<1> DEFINE d == [s EXCEPT ![i].fetched = TRUE]
<1>1. \A j \in 1 .. Len(s) : s[j] \in RequestType
  BY ElementOfSeq
<1>2. i \in 1 .. Len(s) /\ Len(s) \in Nat /\ \A j \in 1 .. Len(s) : j < i => s[j].fetched
  BY LenProperties DEF IsFirst, Unfetched
<1>3. Len(d) = Len(s) /\ \A j \in 1 .. Len(s) :
         d[j] = IF j = i THEN [s[i] EXCEPT !.fetched = TRUE] ELSE s[j]
  BY <1>2, LenProperties
<1>4. \A j \in 1 .. Len(s) :
         /\ d[j].data = s[j].data
         /\ d[j].rpl = s[j].rpl
         /\ j = i => d[j].fetched
         /\ j # i => d[j].fetched = s[j].fetched
  <2> TAKE j \in 1 .. Len(s)
  <2>1. CASE j = i
    BY <1>1, <1>2, <1>3, <2>1 DEF RequestType
  <2>2. CASE j # i
    BY <1>1, <1>3, <2>2 DEF RequestType
  <2> QED
    BY <2>1, <2>2
<1> HIDE DEF d
<1>5. GoodList(d, n)
  BY <1>2, <1>3, <1>4 DEF GoodList
<1> QED
  BY <1>5 DEF d

\* Storing a reply with a fetched request keeps a list good.
LEMMA GoodStore ==
    ASSUME NEW s \in Seq(RequestType), NEW n \in Nat, GoodList(s, n),
           NEW i \in 1 .. Len(s), s[i].fetched, NEW v
    PROVE  GoodList([s EXCEPT ![i].rpl = v], n)
<1> DEFINE d == [s EXCEPT ![i].rpl = v]
<1>1. \A j \in 1 .. Len(s) : s[j] \in RequestType
  BY ElementOfSeq
<1>3. Len(d) = Len(s) /\ \A j \in 1 .. Len(s) :
         d[j] = IF j = i THEN [s[i] EXCEPT !.rpl = v] ELSE s[j]
  BY LenProperties
<1>4. \A j \in 1 .. Len(s) :
         /\ d[j].data = s[j].data
         /\ d[j].rpl = (IF j = i THEN v ELSE s[j].rpl)
         /\ d[j].fetched = s[j].fetched
  <2> TAKE j \in 1 .. Len(s)
  <2>1. CASE j = i
    BY <1>1, <1>3, <2>1 DEF RequestType
  <2>2. CASE j # i
    BY <1>1, <1>3, <2>2 DEF RequestType
  <2> QED
    BY <2>1, <2>2
<1> HIDE DEF d
<1>5. GoodList(d, n)
  BY <1>3, <1>4 DEF GoodList
<1> QED
  BY <1>5 DEF d

\* Every queue's list is good.
Ordered == \A q \in QueueNames : GoodList(Requests(q), sent)

\* A handler that only deletes dead queues keeps the lists good.
LEMMA SweepOrdered ==
    ASSUME TypeOK, Ordered, sent' = sent, NEW q \in QueueNames,
           \/ m_queues' = [m_queues EXCEPT ![q] = FindQueueObj(q)]
           \/ m_queues' = [m_queues EXCEPT ![q] = NoQueue]
           \/ m_queues' = m_queues
    PROVE  Ordered'
<1>1. \A x \in QueueNames : m_queues'[x] \in {m_queues[x], NoQueue}
  BY DEF TypeOK, FindQueueObj
<1>2. GoodList(NoQueue.requests, sent)
  BY GoodEmpty DEF NoQueue
<1> QED
  BY <1>1, <1>2 DEF Ordered, Requests

\* A handler that replaces the list of one queue by a good one keeps them good.
LEMMA SetOrdered ==
    ASSUME TypeOK, Ordered, sent' \in Nat, sent <= sent', NEW q \in QueueNames,
           NEW r, GoodList(r, sent'), m_queues' = SetRequests(q, r)
    PROVE  Ordered'
<1>1. \A x \in QueueNames : m_queues[x] \in QueueType
  BY DEF TypeOK
<1>2. \A x \in QueueNames : m_queues'[x].requests = IF x = q THEN r ELSE m_queues[x].requests
  BY <1>1 DEF TypeOK, QueueType, SetRequests
<1>3. \A x \in QueueNames : m_queues[x].requests \in Seq(RequestType)
  BY <1>1 DEF QueueType
<1>4. \A x \in QueueNames : GoodList(m_queues[x].requests, sent')
  BY <1>3, GoodMore DEF Ordered, Requests, TypeOK
<1> QED
  BY <1>2, <1>4 DEF Ordered, Requests

\* The list of a queue that is found is good.
LEMMA FoundOrdered ==
    ASSUME TypeOK, Ordered, NEW q \in QueueNames
    PROVE  /\ GoodList(FindQueueObj(q).requests, sent)
           /\ FindQueueObj(q).requests \in Seq(RequestType)
           /\ sent \in Nat
BY FindType, GoodEmpty DEF Ordered, Requests, FindQueueObj, NoQueue, TypeOK

\* No step puts a list out of order.
LEMMA OrderedStep == TypeOK /\ ThreadsOK /\ Ordered /\ [Next]_vars => Ordered'
<1> SUFFICES ASSUME TypeOK, ThreadsOK, Ordered, [Next]_vars PROVE Ordered'
  OBVIOUS
<1>0. UNCHANGED <<m_queues, sent>> => Ordered'
  BY DEF Ordered, Requests
<1>1. ASSUME NEW p \in Pids, NEW b \in Boxes \cup {NoBox}, Start(p, b)
      PROVE  Ordered'
  BY <1>0, <1>1 DEF Start
<1>2. ASSUME NEW p \in Pids, Exit(p)
      PROVE  Ordered'
  BY <1>0, <1>2 DEF Exit
<1>3. ASSUME NEW p \in Pids, NEW n \in Names, CreateHandler(p, n)
      PROVE  Ordered'
  <2> DEFINE q == MakeQueueName(p, n)
  <2>1. q \in QueueNames /\ sent' = sent
    BY <1>3, NameType DEF CreateHandler
  <2>2. CASE CreateQueueObj(p, q)
    <3>1. \A x \in QueueNames : m_queues'[x].requests =
             IF x = q THEN << >> ELSE m_queues[x].requests
      BY <2>1, <2>2 DEF CreateQueueObj, TypeOK
    <3> QED
      BY <2>1, <3>1, GoodEmpty DEF Ordered, Requests
  <2>3. CASE CreateNoMemory(q)
    BY <2>1, <2>3, SweepOrdered DEF CreateNoMemory
  <2>4. CASE UNCHANGED <<m_queues, serves, failures>>
    BY <1>0, <2>1, <2>4
  <2> QED
    BY <1>3, <2>2, <2>3, <2>4 DEF CreateHandler
<1>4. ASSUME NEW p \in Pids, NEW t \in Threads, NEW n \in Names,
             PutReqRefused(p, t, n)
      PROVE  Ordered'
  <2>1. MakeQueueName(p, n) \in QueueNames /\ sent' = sent
    BY <1>4, NameType DEF PutReqRefused
  <2> QED
    BY <1>4, <2>1, SweepOrdered
    DEF PutReqRefused, PutReqNotFound, PutReqDenied, PutReqNoMemory
<1>5. ASSUME NEW p \in Pids, NEW t \in Threads, NEW n \in Names,
             PutReqHandler(p, t, n)
      PROVE  Ordered'
  <2> DEFINE q == MakeQueueName(p, n)
             r == Request(p, Incremented, sent + 1)
  <2>1. q \in QueueNames /\ m_queues[q].requests \in Seq(RequestType)
    BY NameType DEF TypeOK, QueueType
  <2>2. sent \in Nat /\ sent + 1 \in 1 .. MaxRequests /\ sent' = sent + 1
    BY <1>5 DEF PutReqHandler, CanPut, TypeOK
  <2>3. r \in RequestType /\ r.data = sent + 1 /\ ~r.fetched /\ r.rpl = 0
    BY <2>2, NextNumber DEF Request, RequestType, EventOf, SvcEvent
  <2>4. GoodList(Append(m_queues[q].requests, r), sent + 1)
    BY <2>1, <2>2, <2>3, GoodAppend DEF Ordered, Requests
  <2> QED
    BY <1>5, <2>1, <2>2, <2>4, SetOrdered DEF PutReqHandler
<1>6. ASSUME NEW p \in Pids, NEW t \in Threads, NEW n \in Names,
             PutReqNoReply(p, t, n)
      PROVE  Ordered'
  <2>1. \A q \in QueueNames : m_queues[q].requests \in Seq(RequestType)
    BY DEF TypeOK, QueueType
  <2> QED
    BY <1>6, <2>1, GoodMore DEF PutReqNoReply, Ordered, Requests, TypeOK
<1>7. ASSUME NEW p \in Pids, NEW t \in Threads,
             Wake(p, t) \/ Timeout(p, t) \/ QueueCallback(p, t)
      PROVE  Ordered'
  BY <1>0, <1>7 DEF Wake, Timeout, QueueCallback
<1>8. ASSUME NEW p \in Pids, NEW t \in Threads, GetRplHandler(p, t)
      PROVE  Ordered'
  <2>1. sent' = sent /\ sent \in Nat /\ thread[p][t].name \in QueueNames
    BY <1>8 DEF GetRplHandler, ThreadsOK, TypeOK
  <2>2. CASE GetRplNotFound(p, t)
    BY <2>1, <2>2, SweepOrdered DEF GetRplNotFound
  <2>3. ASSUME NEW i \in Mine(p, t), GetRplTake(p, t, i)
        PROVE  Ordered'
    <3>1. GoodList(DeleteRequestObj(Found(p, t), i), sent)
      BY <2>1, FoundOrdered, GoodDelete DEF Mine, Found, WithId
    <3> QED
      BY <2>1, <2>3, <3>1, SetOrdered DEF GetRplTake
  <2>4. CASE UNCHANGED m_queues
    BY <1>0, <2>1, <2>4
  <2> QED
    BY <1>8, <2>2, <2>3, <2>4 DEF GetRplHandler, GetRplNoRequest, GetRplDenied,
                                  GetRplNoMemory
<1>9. ASSUME NEW p \in Pids, NEW t \in Threads, GetReqHandler(p, t)
      PROVE  Ordered'
  <2>1. sent' = sent /\ sent \in Nat /\ serves[p] \in QueueNames
    BY <1>9 DEF GetReqHandler, ThreadsOK, TypeOK
  <2>2. CASE GetReqNothing(p, t)
    BY <2>1, <2>2, SweepOrdered DEF GetReqNothing
  <2>3. ASSUME NEW i, IsFirst(i, Open(p)), GetReqTake(p, t, i)
        PROVE  Ordered'
    <3> DEFINE s == FindQueueObj(serves[p]).requests
    <3>1. GoodList([s EXCEPT ![i].fetched = TRUE], sent)
      BY <2>1, <2>3, FoundOrdered, GoodFetch DEF Open
    <3> DEFINE d == [s EXCEPT ![i].fetched = TRUE]
    <3>2. m_queues' = SetRequests(serves[p], d)
      BY <2>3 DEF GetReqTake
    <3>3. GoodList(d, sent')
      BY <2>1, <3>1
    <3> HIDE DEF d
    <3> QED
      BY <2>1, <3>2, <3>3, SetOrdered
  <2>4. CASE GetReqNoMemory(p, t)
    BY <1>0, <2>1, <2>4 DEF GetReqNoMemory
  <2> QED
    BY <1>9, <2>2, <2>3, <2>4 DEF GetReqHandler
<1>10. ASSUME NEW p \in Pids, NEW t \in Threads, PutRplHandler(p, t)
       PROVE  Ordered'
  <2>1. sent' = sent /\ sent \in Nat /\ thread[p][t].name \in QueueNames
    BY <1>10 DEF PutRplHandler, ThreadsOK, TypeOK
  <2>2. CASE PutRplNothing(p, t)
    BY <2>1, <2>2, SweepOrdered DEF PutRplNothing
  <2>3. ASSUME NEW i \in Mine(p, t), PutRplStore(p, t, i)
        PROVE  Ordered'
    <3>1. GoodList([Found(p, t) EXCEPT ![i].rpl = thread[p][t].data], sent)
      BY <2>1, <2>3, FoundOrdered, GoodStore DEF Mine, Found, WithId, PutRplStore
    <3> DEFINE d == [Found(p, t) EXCEPT ![i].rpl = thread[p][t].data]
    <3>2. m_queues' = SetRequests(thread[p][t].name, d)
      BY <2>3 DEF PutRplStore
    <3>3. GoodList(d, sent')
      BY <2>1, <3>1
    <3> HIDE DEF d
    <3> QED
      BY <2>1, <3>2, <3>3, SetOrdered
  <2>4. ASSUME NEW i \in Mine(p, t), PutRplDrop(p, t, i)
        PROVE  Ordered'
    <3>1. GoodList(DeleteRequestObj(Found(p, t), i), sent)
      BY <2>1, FoundOrdered, GoodDelete DEF Mine, Found, WithId
    <3> QED
      BY <2>1, <2>4, <3>1, SetOrdered DEF PutRplDrop
  <2> QED
    BY <1>10, <2>2, <2>3, <2>4 DEF PutRplHandler
<1>11. CASE UNCHANGED vars
  BY <1>0, <1>11 DEF vars
<1> QED
  BY <1>1, <1>2, <1>3, <1>4, <1>5, <1>6, <1>7, <1>8, <1>9, <1>10, <1>11 DEF Next

\* Whatever clients time out or end, and however often the counter of request
\* numbers wraps, a queue hands its requests out in the order in which
\* PutReqHandler put them, and only fetched ones have a reply.
THEOREM RequestsFetchedInOrder == Spec => []FetchedInOrder
<1>1. Init => TypeOK /\ ThreadsOK /\ Ordered
  <2>1. Init => Ordered
    BY GoodEmpty DEF Init, Ordered, Requests, NoQueue
  <2> QED
    BY <2>1, InitType, InitThreads
<1>2. TypeOK /\ ThreadsOK /\ Ordered /\ [Next]_vars => (TypeOK /\ ThreadsOK /\ Ordered)'
  BY TypeStep, ThreadsStep, OrderedStep
<1>3. Ordered => FetchedInOrder
  BY DEF Ordered, GoodList, FetchedInOrder, Positions
<1> QED
  BY <1>1, <1>2, <1>3, PTL DEF Spec, Safety

-----------------------------------------------------------------------------
(* The queues as sets of requests *)

Elements(s) == {s[i] : i \in 1 .. Len(s)}
Reqs(q) == Elements(Requests(q))

\* What was shown to be inductive above.
Base == TypeOK /\ ThreadsOK /\ Servers /\ Ordered

\* Every step keeps Base, by the lemmas above.
LEMMA BaseStep == Base /\ [Next]_vars => Base'
BY TypeStep, ThreadsStep, ServersStep, OrderedStep DEF Base

\* Base holds at first.
LEMMA BaseInit == Init => Base
<1>1. Init => Ordered
    BY GoodEmpty DEF Init, Ordered, Requests, NoQueue
<1> QED BY <1>1, InitType, InitThreads, InitServers DEF Base

\* The requests of a queue have their type.
LEMMA ReqsTyped ==
    ASSUME TypeOK, NEW q \in QueueNames, NEW r \in Reqs(q)
    PROVE  r \in RequestType
<1>1. Requests(q) \in Seq(RequestType)
    BY DEF TypeOK, QueueType, Requests
<1> QED BY <1>1, ElementOfSeq DEF Reqs, Elements

\* A list with one more, one less, or one changed.
LEMMA ElementsAppend ==
    ASSUME NEW S, NEW s \in Seq(S), NEW r \in S
    PROVE  Elements(Append(s, r)) = Elements(s) \cup {r}
<1> DEFINE d == Append(s, r)
<1>1. /\ Len(d) = Len(s) + 1 /\ Len(s) \in Nat /\ d[Len(s) + 1] = r
      /\ \A i \in 1 .. Len(s) : d[i] = s[i]
    BY AppendProperties, LenProperties
<1> HIDE DEF d
<1>2. \A i \in 1 .. Len(d) : i \in 1 .. Len(s) \/ i = Len(s) + 1
    BY <1>1
<1>3. Elements(d) \subseteq Elements(s) \cup {r}
    BY <1>1, <1>2 DEF Elements
<1>4. Elements(s) \cup {r} \subseteq Elements(d)
    BY <1>1 DEF Elements
<1> QED BY <1>3, <1>4 DEF d

\* DeleteRequestObj takes one request out of a list without repetitions.
LEMMA ElementsDelete ==
    ASSUME NEW S, NEW s \in Seq(S), NEW i \in 1 .. Len(s),
           \A j \in 1 .. Len(s) : j # i => s[j] # s[i]
    PROVE  Elements(DeleteRequestObj(s, i)) = Elements(s) \ {s[i]}
<1> DEFINE d == DeleteRequestObj(s, i)
<1>1. /\ Len(d) = Len(s) - 1 /\ Len(s) \in Nat
      /\ \A j \in 1 .. Len(d) : d[j] = IF j < i THEN s[j] ELSE s[j + 1]
    BY DeleteKeeps, LenProperties
<1> HIDE DEF d
<1>2. ASSUME NEW j \in 1 .. Len(d) PROVE d[j] \in Elements(s) \ {s[i]}
    BY <1>1 DEF Elements
<1>3. ASSUME NEW j \in 1 .. Len(s), j # i PROVE s[j] \in Elements(d)
    <2>1. CASE j < i
        <3>1. j \in 1 .. Len(d) /\ d[j] = s[j]
            BY <1>1, <2>1
        <3> QED BY <3>1 DEF Elements
    <2>2. CASE j > i
        <3>1. j - 1 \in 1 .. Len(d) /\ d[j - 1] = s[j]
            BY <1>1, <2>2
        <3> QED BY <3>1 DEF Elements
    <2> QED BY <1>1, <1>3, <2>1, <2>2
<1>4. Elements(d) \subseteq Elements(s) \ {s[i]}
    BY <1>2 DEF Elements
<1>5. Elements(s) \ {s[i]} \subseteq Elements(d)
    BY <1>3 DEF Elements
<1> QED BY <1>4, <1>5 DEF d
Changed(s, d, i, r) ==
    /\ i \in 1 .. Len(s) /\ Len(d) = Len(s)
    /\ \A j \in 1 .. Len(s) : d[j] = IF j = i THEN r ELSE s[j]
    /\ \A j \in 1 .. Len(s) : j # i => s[j] # s[i]

\* A list in which one request changes.
LEMMA ElementsChange ==
    ASSUME NEW s, NEW d, NEW i, NEW r, Changed(s, d, i, r)
    PROVE  Elements(d) = (Elements(s) \ {s[i]}) \cup {r}
<1> USE DEF Changed
<1>1. Elements(d) \subseteq (Elements(s) \ {s[i]}) \cup {r}
    BY DEF Elements
<1>2. (Elements(s) \ {s[i]}) \cup {r} \subseteq Elements(d)
    <2>1. r \in Elements(d)
        BY DEF Elements
    <2>2. \A j \in 1 .. Len(s) : j # i => s[j] \in Elements(d)
        BY DEF Elements
    <2> QED BY <2>1, <2>2 DEF Elements
<1> QED BY <1>1, <1>2

\* No request is twice in a list.
LEMMA OnceInList ==
    ASSUME Base, NEW q \in QueueNames, NEW i \in 1 .. Len(Requests(q))
    PROVE  \A j \in 1 .. Len(Requests(q)) : j # i => Requests(q)[j].data # Requests(q)[i].data
<1>1. Requests(q) \in Seq(RequestType)
    BY DEF Base, TypeOK, QueueType, Requests
<1>2. Len(Requests(q)) \in Nat /\ \A j \in 1 .. Len(Requests(q)) : Requests(q)[j].data \in Nat
    BY <1>1, RequestFields, LenProperties
<1> QED BY <1>2 DEF Base, Ordered, GoodList

-----------------------------------------------------------------------------
(* What a step does to the calls *)

\* Thread t of process p goes on as th, queue q has the requests in E then; the
\* other threads and queues stay.
Becomes(p, t, th) == \A u \in Pids, v \in Threads :
    thread'[u][v] = IF u = p /\ v = t THEN th ELSE thread[u][v]
Holds(q, E) == \A x \in QueueNames : Reqs(x)' = IF x = q THEN E ELSE Reqs(x)
Counted == \/ sent' = sent /\ m_RequestId' = m_RequestId
           \/ /\ sent < MaxRequests /\ sent' = sent + 1
              /\ m_RequestId' = SkipReserved(Incremented)
Same == sent' = sent /\ m_RequestId' = m_RequestId
Rests(th) == th.at \in {"idle", "check"} /\ th.reply = 0

\* No call goes on: threads give up or have nothing to do, queues without a server
\* are deleted.
Loses ==
    /\ Counted /\ signalled' = signalled
    /\ \A q \in QueueNames : /\ Reqs(q)' \subseteq Reqs(q)
                             /\ ServerProcessIsActive(q) => Reqs(q)' = Reqs(q)
    /\ \A p \in Pids, t \in Threads : thread'[p][t] = thread[p][t] \/ Rests(thread'[p][t])

\* A request is put; its client is woken, and takes it out of the queue.
Puts(p, t, q) ==
    /\ sent < MaxRequests /\ sent' = sent + 1 /\ m_RequestId' = SkipReserved(Incremented)
    /\ signalled' = signalled
    /\ Holds(q, Reqs(q) \cup {Request(p, Incremented, sent + 1)})
    /\ Becomes(p, t, Waiting(p, q, Incremented, sent + 1))
Wakes(p, t) ==
    /\ Same /\ thread[p][t].at = "wait"
    /\ EventOf(p, thread[p][t].data) \in signalled
    /\ signalled' = signalled \ {EventOf(p, thread[p][t].data)}
    /\ \A q \in QueueNames : Reqs(q)' = Reqs(q)
    /\ Becomes(p, t, [thread[p][t] EXCEPT !.at = "woken"])
Takes(p, t, r) ==
    /\ Same /\ signalled' = signalled /\ thread[p][t].at = "woken"
    /\ r \in Reqs(thread[p][t].name) /\ r.request_id = thread[p][t].id
    /\ Holds(thread[p][t].name, Reqs(thread[p][t].name) \ {r})
    /\ \E s \in Statuses : Becomes(p, t, Done(thread[p][t].data, r.rpl, s))

\* A proxy fetches a request, stores the reply to it or drops it.
Fetches(p, t, r) ==
    /\ Same /\ signalled' = signalled /\ thread[p][t].at = "check"
    /\ r \in Reqs(serves[p]) /\ ~r.fetched
    /\ Holds(serves[p], (Reqs(serves[p]) \ {r}) \cup {[r EXCEPT !.fetched = TRUE]})
    /\ Becomes(p, t, Serving(serves[p], r))
Stores(p, t, r) ==
    /\ Same /\ thread[p][t].at = "serve"
    /\ r \in Reqs(thread[p][t].name) /\ r.request_id = thread[p][t].id /\ r.fetched
    /\ signalled' = signalled \cup {r.client_event}
    /\ Holds(thread[p][t].name,
             (Reqs(thread[p][t].name) \ {r}) \cup {[r EXCEPT !.rpl = thread[p][t].data]})
    /\ \E th : Rests(th) /\ Becomes(p, t, th)
Drops(p, t, r) ==
    /\ Same /\ signalled' = signalled /\ thread[p][t].at = "serve"
    /\ r \in Reqs(thread[p][t].name) /\ r.request_id = thread[p][t].id
    /\ Holds(thread[p][t].name, Reqs(thread[p][t].name) \ {r})
    /\ \E th : Rests(th) /\ Becomes(p, t, th)

Kind == \/ Loses
        \/ \E p \in Pids, t \in Threads, q \in QueueNames : Puts(p, t, q)
        \/ \E p \in Pids, t \in Threads : Wakes(p, t)
        \/ \E p \in Pids, t \in Threads, r \in RequestType :
              Takes(p, t, r) \/ Fetches(p, t, r) \/ Stores(p, t, r) \/ Drops(p, t, r)

\* One thread changes.
LEMMA OneThread ==
    ASSUME TypeOK, NEW p \in Pids, NEW t \in Threads, NEW th,
           thread' = [thread EXCEPT ![p][t] = th]
    PROVE  Becomes(p, t, th)
BY DEF TypeOK, Becomes

\* The requests of one queue change.
LEMMA OneQueue ==
    ASSUME TypeOK, NEW q \in QueueNames, NEW s, m_queues' = SetRequests(q, s)
    PROVE  Holds(q, Elements(s))
<1>1. \A x \in QueueNames : m_queues[x] \in QueueType
    BY DEF TypeOK
<1>2. \A x \in QueueNames : Requests(x)' = IF x = q THEN s ELSE Requests(x)
    BY <1>1 DEF TypeOK, QueueType, SetRequests, Requests
<1> QED BY <1>2 DEF Holds, Reqs

\* Queues without a server are deleted or replaced, if any.
LEMMA DeadQueue ==
    ASSUME TypeOK, NEW q \in QueueNames,
           \/ m_queues' = m_queues
           \/ m_queues' = [m_queues EXCEPT ![q] = FindQueueObj(q)]
           \/ /\ ~ServerProcessIsActive(q)
              /\ \E x : m_queues' = [m_queues EXCEPT ![q] = x] /\ x.requests = << >>
    PROVE  \A x \in QueueNames : /\ Reqs(x)' \subseteq Reqs(x)
                                 /\ ServerProcessIsActive(x) => Reqs(x)' = Reqs(x)
<1>1. Elements(<< >>) = {}
    BY DEF Elements
<1>2. NoQueue.requests = << >>
    BY DEF NoQueue
<1>3. CASE m_queues' = m_queues
    BY <1>3 DEF Reqs, Requests
<1>4. ASSUME ~ServerProcessIsActive(q), NEW y, m_queues' = [m_queues EXCEPT ![q] = y],
             y.requests = << >>
      PROVE  \A x \in QueueNames : /\ Reqs(x)' \subseteq Reqs(x)
                                   /\ ServerProcessIsActive(x) => Reqs(x)' = Reqs(x)
    <2>1. \A x \in QueueNames : Requests(x)' = IF x = q THEN << >> ELSE Requests(x)
        BY <1>4 DEF Requests, TypeOK
    <2> QED BY <1>1, <1>4, <2>1 DEF Reqs
<1>5. CASE m_queues' = [m_queues EXCEPT ![q] = FindQueueObj(q)]
    <2>1. CASE ServerProcessIsActive(q)
        <3>1. m_queues' = m_queues
            BY <1>5, <2>1 DEF FindQueueObj, TypeOK
        <3> QED BY <1>3, <3>1
    <2>2. CASE ~ServerProcessIsActive(q)
        <3>1. m_queues' = [m_queues EXCEPT ![q] = NoQueue]
            BY <1>5, <2>2 DEF FindQueueObj
        <3> QED BY <1>2, <1>4, <2>2, <3>1
    <2> QED BY <2>1, <2>2
<1> QED BY <1>3, <1>4, <1>5

\* A step that replaces thread t of p by one at rest, and deletes dead queues.
LEMMA LosesOne ==
    ASSUME TypeOK, NEW p \in Pids, NEW t \in Threads, NEW th, Rests(th),
           thread' = [thread EXCEPT ![p][t] = th], Counted, signalled' = signalled,
           NEW q \in QueueNames,
           \/ m_queues' = m_queues
           \/ m_queues' = [m_queues EXCEPT ![q] = FindQueueObj(q)]
           \/ /\ ~ServerProcessIsActive(q)
              /\ \E x : m_queues' = [m_queues EXCEPT ![q] = x] /\ x.requests = << >>
    PROVE  Loses
<1>1. \A x \in QueueNames : /\ Reqs(x)' \subseteq Reqs(x)
                            /\ ServerProcessIsActive(x) => Reqs(x)' = Reqs(x)
    BY DeadQueue
<1>2. Becomes(p, t, th)
    BY OneThread
<1> QED BY <1>1, <1>2 DEF Loses, Becomes

\* The threads that rest.
LEMMA RestingThreads ==
    ASSUME NEW s \in Statuses
    PROVE  /\ Rests(Idle(s)) /\ Rests(Checking(s)) /\ Rests(AfterReply(s))
           /\ \A d : Rests(Done(d, 0, s))
BY ThreadFields DEF Rests

\* The request at position i of the list that a handler found.
LEMMA FoundRequest ==
    ASSUME Base, NEW q \in QueueNames, NEW s, s = FindQueueObj(q).requests, NEW i \in 1 .. Len(s)
    PROVE  /\ s = Requests(q) /\ s \in Seq(RequestType) /\ s[i] \in RequestType
           /\ s[i] \in Reqs(q) /\ \A j \in 1 .. Len(s) : j # i => s[j] # s[i]
           /\ Elements(s) = Reqs(q)
<1>1. s[i] \in RequestType /\ s = Requests(q)
    BY RequestAt DEF Base, Requests
<1>2. s \in Seq(RequestType)
    BY FindType DEF Base
<1>3. \A j \in 1 .. Len(s) : j # i => s[j] # s[i]
    BY <1>1, OnceInList
<1>4. s[i] \in Reqs(q) /\ Elements(s) = Reqs(q)
    BY <1>1 DEF Reqs, Elements
<1> QED BY <1>1, <1>2, <1>3, <1>4

\* GetRplHandler takes a reply, or loses nothing but its call.
LEMMA GetRplKind ==
    ASSUME Base, NEW p \in Pids, NEW t \in Threads, GetRplHandler(p, t) PROVE Kind
<1> DEFINE q == thread[p][t].name
<1>1. /\ q \in QueueNames /\ TypeOK /\ thread[p][t].at = "woken" /\ Same /\ signalled' = signalled
    BY DEF GetRplHandler, Base, ThreadsOK, Same
<1>2. Counted
    BY <1>1 DEF Same, Counted
<1>3. \A s \in Statuses : Rests(Done(thread[p][t].data, 0, s))
    BY RestingThreads
<1>4. CASE GetRplNotFound(p, t)
    <2>1. NoQueue.requests = << >> /\ "NAME_NOT_FOUND" \in Statuses
        BY DEF NoQueue, Statuses
    <2> QED BY <1>1, <1>2, <1>3, <1>4, <2>1, LosesOne DEF GetRplNotFound, Return, Kind
<1>5. CASE GetRplNoRequest(p, t)
    <2>1. "END_OF_FILE" \in Statuses
        BY DEF Statuses
    <2> QED BY <1>1, <1>2, <1>3, <1>5, <2>1, LosesOne DEF GetRplNoRequest, Return, Kind
<1>6. ASSUME NEW i \in Mine(p, t), GetRplDenied(p, t, i) \/ GetRplNoMemory(p, t, i) PROVE Kind
    <2>1. "ACCESS_DENIED" \in Statuses /\ "INSUFFICIENT_RESOURCES" \in Statuses
        BY DEF Statuses
    <2> QED BY <1>1, <1>2, <1>3, <1>6, <2>1, LosesOne
            DEF GetRplDenied, GetRplNoMemory, Return, Kind
<1>7. ASSUME NEW i \in Mine(p, t), GetRplTake(p, t, i) PROVE Kind
    <2>1. PICK s : s = Found(p, t)
        OBVIOUS
    <2>2. s = FindQueueObj(q).requests /\ i \in 1 .. Len(s) /\ s[i].request_id = thread[p][t].id
        BY <2>1 DEF Mine, WithId, Found
    <2>3. /\ s = Requests(q) /\ s \in Seq(RequestType) /\ s[i] \in RequestType
          /\ s[i] \in Reqs(q) /\ \A j \in 1 .. Len(s) : j # i => s[j] # s[i]
          /\ Elements(s) = Reqs(q)
        BY <1>1, <2>2, FoundRequest
    <2>4. Elements(DeleteRequestObj(s, i)) = Elements(s) \ {s[i]}
        BY <2>2, <2>3, ElementsDelete
    <2>5. m_queues' = SetRequests(q, DeleteRequestObj(s, i))
        BY <1>7, <2>1 DEF GetRplTake
    <2>6. Holds(q, Reqs(q) \ {s[i]})
        <3>1. Holds(q, Elements(DeleteRequestObj(s, i)))
            BY <1>1, <2>5, OneQueue
        <3> QED BY <2>3, <2>4, <3>1
    <2>7. PICK st \in Statuses : thread' = [thread EXCEPT ![p][t] = Done(thread[p][t].data, s[i].rpl, st)]
        <3>1. (IF s[i].rpl = 0 THEN "END_OF_FILE" ELSE "SUCCESS") \in Statuses
            BY DEF Statuses
        <3> QED BY <1>7, <2>1, <3>1 DEF GetRplTake, Return
    <2>8. Becomes(p, t, Done(thread[p][t].data, s[i].rpl, st))
        BY <1>1, <2>7, OneThread
    <2>9. Takes(p, t, s[i])
        BY <1>1, <2>2, <2>3, <2>6, <2>8 DEF Takes
    <2> QED BY <2>3, <2>9 DEF Kind
<1> QED BY <1>4, <1>5, <1>6, <1>7 DEF GetRplHandler

\* GetReqHandler fetches a request, or ends the loop of its thread.
LEMMA GetReqKind ==
    ASSUME Base, NEW p \in Pids, NEW t \in Threads, GetReqHandler(p, t) PROVE Kind
<1> DEFINE q == serves[p]
<1>1. /\ q \in QueueNames /\ TypeOK /\ thread[p][t].at = "check" /\ Same /\ signalled' = signalled
    BY DEF GetReqHandler, Base, ThreadsOK, Same
<1>2. Counted
    BY <1>1 DEF Same, Counted
<1>3. CASE GetReqNothing(p, t)
    <2>1. Rests(Idle(Refusal(p, q)))
        BY RefusalType, RestingThreads
    <2> QED BY <1>1, <1>2, <1>3, <2>1, LosesOne DEF GetReqNothing, Kind
<1>4. CASE GetReqNoMemory(p, t)
    <2>1. Rests(Idle("INSUFFICIENT_RESOURCES"))
        BY RestingThreads DEF Statuses
    <2> QED BY <1>1, <1>2, <1>4, <2>1, LosesOne DEF GetReqNoMemory, Kind
<1>5. ASSUME NEW i \in Open(p), GetReqTake(p, t, i) PROVE Kind
    <2>1. PICK s : s = FindQueueObj(q).requests
        OBVIOUS
    <2>2. i \in 1 .. Len(s) /\ ~s[i].fetched
        BY <2>1 DEF Open, Unfetched
    <2>3. /\ s = Requests(q) /\ s \in Seq(RequestType) /\ s[i] \in RequestType
          /\ s[i] \in Reqs(q) /\ \A j \in 1 .. Len(s) : j # i => s[j] # s[i]
          /\ Elements(s) = Reqs(q)
        BY <1>1, <2>1, <2>2, FoundRequest
    <2>4. PICK d : d = [s EXCEPT ![i].fetched = TRUE]
        OBVIOUS
    <2>5. PICK r : r = [s[i] EXCEPT !.fetched = TRUE]
        OBVIOUS
    <2>6. Len(d) = Len(s) /\ \A j \in 1 .. Len(s) : d[j] = IF j = i THEN r ELSE s[j]
        BY <2>2, <2>3, <2>4, <2>5, LenProperties
    <2>7. Elements(d) = (Reqs(q) \ {s[i]}) \cup {r}
        <3>1. Changed(s, d, i, r)
            BY <2>2, <2>3, <2>6 DEF Changed
        <3>2. Elements(d) = (Elements(s) \ {s[i]}) \cup {r}
            BY <3>1, ElementsChange
        <3> QED BY <2>3, <3>2
    <2>8. m_queues' = SetRequests(q, d) /\ thread' = [thread EXCEPT ![p][t] = Serving(q, s[i])]
        BY <1>5, <2>1, <2>4 DEF GetReqTake
    <2>9. Holds(q, (Reqs(q) \ {s[i]}) \cup {r})
        <3>1. Holds(q, Elements(d))
            BY <1>1, <2>8, OneQueue
        <3> QED BY <2>7, <3>1
    <2>10. Becomes(p, t, Serving(q, s[i]))
        BY <1>1, <2>8, OneThread
    <2>11. Fetches(p, t, s[i])
        BY <1>1, <2>2, <2>3, <2>5, <2>9, <2>10 DEF Fetches
    <2> QED BY <2>3, <2>11 DEF Kind
<1> QED BY <1>3, <1>4, <1>5 DEF GetReqHandler

\* PutRplHandler stores a reply, drops it, or finds nothing.
LEMMA PutRplKind ==
    ASSUME Base, NEW p \in Pids, NEW t \in Threads, PutRplHandler(p, t) PROVE Kind
<1> DEFINE q == thread[p][t].name
<1>1. /\ q \in QueueNames /\ TypeOK /\ thread[p][t].at = "serve" /\ Same
    BY DEF PutRplHandler, Base, ThreadsOK, Same
<1>2. Counted
    BY <1>1 DEF Same, Counted
<1>3. CASE PutRplNothing(p, t)
    <2>1. Rests(AfterReply(Refusal(p, q)))
        BY RefusalType, RestingThreads
    <2> QED BY <1>1, <1>2, <1>3, <2>1, LosesOne DEF PutRplNothing, Kind
<1>4. ASSUME NEW i \in Mine(p, t), PutRplStore(p, t, i) \/ PutRplDrop(p, t, i) PROVE Kind
    <2>1. PICK s : s = Found(p, t)
        OBVIOUS
    <2>2. s = FindQueueObj(q).requests /\ i \in 1 .. Len(s) /\ s[i].request_id = thread[p][t].id
        BY <2>1 DEF Mine, WithId, Found
    <2>3. /\ s = Requests(q) /\ s \in Seq(RequestType) /\ s[i] \in RequestType
          /\ s[i] \in Reqs(q) /\ \A j \in 1 .. Len(s) : j # i => s[j] # s[i]
          /\ Elements(s) = Reqs(q)
        BY <1>1, <2>2, FoundRequest
    <2>4. CASE PutRplStore(p, t, i)
        <3>1. PICK d : d = [s EXCEPT ![i].rpl = thread[p][t].data]
            OBVIOUS
        <3>2. PICK r : r = [s[i] EXCEPT !.rpl = thread[p][t].data]
            OBVIOUS
        <3>3. Len(d) = Len(s) /\ \A j \in 1 .. Len(s) : d[j] = IF j = i THEN r ELSE s[j]
            BY <2>2, <2>3, <3>1, <3>2, LenProperties
        <3>4. Elements(d) = (Reqs(q) \ {s[i]}) \cup {r}
            <4>1. Changed(s, d, i, r)
                BY <2>2, <2>3, <3>3 DEF Changed
            <4>2. Elements(d) = (Elements(s) \ {s[i]}) \cup {r}
                BY <4>1, ElementsChange
            <4> QED BY <2>3, <4>2
        <3>5. /\ m_queues' = SetRequests(q, d) /\ s[i].fetched
              /\ signalled' = signalled \cup {s[i].client_event}
              /\ thread' = [thread EXCEPT ![p][t] = AfterReply("SUCCESS")]
            BY <2>1, <2>4, <3>1 DEF PutRplStore, ClientSignalled
        <3>6. Holds(q, (Reqs(q) \ {s[i]}) \cup {r})
            <4>1. Holds(q, Elements(d))
                BY <1>1, <3>5, OneQueue
            <4> QED BY <3>4, <4>1
        <3>7. Rests(AfterReply("SUCCESS")) /\ Becomes(p, t, AfterReply("SUCCESS"))
            BY <1>1, <3>5, OneThread, RestingThreads DEF Statuses
        <3>8. Stores(p, t, s[i])
            BY <1>1, <2>2, <2>3, <3>2, <3>5, <3>6, <3>7 DEF Stores
        <3> QED BY <2>3, <3>8 DEF Kind
    <2>5. CASE PutRplDrop(p, t, i)
        <3>1. Elements(DeleteRequestObj(s, i)) = Elements(s) \ {s[i]}
            BY <2>2, <2>3, ElementsDelete
        <3>2. m_queues' = SetRequests(q, DeleteRequestObj(s, i)) /\ signalled' = signalled
            BY <2>1, <2>5 DEF PutRplDrop
        <3>3. Holds(q, Reqs(q) \ {s[i]})
            <4>1. Holds(q, Elements(DeleteRequestObj(s, i)))
                BY <1>1, <3>2, OneQueue
            <4> QED BY <2>3, <3>1, <4>1
        <3>4. PICK st \in Statuses : thread' = [thread EXCEPT ![p][t] = AfterReply(st)]
            <4>1. (IF Found(p, t)[i].fetched THEN "INSUFFICIENT_RESOURCES"
                                             ELSE "SHARING_VIOLATION") \in Statuses
                BY DEF Statuses
            <4> QED BY <2>5, <4>1 DEF PutRplDrop
        <3>5. Rests(AfterReply(st)) /\ Becomes(p, t, AfterReply(st))
            BY <1>1, <3>4, OneThread, RestingThreads
        <3>6. Drops(p, t, s[i])
            BY <1>1, <2>2, <2>3, <3>2, <3>3, <3>5 DEF Drops
        <3> QED BY <2>3, <3>6 DEF Kind
    <2> QED BY <1>4, <2>4, <2>5
<1> QED BY <1>3, <1>4 DEF PutRplHandler

\* Every step is of one of these kinds.
LEMMA StepKind == Base /\ [Next]_vars => Kind
<1> SUFFICES ASSUME Base, [Next]_vars PROVE Kind
    OBVIOUS
<1>t. TypeOK
    BY DEF Base
<1>s. Statuses = Statuses \cup {"SUCCESS", "ACCESS_DENIED", "NAME_NOT_FOUND", "TIMEOUT",
                                "INSUFFICIENT_RESOURCES"}
    BY DEF Statuses
<1>r. \A s \in Statuses : Rests(Idle(s)) /\ Rests(Checking(s))
    BY RestingThreads
<1>1. ASSUME NEW p \in Pids, NEW b \in Boxes \cup {NoBox}, Start(p, b) PROVE Kind
    BY <1>1 DEF Start, Kind, Loses, Counted, Reqs, Requests
<1>2. ASSUME NEW p \in Pids, Exit(p) PROVE Kind
    <2>1. \A u \in Pids, t \in Threads : thread'[u][t] = thread[u][t] \/ Rests(thread'[u][t])
        BY <1>2, <1>t, <1>s, <1>r DEF Exit, TypeOK
    <2> QED BY <1>2, <2>1 DEF Exit, Kind, Loses, Counted, Reqs, Requests
<1>3. ASSUME NEW p \in Pids, NEW n \in Names, CreateHandler(p, n) PROVE Kind
    <2>1. PICK q \in QueueNames : q = MakeQueueName(p, n)
        BY <1>t, NameType
    <2>2. /\ Counted /\ signalled' = signalled /\ thread' = thread
        BY <1>3 DEF CreateHandler, Counted
    <2>3. \/ m_queues' = m_queues
          \/ m_queues' = [m_queues EXCEPT ![q] = FindQueueObj(q)]
          \/ /\ ~ServerProcessIsActive(q)
             /\ \E x : m_queues' = [m_queues EXCEPT ![q] = x] /\ x.requests = << >>
        <3>1. CASE ~Collision(q) /\ CreateQueueObj(p, q)
            <4>1. PICK x : x = [server_pid |-> p, server_create_time |-> proc[p].born,
                                requests |-> << >>]
                OBVIOUS
            <4>2. x.requests = << >>
                BY <4>1
            <4>3. m_queues' = [m_queues EXCEPT ![q] = x]
                BY <3>1, <4>1 DEF CreateQueueObj
            <4> QED BY <3>1, <4>2, <4>3 DEF Collision
        <3> QED BY <1>3, <2>1, <3>1 DEF CreateHandler, CreateNoMemory
    <2>4. \A x \in QueueNames : /\ Reqs(x)' \subseteq Reqs(x)
                                /\ ServerProcessIsActive(x) => Reqs(x)' = Reqs(x)
        BY <1>t, <2>3, DeadQueue
    <2> QED BY <2>2, <2>4 DEF Loses, Kind
<1>4. ASSUME NEW p \in Pids, NEW t \in Threads, NEW n \in Names, PutReqRefused(p, t, n) PROVE Kind
    <2>1. PICK q \in QueueNames : q = MakeQueueName(p, n)
        BY <1>t, NameType
    <2>2. Counted /\ signalled' = signalled
        BY <1>4 DEF PutReqRefused, Counted
    <2>3. NoQueue.requests = << >>
        BY DEF NoQueue
    <2>4. \/ m_queues' = m_queues
          \/ m_queues' = [m_queues EXCEPT ![q] = FindQueueObj(q)]
          \/ /\ ~ServerProcessIsActive(q)
             /\ \E x : m_queues' = [m_queues EXCEPT ![q] = x] /\ x.requests = << >>
        BY <1>4, <2>1, <2>3 DEF PutReqRefused, PutReqDenied, PutReqNotFound, PutReqNoMemory
    <2>5. PICK s \in Statuses : thread' = [thread EXCEPT ![p][t] = Idle(s)]
        BY <1>4, <1>s DEF PutReqRefused, PutReqDenied, PutReqNotFound, PutReqNoMemory
    <2> QED BY <1>t, <1>r, <2>2, <2>4, <2>5, LosesOne DEF Kind
<1>5. ASSUME NEW p \in Pids, NEW t \in Threads, NEW n \in Names, PutReqHandler(p, t, n) PROVE Kind
    <2>1. PICK q \in QueueNames : q = MakeQueueName(p, n)
        BY <1>t, NameType
    <2>2. PICK r : r = Request(p, Incremented, sent + 1)
        OBVIOUS
    <2>3. r \in RequestType
        <3>1. EventOf(p, sent + 1) \in 0 .. MaxRequests /\ sent + 1 \in 1 .. MaxRequests
            BY <1>5, <1>t DEF PutReqHandler, CanPut, TypeOK, EventOf, SvcEvent
        <3>2. Incremented \in 1 .. IdMod - 1
            BY <1>t, NextNumber
        <3> QED BY <2>2, <3>1, <3>2 DEF Request, RequestType
    <2>4. Requests(q) \in Seq(RequestType)
        BY <1>t DEF TypeOK, QueueType, Requests
    <2>5. Elements(Append(Requests(q), r)) = Elements(Requests(q)) \cup {r}
        BY <2>3, <2>4, ElementsAppend
    <2>6. m_queues' = SetRequests(q, Append(Requests(q), r))
        BY <1>5, <2>1, <2>2 DEF PutReqHandler, Requests
    <2>7. Holds(q, Reqs(q) \cup {r})
        <3>1. Holds(q, Elements(Append(Requests(q), r)))
            BY <1>t, <2>6, OneQueue
        <3> QED BY <2>5, <3>1 DEF Reqs
    <2>8. Becomes(p, t, Waiting(p, q, Incremented, sent + 1))
        <3>1. thread' = [thread EXCEPT ![p][t] = Waiting(p, q, Incremented, sent + 1)]
            BY <1>5, <2>1 DEF PutReqHandler
        <3> QED BY <1>t, <3>1, OneThread
    <2>9. Puts(p, t, q)
        BY <1>5, <2>2, <2>7, <2>8 DEF Puts, PutReqHandler, CanPut
    <2> QED BY <2>9 DEF Kind
<1>6. ASSUME NEW p \in Pids, NEW t \in Threads, NEW n \in Names, PutReqNoReply(p, t, n) PROVE Kind
    <2>1. PICK q \in QueueNames : q = MakeQueueName(p, n)
        BY <1>t, NameType
    <2>2. Counted /\ signalled' = signalled /\ m_queues' = m_queues
        BY <1>6 DEF PutReqNoReply, CanPut, Counted
    <2>3. PICK s \in Statuses : thread' = [thread EXCEPT ![p][t] = Idle(s)]
        BY <1>6, <1>s DEF PutReqNoReply
    <2> QED BY <1>t, <1>r, <2>2, <2>3, LosesOne DEF Kind
<1>7. ASSUME NEW p \in Pids, NEW t \in Threads, Wake(p, t) PROVE Kind
    <2>1. PICK th : th = [thread[p][t] EXCEPT !.at = "woken"]
        OBVIOUS
    <2>2. thread' = [thread EXCEPT ![p][t] = th]
        BY <1>7, <1>t, <2>1 DEF Wake, TypeOK
    <2>3. Becomes(p, t, th)
        BY <1>t, <2>2, OneThread
    <2>4. Wakes(p, t)
        BY <1>7, <2>1, <2>3 DEF Wake, Wakes, Same, Reqs, Requests
    <2> QED BY <2>4 DEF Kind
<1>8. ASSUME NEW p \in Pids, NEW t \in Threads, Timeout(p, t) \/ QueueCallback(p, t) PROVE Kind
    <2>1. Counted /\ signalled' = signalled /\ m_queues' = m_queues
        BY <1>8 DEF Timeout, QueueCallback, Counted
    <2>2. PICK s \in Statuses : \/ thread' = [thread EXCEPT ![p][t] = Idle(s)]
                                \/ thread' = [thread EXCEPT ![p][t] = Checking(s)]
        BY <1>8, <1>s DEF Timeout, QueueCallback
    <2>3. PICK th : Rests(th) /\ Becomes(p, t, th)
        BY <1>t, <1>r, <2>2, OneThread
    <2> QED BY <2>1, <2>3 DEF Kind, Loses, Becomes, Reqs, Requests
<1>9. CASE UNCHANGED vars
    BY <1>9 DEF vars, Kind, Loses, Counted, Reqs, Requests
<1> QED
    BY <1>1, <1>2, <1>3, <1>4, <1>5, <1>6, <1>7, <1>8, <1>9, GetRplKind, GetReqKind,
       PutRplKind DEF Next

-----------------------------------------------------------------------------
(* A client is woken by its reply *)

Calls(p, t) == thread[p][t].at \in {"wait", "woken"}
Serves(p, t) == thread[p][t].at = "serve"

\* What threads work on and what events stand for was numbered.
Dated == /\ \A p \in Pids, t \in Threads :
               Calls(p, t) \/ Serves(p, t) => thread[p][t].data \in 1 .. sent
         /\ signalled \subseteq 0 .. sent
\* A request is in one queue, once, and names the event of its client.
Distinct == \A q1, q2 \in QueueNames : \A r1 \in Reqs(q1), r2 \in Reqs(q2) :
               r1.data = r2.data => q1 = q2 /\ r1 = r2
Addressed == \A q \in QueueNames : \A r \in Reqs(q) :
                r.client_event = EventOf(r.client_pid, r.data)
\* A request has one caller, in the process that it names.
Callers ==
    /\ \A p1, p2 \in Pids, t1, t2 \in Threads :
          /\ Calls(p1, t1) /\ Calls(p2, t2)
          /\ thread[p1][t1].data = thread[p2][t2].data
          => p1 = p2 /\ t1 = t2
    /\ \A p \in Pids, t \in Threads, q \in QueueNames : \A r \in Reqs(q) :
          Calls(p, t) /\ r.data = thread[p][t].data => r.client_pid = p
\* The event of an answered request stays signalled until its client wakes, and
\* before the answer neither was the event signalled nor did the client wake.
Awake == \A p \in Pids \ {Svc}, t \in Threads, q \in QueueNames : \A r \in Reqs(q) :
    /\ thread[p][t].at = "wait" /\ r.data = thread[p][t].data /\ r.rpl # 0
    => thread[p][t].data \in signalled
Silent == \A q \in QueueNames : \A r \in Reqs(q) : r.rpl = 0 /\ r.client_pid # Svc =>
    /\ r.data \notin signalled
    /\ \A p \in Pids, t \in Threads : thread[p][t].at = "woken" => thread[p][t].data # r.data

CallInv == Dated /\ Distinct /\ Addressed /\ Callers /\ Awake /\ Silent

\* The data of requests is numbered, too.
LEMMA ReqsDated ==
    ASSUME Base, NEW q \in QueueNames, NEW r \in Reqs(q)
    PROVE  r \in RequestType /\ r.data \in 1 .. sent /\ (r.rpl # 0 => r.fetched)
<1>1. r \in RequestType
    BY ReqsTyped DEF Base
<1>2. PICK i \in 1 .. Len(Requests(q)) : r = Requests(q)[i]
    BY DEF Reqs, Elements
<1>3. r.data \in 1 .. MaxRequests /\ sent \in Nat
    BY <1>1 DEF RequestType, Base, TypeOK
<1>4. r.data <= sent /\ (r.rpl # 0 => r.fetched)
    BY <1>2 DEF Base, Ordered, GoodList
<1> QED BY <1>1, <1>3, <1>4

\* Requests are taken out and threads get done, nothing else.
Shrinks ==
    /\ signalled' = signalled /\ sent' \in Nat /\ sent <= sent'
    /\ \A q \in QueueNames : Reqs(q)' \subseteq Reqs(q)
    /\ \A p \in Pids, t \in Threads :
          thread'[p][t] = thread[p][t] \/ thread'[p][t].at \in {"idle", "check"}

\* Fewer requests and fewer calls keep CallInv.
LEMMA ShrinkCalls == ASSUME Base, CallInv, Shrinks PROVE CallInv'
<1>1. \A p \in Pids, t \in Threads :
         /\ Calls(p, t)' => Calls(p, t) /\ thread'[p][t] = thread[p][t]
         /\ Serves(p, t)' => Serves(p, t) /\ thread'[p][t] = thread[p][t]
         /\ thread'[p][t].at = "wait" => thread'[p][t] = thread[p][t]
         /\ thread'[p][t].at = "woken" => thread'[p][t] = thread[p][t]
    BY DEF Shrinks, Calls, Serves
<1>2. Dated'
    <2>1. sent \in Nat /\ sent' \in Nat /\ sent <= sent' /\ signalled' = signalled
        BY DEF Shrinks, Base, TypeOK
    <2>2. 0 .. sent \subseteq 0 .. sent' /\ 1 .. sent \subseteq 1 .. sent'
        BY <2>1
    <2> QED BY <1>1, <2>1, <2>2 DEF CallInv, Dated
<1>3. Distinct' /\ Addressed'
    BY DEF CallInv, Distinct, Addressed, Shrinks, EventOf
<1>4. Callers'
    BY <1>1 DEF CallInv, Callers, Shrinks
<1>5. Awake' /\ Silent'
    BY <1>1 DEF CallInv, Awake, Silent, Shrinks
<1> QED BY <1>2, <1>3, <1>4, <1>5 DEF CallInv

\* Three kinds of steps leave fewer requests and calls.
LEMMA KindShrinks ==
    ASSUME Base, NEW p \in Pids, NEW t \in Threads, NEW r,
           Loses \/ Takes(p, t, r) \/ Drops(p, t, r)
    PROVE  Shrinks
<1>1. sent \in Nat
    BY DEF Base, TypeOK
<1>2. CASE Loses
    BY <1>1, <1>2 DEF Loses, Rests, Shrinks, Counted
<1>3. CASE Takes(p, t, r)
    <2>1. PICK s \in Statuses : Becomes(p, t, Done(thread[p][t].data, r.rpl, s))
        BY <1>3 DEF Takes
    <2>2. Done(thread[p][t].data, r.rpl, s).at = "idle"
        BY ThreadFields
    <2>3. \A u \in Pids, v \in Threads :
             thread'[u][v] = thread[u][v] \/ thread'[u][v].at \in {"idle", "check"}
        BY <2>1, <2>2 DEF Becomes
    <2> QED BY <1>1, <1>3, <2>3 DEF Takes, Shrinks, Same, Holds
<1>4. CASE Drops(p, t, r)
    <2>1. PICK th : Rests(th) /\ Becomes(p, t, th)
        BY <1>4 DEF Drops
    <2>2. \A u \in Pids, v \in Threads :
             thread'[u][v] = thread[u][v] \/ thread'[u][v].at \in {"idle", "check"}
        BY <2>1 DEF Becomes, Rests
    <2> QED BY <1>1, <1>4, <2>2 DEF Drops, Shrinks, Same, Holds
<1> QED BY <1>2, <1>3, <1>4

\* A request that is put keeps CallInv: its place in the order and its event
\* are new.
LEMMA PutsCalls ==
    ASSUME Base, CallInv, NEW p \in Pids, NEW t \in Threads, NEW q \in QueueNames, Puts(p, t, q)
    PROVE  CallInv'
<1>1. PICK r : r = Request(p, Incremented, sent + 1)
    OBVIOUS
<1>2. r.client_pid = p /\ r.data = sent + 1 /\ r.rpl = 0 /\ r.client_event = EventOf(p, sent + 1)
    BY <1>1 DEF Request
<1>3. PICK th : th = Waiting(p, q, Incremented, sent + 1)
    OBVIOUS
<1>4. th.at = "wait" /\ th.data = sent + 1
    BY <1>3, ThreadFields DEF Waiting, Thread
<1>5. \A u \in Pids, v \in Threads : thread'[u][v] = IF u = p /\ v = t THEN th ELSE thread[u][v]
    BY <1>3 DEF Puts, Becomes
<1>6. \A x \in QueueNames : Reqs(x)' = IF x = q THEN Reqs(q) \cup {r} ELSE Reqs(x)
    BY <1>1 DEF Puts, Holds
<1>7. sent \in Nat /\ sent' = sent + 1 /\ signalled' = signalled
    BY DEF Puts, Base, TypeOK
<1>8. \A x \in QueueNames : \A e \in Reqs(x) : e.data \in 1 .. sent
    BY ReqsDated
<1>9. \A x \in QueueNames : \A e \in Reqs(x)' :
         \/ e \in Reqs(x) /\ e.data # sent + 1
         \/ e = r /\ x = q
    BY <1>6, <1>7, <1>8
<1>10. \A u \in Pids, v \in Threads :
         \/ u = p /\ v = t /\ thread'[u][v] = th
         \/ /\ thread'[u][v] = thread[u][v]
            /\ Calls(u, v) \/ Serves(u, v) => thread[u][v].data \in 1 .. sent
    BY <1>5 DEF CallInv, Dated
<1>11. ~(sent + 1 \in 1 .. sent) /\ ~(sent + 1 \in 0 .. sent)
    BY <1>7
<1>12. Dated'
    <2>1. 0 .. sent \subseteq 0 .. sent' /\ 1 .. sent \subseteq 1 .. sent' /\ sent + 1 \in 1 .. sent'
        BY <1>7
    <2>2. signalled' \subseteq 0 .. sent'
        BY <1>7, <2>1 DEF CallInv, Dated
    <2>3. \A u \in Pids, v \in Threads :
             Calls(u, v)' \/ Serves(u, v)' => thread'[u][v].data \in 1 .. sent'
        BY <1>4, <1>10, <2>1 DEF Calls, Serves
    <2> QED BY <2>2, <2>3 DEF Dated
<1>13. Distinct'
    BY <1>2, <1>9 DEF CallInv, Distinct
<1>14. Addressed'
    BY <1>2, <1>9 DEF CallInv, Addressed, EventOf
<1>15. Callers'
    <2>1. ASSUME NEW u \in Pids, NEW v \in Threads, NEW y \in Pids, NEW z \in Threads,
                 Calls(u, v)', Calls(y, z)', thread'[u][v].data = thread'[y][z].data
          PROVE  u = y /\ v = z
        BY <1>4, <1>10, <1>11, <2>1 DEF CallInv, Callers, Calls
    <2>2. ASSUME NEW u \in Pids, NEW v \in Threads, NEW x \in QueueNames, NEW e \in Reqs(x)',
                 Calls(u, v)', e.data = thread'[u][v].data
          PROVE  e.client_pid = u
        BY <1>2, <1>4, <1>9, <1>10, <1>11, <2>2 DEF CallInv, Callers, Calls
    <2> QED BY <2>1, <2>2 DEF Callers
<1>16. Awake'
    BY <1>2, <1>4, <1>7, <1>9, <1>10 DEF CallInv, Awake
<1>17. Silent'
    <2>1. signalled \subseteq 0 .. sent
        BY DEF CallInv, Dated
    <2>2. ASSUME NEW x \in QueueNames, NEW e \in Reqs(x)', e.rpl = 0, e.client_pid # Svc
          PROVE  e.data \notin signalled'
        BY <1>2, <1>7, <1>9, <1>11, <2>1, <2>2 DEF CallInv, Silent
    <2>3. ASSUME NEW x \in QueueNames, NEW e \in Reqs(x)', e.rpl = 0, e.client_pid # Svc,
                 NEW u \in Pids, NEW v \in Threads, thread'[u][v].at = "woken"
          PROVE  thread'[u][v].data # e.data
        BY <1>2, <1>4, <1>9, <1>10, <1>11, <2>3 DEF CallInv, Silent, Calls
    <2> QED BY <2>2, <2>3 DEF Silent
<1> QED BY <1>12, <1>13, <1>14, <1>15, <1>16, <1>17 DEF CallInv

\* A client that wakes keeps CallInv: the event it resets is its own.
LEMMA WakesCalls ==
    ASSUME Base, CallInv, NEW p \in Pids, NEW t \in Threads, Wakes(p, t)
    PROVE  CallInv'
<1>1. PICK th : th = [thread[p][t] EXCEPT !.at = "woken"]
    OBVIOUS
<1>2. /\ thread[p][t].at = "wait" /\ thread[p][t] \in ThreadType
      /\ \A u \in Pids, v \in Threads : thread'[u][v] = IF u = p /\ v = t THEN th ELSE thread[u][v]
    BY <1>1 DEF Wakes, Becomes, Base, TypeOK
<1>3. th.at = "woken" /\ th.data = thread[p][t].data
    BY <1>1, <1>2 DEF ThreadType
<1>4. /\ sent' = sent /\ signalled' = signalled \ {EventOf(p, th.data)}
      /\ EventOf(p, th.data) \in signalled
      /\ \A x \in QueueNames : Reqs(x)' = Reqs(x)
    BY <1>3 DEF Wakes, Same
<1>5. \A u \in Pids, v \in Threads :
         /\ thread'[u][v].data = thread[u][v].data
         /\ Calls(u, v)' <=> Calls(u, v)
         /\ Serves(u, v)' <=> Serves(u, v)
         /\ thread'[u][v].at = "wait" => thread[u][v].at = "wait" /\ ~(u = p /\ v = t)
         /\ thread'[u][v].at = "woken" => thread[u][v].at = "woken" \/ (u = p /\ v = t)
    BY <1>2, <1>3 DEF Calls, Serves
<1>6. Dated'
    BY <1>4, <1>5 DEF CallInv, Dated
<1>7. Distinct' /\ Addressed'
    BY <1>4 DEF CallInv, Distinct, Addressed, EventOf
<1>8. Callers'
    BY <1>4, <1>5 DEF CallInv, Callers
<1>9. Awake'
    <2>1. ASSUME NEW u \in Pids \ {Svc}, NEW v \in Threads, NEW x \in QueueNames,
                 NEW e \in Reqs(x)', thread'[u][v].at = "wait", e.data = thread'[u][v].data,
                 e.rpl # 0
          PROVE  thread'[u][v].data \in signalled'
        <3>1. /\ thread[u][v].at = "wait" /\ ~(u = p /\ v = t)
              /\ e \in Reqs(x) /\ e.data = thread[u][v].data
            BY <1>4, <1>5, <2>1
        <3>2. thread[u][v].data \in signalled
            BY <2>1, <3>1 DEF CallInv, Awake
        <3>3. thread[u][v].data # th.data
            BY <1>2, <1>3, <3>1 DEF CallInv, Callers, Calls
        <3>4. thread[u][v].data # 0
            BY <3>1 DEF Base, ThreadsOK
        <3> QED BY <1>4, <1>5, <3>2, <3>3, <3>4 DEF EventOf, SvcEvent
    <2> QED BY <2>1 DEF Awake
<1>10. Silent'
    <2>1. ASSUME NEW x \in QueueNames, NEW e \in Reqs(x)', e.rpl = 0, e.client_pid # Svc
          PROVE  e.data \notin signalled'
        BY <1>4, <2>1 DEF CallInv, Silent
    <2>2. ASSUME NEW x \in QueueNames, NEW e \in Reqs(x)', e.rpl = 0, e.client_pid # Svc,
                 NEW u \in Pids, NEW v \in Threads, thread'[u][v].at = "woken"
          PROVE  thread'[u][v].data # e.data
        <3>1. e \in Reqs(x)
            BY <1>4
        <3>2. CASE thread[u][v].at = "woken"
            BY <1>5, <2>2, <3>1, <3>2 DEF CallInv, Silent
        <3>3. CASE u = p /\ v = t
            <4>1. ASSUME e.data = th.data PROVE FALSE
                <5>1. e.client_pid = p
                    BY <1>2, <1>3, <3>1, <4>1 DEF CallInv, Callers, Calls
                <5>2. EventOf(p, th.data) = e.data
                    BY <2>2, <4>1, <5>1 DEF EventOf
                <5> QED BY <1>4, <2>2, <3>1, <5>2 DEF CallInv, Silent
            <4> QED BY <1>2, <3>3, <4>1
        <3> QED BY <1>5, <2>2, <3>2, <3>3
    <2> QED BY <2>1, <2>2 DEF Silent
<1> QED BY <1>6, <1>7, <1>8, <1>9, <1>10 DEF CallInv

\* Where a request is changed, not its data or client, the others are the same.
LEMMA ChangedRequest ==
    ASSUME Base, Distinct, Addressed, NEW q \in QueueNames, NEW r \in Reqs(q), NEW s,
           s.data = r.data /\ s.client_pid = r.client_pid /\ s.client_event = r.client_event,
           Holds(q, (Reqs(q) \ {r}) \cup {s})
    PROVE  /\ Distinct' /\ Addressed'
           /\ \A x \in QueueNames : \A e \in Reqs(x)' :
                 \/ e = s /\ x = q
                 \/ e \in Reqs(x) /\ e.data # r.data
<1>1. \A x \in QueueNames : \A e \in Reqs(x) : e.data = r.data => e = r /\ x = q
    BY DEF Distinct
<1>2. \A x \in QueueNames : \A e \in Reqs(x)' :
         \/ e = s /\ x = q
         \/ e \in Reqs(x) /\ e.data # r.data
    BY <1>1 DEF Holds
<1>3. Distinct'
    BY <1>2 DEF Distinct
<1>4. Addressed'
    BY <1>2 DEF Addressed, EventOf
<1> QED BY <1>2, <1>3, <1>4

\* A request that is fetched keeps CallInv.
LEMMA FetchesCalls ==
    ASSUME Base, CallInv, NEW p \in Pids, NEW t \in Threads, NEW r \in RequestType,
           Fetches(p, t, r)
    PROVE  CallInv'
<1>1. PICK q \in QueueNames : q = serves[p]
    BY DEF Fetches, Base, ThreadsOK
<1>2. PICK s : s = [r EXCEPT !.fetched = TRUE]
    OBVIOUS
<1>3. /\ s.data = r.data /\ s.client_pid = r.client_pid /\ s.client_event = r.client_event
      /\ s.rpl = r.rpl
    BY <1>2 DEF RequestType
<1>4. r \in Reqs(q) /\ Holds(q, (Reqs(q) \ {r}) \cup {s})
    BY <1>1, <1>2 DEF Fetches
<1>5. /\ Distinct' /\ Addressed'
      /\ \A x \in QueueNames : \A e \in Reqs(x)' :
            \/ e = s /\ x = q
            \/ e \in Reqs(x) /\ e.data # r.data
    BY <1>3, <1>4, ChangedRequest DEF CallInv
<1>6. sent' = sent /\ signalled' = signalled /\ sent \in Nat
    BY DEF Fetches, Same, Base, TypeOK
<1>7. PICK th : th = Serving(q, r)
    OBVIOUS
<1>8. th.at = "serve" /\ th.data = r.data
    BY <1>7 DEF Serving, Thread
<1>9. \A u \in Pids, v \in Threads : \/ thread'[u][v] = thread[u][v]
                                     \/ u = p /\ v = t /\ thread'[u][v] = th
    BY <1>1, <1>7 DEF Fetches, Becomes
<1>10. \A u \in Pids, v \in Threads :
         /\ Calls(u, v)' => Calls(u, v) /\ thread'[u][v] = thread[u][v]
         /\ thread'[u][v].at = "wait" => thread'[u][v] = thread[u][v]
         /\ thread'[u][v].at = "woken" => thread'[u][v] = thread[u][v]
    BY <1>8, <1>9 DEF Calls
<1>11. Dated'
    <2>1. r.data \in 1 .. sent
        BY <1>4, ReqsDated
    <2>2. \A u \in Pids, v \in Threads :
             Calls(u, v)' \/ Serves(u, v)' => thread'[u][v].data \in 1 .. sent
        BY <1>8, <1>9, <2>1 DEF CallInv, Dated, Calls, Serves
    <2> QED BY <1>6, <2>2 DEF CallInv, Dated
<1>12. Callers'
    <2>1. ASSUME NEW u \in Pids, NEW v \in Threads, NEW x \in QueueNames, NEW e \in Reqs(x)',
                 Calls(u, v)', e.data = thread'[u][v].data
          PROVE  e.client_pid = u
        BY <1>3, <1>4, <1>5, <1>10, <2>1 DEF CallInv, Callers
    <2>2. ASSUME NEW u \in Pids, NEW v \in Threads, NEW y \in Pids, NEW z \in Threads,
                 Calls(u, v)', Calls(y, z)', thread'[u][v].data = thread'[y][z].data
          PROVE  u = y /\ v = z
        BY <1>10, <2>2 DEF CallInv, Callers
    <2> QED BY <2>1, <2>2 DEF Callers
<1>13. Awake'
    BY <1>3, <1>4, <1>5, <1>6, <1>10 DEF CallInv, Awake
<1>14. Silent'
    BY <1>3, <1>4, <1>5, <1>6, <1>10 DEF CallInv, Silent
<1> QED BY <1>5, <1>11, <1>12, <1>13, <1>14 DEF CallInv

\* A reply that is stored keeps CallInv: it signals the event of its client.
LEMMA StoresCalls ==
    ASSUME Base, CallInv, NEW p \in Pids, NEW t \in Threads, NEW r \in RequestType,
           Stores(p, t, r)
    PROVE  CallInv'
<1>1. PICK q \in QueueNames : q = thread[p][t].name
    BY DEF Stores, Base, ThreadsOK
<1>2. PICK s : s = [r EXCEPT !.rpl = thread[p][t].data]
    OBVIOUS
<1>3. /\ s.data = r.data /\ s.client_pid = r.client_pid /\ s.client_event = r.client_event
      /\ s.rpl = thread[p][t].data /\ s.rpl # 0
    BY <1>2 DEF RequestType, Stores, Base, ThreadsOK
<1>4. r \in Reqs(q) /\ Holds(q, (Reqs(q) \ {r}) \cup {s})
    BY <1>1, <1>2 DEF Stores
<1>5. /\ Distinct' /\ Addressed'
      /\ \A x \in QueueNames : \A e \in Reqs(x)' :
            \/ e = s /\ x = q
            \/ e \in Reqs(x) /\ e.data # r.data
    BY <1>3, <1>4, ChangedRequest DEF CallInv
<1>6. sent' = sent /\ signalled' = signalled \cup {r.client_event} /\ sent \in Nat
    BY DEF Stores, Same, Base, TypeOK
<1>7. r.client_event = EventOf(r.client_pid, r.data) /\ r.data \in 1 .. sent
    BY <1>4, ReqsDated DEF CallInv, Addressed
<1>8. \A u \in Pids, v \in Threads :
         \/ thread'[u][v] = thread[u][v]
         \/ thread'[u][v].at \in {"idle", "check"}
    BY DEF Stores, Becomes, Rests
<1>9. \A u \in Pids, v \in Threads :
         /\ Calls(u, v)' => Calls(u, v) /\ thread'[u][v] = thread[u][v]
         /\ Serves(u, v)' => Serves(u, v) /\ thread'[u][v] = thread[u][v]
         /\ thread'[u][v].at = "wait" => thread'[u][v] = thread[u][v]
         /\ thread'[u][v].at = "woken" => thread'[u][v] = thread[u][v]
    BY <1>8 DEF Calls, Serves
<1>10. Dated'
    <2>1. r.client_event \in 0 .. sent
        BY <1>6, <1>7 DEF EventOf, SvcEvent
    <2> QED BY <1>6, <1>9, <2>1 DEF CallInv, Dated
<1>11. Callers'
    <2>1. ASSUME NEW u \in Pids, NEW v \in Threads, NEW x \in QueueNames, NEW e \in Reqs(x)',
                 Calls(u, v)', e.data = thread'[u][v].data
          PROVE  e.client_pid = u
        BY <1>3, <1>4, <1>5, <1>9, <2>1 DEF CallInv, Callers
    <2>2. ASSUME NEW u \in Pids, NEW v \in Threads, NEW y \in Pids, NEW z \in Threads,
                 Calls(u, v)', Calls(y, z)', thread'[u][v].data = thread'[y][z].data
          PROVE  u = y /\ v = z
        BY <1>9, <2>2 DEF CallInv, Callers
    <2> QED BY <2>1, <2>2 DEF Callers
<1>12. Awake'
    <2>1. ASSUME NEW u \in Pids \ {Svc}, NEW v \in Threads, NEW x \in QueueNames,
                 NEW e \in Reqs(x)', thread'[u][v].at = "wait", e.data = thread'[u][v].data,
                 e.rpl # 0
          PROVE  thread'[u][v].data \in signalled'
        <3>1. thread'[u][v] = thread[u][v] /\ Calls(u, v)
            BY <1>9, <2>1 DEF Calls
        <3>2. CASE e = s
            <4>1. r.client_pid = u /\ r.data = thread[u][v].data
                BY <1>3, <1>4, <2>1, <3>1, <3>2 DEF CallInv, Callers
            <4> QED BY <1>6, <1>7, <3>1, <4>1 DEF EventOf
        <3>3. CASE e \in Reqs(x)
            BY <1>6, <2>1, <3>1, <3>3 DEF CallInv, Awake
        <3> QED BY <1>5, <3>2, <3>3
    <2> QED BY <2>1 DEF Awake
<1>13. Silent'
    <2>1. ASSUME NEW x \in QueueNames, NEW e \in Reqs(x)', e.rpl = 0, e.client_pid # Svc
          PROVE  e.data \notin signalled'
        <3>1. e \in Reqs(x) /\ e.data # r.data
            BY <1>3, <1>5, <2>1
        <3>2. e.data \in 1 .. sent
            BY <3>1, ReqsDated
        <3>3. e.data # r.client_event
            BY <1>6, <1>7, <3>1, <3>2 DEF EventOf, SvcEvent
        <3> QED BY <1>6, <2>1, <3>1, <3>3 DEF CallInv, Silent
    <2>2. ASSUME NEW x \in QueueNames, NEW e \in Reqs(x)', e.rpl = 0, e.client_pid # Svc,
                 NEW u \in Pids, NEW v \in Threads, thread'[u][v].at = "woken"
          PROVE  thread'[u][v].data # e.data
        BY <1>3, <1>5, <1>9, <2>2 DEF CallInv, Silent
    <2> QED BY <2>1, <2>2 DEF Silent
<1> QED BY <1>5, <1>10, <1>11, <1>12, <1>13 DEF CallInv

\* Every step keeps what is known of the calls.
LEMMA CallStep == Base /\ CallInv /\ [Next]_vars => CallInv'
<1> SUFFICES ASSUME Base, CallInv, [Next]_vars PROVE CallInv'
    OBVIOUS
<1>1. CASE Loses
    <2>1. sent \in Nat
        BY DEF Base, TypeOK
    <2>2. Shrinks
        BY <1>1, <2>1 DEF Loses, Rests, Shrinks, Counted
    <2> QED BY <2>2, ShrinkCalls
<1>2. ASSUME NEW p \in Pids, NEW t \in Threads, NEW r \in RequestType,
             Takes(p, t, r) \/ Drops(p, t, r)
      PROVE  CallInv'
    BY <1>2, KindShrinks, ShrinkCalls
<1> QED BY <1>1, <1>2, StepKind, PutsCalls, WakesCalls, FetchesCalls, StoresCalls DEF Kind

\* CallInv holds at first.
LEMMA CallInit == Init => CallInv
<1> SUFFICES ASSUME Init PROVE CallInv
    OBVIOUS
<1>1. \A p \in Pids, t \in Threads : thread[p][t].at = "idle"
    BY ThreadFields DEF Init, Statuses
<1>2. \A q \in QueueNames : Reqs(q) = {}
    BY DEF Init, Reqs, Elements, Requests, NoQueue
<1>3. Dated
    BY <1>1 DEF Init, Dated, Calls, Serves
<1>4. Distinct /\ Addressed /\ Callers /\ Awake /\ Silent
    BY <1>1, <1>2 DEF Distinct, Addressed, Callers, Awake, Silent, Calls
<1> QED BY <1>3, <1>4 DEF CallInv

\* A client other than the service does not sleep through its reply: the event
\* that PutRplHandler signals is the one that the client of that request waits
\* on, and no other call resets it, whatever timeouts, late replies, ends of
\* processes and wrapped numbers come before.
THEOREM ReplyWakes == Spec => []ReplyWakesClient
<1>1. Init => Base /\ CallInv
    BY BaseInit, CallInit
<1>2. Base /\ CallInv /\ [Next]_vars => (Base /\ CallInv)'
    BY BaseStep, CallStep
<1>3. Base /\ CallInv => ReplyWakesClient
    <2> SUFFICES ASSUME Base, CallInv PROVE ReplyWakesClient
        OBVIOUS
    <2>1. \A q \in QueueNames : \A i \in Positions(q) : Requests(q)[i] \in Reqs(q)
        BY DEF Positions, Reqs, Elements
    <2> QED BY <2>1 DEF CallInv, Awake, ReplyWakesClient, EventOf
<1> QED BY <1>1, <1>2, <1>3, PTL DEF Spec, Safety

-----------------------------------------------------------------------------
(* Calls while no number comes back *)

\* The counter of requests has a number for each of them: it starts at 1, and a
\* request gets one of 2 .. IdMod - 1.
NumbersDistinct == MaxRequests <= IdMod - 2

\* The number of a request is a matter of its data.
Numbers ==
    /\ sent < MaxRequests => m_RequestId = sent + 1
    /\ \A q \in QueueNames : \A r \in Reqs(q) : r.request_id = r.data + 1
    /\ \A p \in Pids, t \in Threads :
          Calls(p, t) \/ Serves(p, t) => thread[p][t].id = thread[p][t].data + 1
\* Replies answer their request.
Replied ==
    /\ \A q \in QueueNames : \A r \in Reqs(q) : r.rpl \in {0, r.data}
    /\ \A p \in Pids, t \in Threads : thread[p][t].reply \in {0, thread[p][t].data}
\* One thread serves a request, which was fetched, is not answered yet and, but
\* for requests of the service, stays in its queue.
OneServer == \A p1, p2 \in Pids, t1, t2 \in Threads :
    /\ Serves(p1, t1) /\ Serves(p2, t2) /\ thread[p1][t1].data = thread[p2][t2].data
    => p1 = p2 /\ t1 = t2
Fetched == \A p \in Pids, t \in Threads : Serves(p, t) =>
    /\ thread[p][t].status = "SUCCESS"
    /\ \A q \in QueueNames : \A r \in Reqs(q) : r.data = thread[p][t].data =>
          r.fetched /\ r.rpl = 0 /\ r.client_pid = thread[p][t].client
Kept == \A p \in Pids, t \in Threads : Serves(p, t) /\ thread[p][t].client # Svc =>
    \E r \in Reqs(thread[p][t].name) : r.data = thread[p][t].data
ServeInv == Numbers /\ Replied /\ OneServer /\ Fetched /\ Kept

\* The number that PutReqHandler takes, and the counter after it.
LEMMA NextNumbers ==
    ASSUME Base, NumbersDistinct, Numbers, sent < MaxRequests
    PROVE  Incremented = sent + 2 /\ (sent + 1 < MaxRequests => SkipReserved(Incremented) = sent + 2)
<1>1. Incremented = m_RequestId + 1 /\ sent \in Nat /\ m_RequestId = sent + 1
    BY NextNumber DEF Base, TypeOK, Numbers
<1> QED BY <1>1 DEF NumbersDistinct, SkipReserved

\* The counter after any step.
LEMMA CounterStep ==
    ASSUME Base, NumbersDistinct, Numbers, Counted
    PROVE  sent' < MaxRequests => m_RequestId' = sent' + 1
<1>1. sent \in Nat
    BY DEF Base, TypeOK
<1>2. CASE sent' = sent /\ m_RequestId' = m_RequestId
    BY <1>2 DEF Numbers
<1>3. CASE sent < MaxRequests /\ sent' = sent + 1 /\ m_RequestId' = SkipReserved(Incremented)
    BY <1>1, <1>3, NextNumbers
<1> QED BY <1>2, <1>3 DEF Counted

\* A thread that serves is in the queue of its process, which is alive.
LEMMA ServedQueue ==
    ASSUME Base, NEW p \in Pids, NEW t \in Threads, Serves(p, t)
    PROVE  /\ thread[p][t].name \in QueueNames /\ thread[p][t].name = serves[p]
           /\ ServerProcessIsActive(thread[p][t].name)
           /\ m_queues[thread[p][t].name].server_pid = p
BY NoNameIsNone DEF Base, ThreadsOK, Serves, Servers, ServerKeepsQueue

\* The request with the number that a thread works on is its own.
LEMMA SameNumber ==
    ASSUME Base, ServeInv, NEW p \in Pids, NEW t \in Threads, Calls(p, t) \/ Serves(p, t),
           NEW r \in Reqs(thread[p][t].name), r.request_id = thread[p][t].id
    PROVE  r.data = thread[p][t].data
<1>1. PICK q \in QueueNames : q = thread[p][t].name
    BY DEF Base, ThreadsOK, Calls, Serves
<1>2. r.request_id = r.data + 1 /\ thread[p][t].id = thread[p][t].data + 1
    BY <1>1 DEF ServeInv, Numbers
<1>3. r.data \in Nat
    BY <1>1, ReqsDated DEF Base, TypeOK
<1>4. thread[p][t].data \in Nat
    BY DEF Base, TypeOK, ThreadType
<1>5. r.data + 1 = thread[p][t].data + 1
    BY <1>2
<1> QED BY <1>3, <1>4, <1>5

\* What steps have in common that take requests out and let threads rest.
LEMMA ShrinkServes ==
    ASSUME Base, CallInv, ServeInv, NumbersDistinct, Shrinks, Counted,
           \A p \in Pids, t \in Threads :
              \/ thread'[p][t] = thread[p][t]
              \/ thread'[p][t].reply \in {0, thread'[p][t].data},
           \A p \in Pids, t \in Threads : Serves(p, t)' /\ thread[p][t].client # Svc =>
              \A r \in Reqs(thread[p][t].name) : r.data = thread[p][t].data =>
                 r \in Reqs(thread[p][t].name)'
    PROVE  ServeInv'
<1>1. \A p \in Pids, t \in Threads :
         /\ Calls(p, t)' => Calls(p, t) /\ thread'[p][t] = thread[p][t]
         /\ Serves(p, t)' => Serves(p, t) /\ thread'[p][t] = thread[p][t]
    BY DEF Shrinks, Calls, Serves
<1>2. \A q \in QueueNames : Reqs(q)' \subseteq Reqs(q)
    BY DEF Shrinks
<1>3. Numbers'
    <2>1. sent' < MaxRequests => m_RequestId' = sent' + 1
        BY CounterStep DEF ServeInv
    <2> QED BY <1>1, <1>2, <2>1 DEF ServeInv, Numbers
<1>4. Replied'
    BY <1>2 DEF ServeInv, Replied
<1>5. OneServer' /\ Fetched'
    BY <1>1, <1>2 DEF ServeInv, OneServer, Fetched
<1>6. Kept'
    <2> SUFFICES ASSUME NEW p \in Pids, NEW t \in Threads, Serves(p, t)', thread'[p][t].client # Svc
                 PROVE  \E r \in Reqs(thread[p][t].name)' : r.data = thread[p][t].data
        BY <1>1 DEF Kept
    <2>1. PICK r \in Reqs(thread[p][t].name) : r.data = thread[p][t].data
        BY <1>1 DEF ServeInv, Kept
    <2> QED BY <1>1, <2>1
<1> QED BY <1>3, <1>4, <1>5, <1>6 DEF ServeInv

\* Requests and calls that are lost keep ServeInv.
LEMMA LosesServes ==
    ASSUME Base, CallInv, ServeInv, NumbersDistinct, Loses PROVE ServeInv'
<1>1. sent \in Nat
    BY DEF Base, TypeOK
<1>2. Shrinks /\ Counted
    BY <1>1 DEF Loses, Rests, Shrinks, Counted
<1>3. \A p \in Pids, t \in Threads :
         \/ thread'[p][t] = thread[p][t]
         \/ thread'[p][t].reply \in {0, thread'[p][t].data}
    BY DEF Loses, Rests
<1>4. ASSUME NEW p \in Pids, NEW t \in Threads, Serves(p, t)', NEW r \in Reqs(thread[p][t].name)
      PROVE  r \in Reqs(thread[p][t].name)'
    <2>1. thread'[p][t] = thread[p][t] /\ Serves(p, t)
        BY <1>4 DEF Loses, Rests, Serves
    <2>2. PICK q \in QueueNames : q = thread[p][t].name /\ ServerProcessIsActive(q)
        BY <2>1, ServedQueue
    <2>3. Reqs(q)' = Reqs(q)
        BY <2>2 DEF Loses
    <2> QED BY <1>4, <2>1, <2>2, <2>3
<1> QED BY <1>2, <1>3, <1>4, ShrinkServes

\* A reply that is collected keeps ServeInv.
LEMMA TakesServes ==
    ASSUME Base, CallInv, ServeInv, NumbersDistinct, NEW p \in Pids, NEW t \in Threads,
           NEW r \in RequestType, Takes(p, t, r)
    PROVE  ServeInv'
<1>1. Shrinks /\ Counted
    BY KindShrinks DEF Takes, Same, Counted
<1>2. PICK q \in QueueNames : q = thread[p][t].name
    BY DEF Takes, Base, ThreadsOK
<1>3. r.data = thread[p][t].data
    BY SameNumber DEF Takes, Calls
<1>4. PICK th : /\ Becomes(p, t, th) /\ th.at = "idle"
                /\ th.data = thread[p][t].data /\ th.reply = r.rpl
    BY ThreadFields DEF Takes
<1>5. \A u \in Pids, v \in Threads :
         \/ thread'[u][v] = thread[u][v]
         \/ thread'[u][v].reply \in {0, thread'[u][v].data}
    BY <1>2, <1>3, <1>4 DEF Becomes, ServeInv, Replied, Takes
<1>6. ASSUME NEW u \in Pids, NEW v \in Threads, Serves(u, v)', thread[u][v].client # Svc,
             NEW e \in Reqs(thread[u][v].name), e.data = thread[u][v].data
      PROVE  e \in Reqs(thread[u][v].name)'
    <2>1. thread'[u][v] = thread[u][v] /\ Serves(u, v)
        BY <1>4, <1>6 DEF Becomes, Serves
    <2>2. PICK x \in QueueNames : x = thread[u][v].name
        BY <2>1, ServedQueue
    <2>3. e.rpl = 0 /\ e.client_pid # Svc
        BY <1>6, <2>1, <2>2 DEF ServeInv, Fetched
    <2>4. e # r
        BY <1>3, <1>6, <2>2, <2>3 DEF CallInv, Silent, Takes
    <2> QED BY <1>2, <1>6, <2>1, <2>2, <2>4 DEF Takes, Holds
<1> QED BY <1>1, <1>5, <1>6, ShrinkServes

\* A reply to a client that has gone keeps ServeInv.
LEMMA DropsServes ==
    ASSUME Base, CallInv, ServeInv, NumbersDistinct, NEW p \in Pids, NEW t \in Threads,
           NEW r \in RequestType, Drops(p, t, r)
    PROVE  ServeInv'
<1>1. Shrinks /\ Counted
    BY KindShrinks DEF Drops, Same, Counted
<1>2. PICK q \in QueueNames : q = thread[p][t].name
    BY DEF Drops, Base, ThreadsOK
<1>3. r.data = thread[p][t].data
    BY SameNumber DEF Drops, Serves
<1>4. PICK th : Becomes(p, t, th) /\ Rests(th)
    BY DEF Drops
<1>5. \A u \in Pids, v \in Threads :
         \/ thread'[u][v] = thread[u][v]
         \/ thread'[u][v].reply \in {0, thread'[u][v].data}
    BY <1>4 DEF Becomes, Rests
<1>6. ASSUME NEW u \in Pids, NEW v \in Threads, Serves(u, v)', thread[u][v].client # Svc,
             NEW e \in Reqs(thread[u][v].name), e.data = thread[u][v].data
      PROVE  e \in Reqs(thread[u][v].name)'
    <2>1. thread'[u][v] = thread[u][v] /\ Serves(u, v) /\ ~(u = p /\ v = t)
        BY <1>4, <1>6 DEF Becomes, Serves, Rests
    <2>2. PICK x \in QueueNames : x = thread[u][v].name
        BY <2>1, ServedQueue
    <2>3. e # r
        BY <1>3, <1>6, <2>1 DEF ServeInv, OneServer, Drops, Serves
    <2> QED BY <1>2, <1>6, <2>1, <2>2, <2>3 DEF Drops, Holds
<1> QED BY <1>1, <1>5, <1>6, ShrinkServes

\* A request that is put keeps ServeInv: its number was not used before.
LEMMA PutsServes ==
    ASSUME Base, CallInv, ServeInv, NumbersDistinct,
           NEW p \in Pids, NEW t \in Threads, NEW q \in QueueNames, Puts(p, t, q)
    PROVE  ServeInv'
<1>1. PICK r : r = Request(p, Incremented, sent + 1)
    OBVIOUS
<1>2. sent \in Nat /\ Incremented = sent + 2
    BY NextNumbers DEF Puts, Base, TypeOK, ServeInv
<1>3. r.client_pid = p /\ r.data = sent + 1 /\ r.rpl = 0 /\ r.request_id = sent + 1 + 1
    BY <1>1, <1>2 DEF Request
<1>4. PICK th : th = Waiting(p, q, Incremented, sent + 1)
    OBVIOUS
<1>5. th.at = "wait" /\ th.data = sent + 1 /\ th.id = sent + 1 + 1 /\ th.reply = 0
    BY <1>2, <1>4 DEF Waiting, Thread
<1>6. \A u \in Pids, v \in Threads : \/ thread'[u][v] = thread[u][v]
                                     \/ thread'[u][v] = th
    BY <1>4 DEF Puts, Becomes
<1>7. \A x \in QueueNames : /\ Reqs(x) \subseteq Reqs(x)'
                            /\ \A e \in Reqs(x)' : e \in Reqs(x) \/ e = r
    BY <1>1 DEF Puts, Holds
<1>8. \A u \in Pids, v \in Threads :
         /\ Serves(u, v)' => /\ Serves(u, v) /\ thread'[u][v] = thread[u][v]
                             /\ thread[u][v].data # sent + 1
         /\ Calls(u, v)' => (Calls(u, v) /\ thread'[u][v] = thread[u][v]) \/ thread'[u][v] = th
    BY <1>2, <1>5, <1>6 DEF Serves, Calls, CallInv, Dated
<1>9. Numbers'
    <2>1. sent' < MaxRequests => m_RequestId' = sent' + 1
        BY CounterStep DEF ServeInv, Puts, Counted
    <2>2. \A x \in QueueNames : \A e \in Reqs(x)' : e.request_id = e.data + 1
        BY <1>3, <1>7 DEF ServeInv, Numbers
    <2>3. \A u \in Pids, v \in Threads :
             Calls(u, v)' \/ Serves(u, v)' => thread'[u][v].id = thread'[u][v].data + 1
        BY <1>5, <1>8 DEF ServeInv, Numbers
    <2> QED BY <2>1, <2>2, <2>3 DEF Numbers
<1>10. Replied'
    BY <1>3, <1>5, <1>6, <1>7 DEF ServeInv, Replied
<1>11. OneServer'
    BY <1>8 DEF ServeInv, OneServer
<1>12. Fetched'
    BY <1>3, <1>7, <1>8 DEF ServeInv, Fetched
<1>13. Kept'
    <2>1. ASSUME NEW u \in Pids, NEW v \in Threads, Serves(u, v)', thread'[u][v].client # Svc
          PROVE  \E e \in Reqs(thread[u][v].name)' : e.data = thread'[u][v].data
        <3>1. PICK x \in QueueNames : x = thread[u][v].name
            BY <1>8, <2>1, ServedQueue
        <3>2. PICK e \in Reqs(x) : e.data = thread[u][v].data
            BY <1>8, <2>1, <3>1 DEF ServeInv, Kept
        <3> QED BY <1>7, <1>8, <2>1, <3>1, <3>2
    <2> QED BY <2>1 DEF Kept
<1> QED BY <1>9, <1>10, <1>11, <1>12, <1>13 DEF ServeInv

\* A client that wakes keeps ServeInv.
LEMMA WakesServes ==
    ASSUME Base, CallInv, ServeInv, NumbersDistinct, NEW p \in Pids, NEW t \in Threads, Wakes(p, t)
    PROVE  ServeInv'
<1>1. PICK th : th = [thread[p][t] EXCEPT !.at = "woken"]
    OBVIOUS
<1>2. /\ thread[p][t].at = "wait" /\ thread[p][t] \in ThreadType
      /\ \A u \in Pids, v \in Threads : thread'[u][v] = IF u = p /\ v = t THEN th ELSE thread[u][v]
    BY <1>1 DEF Wakes, Becomes, Base, TypeOK
<1>3. /\ th.at = "woken" /\ th.data = thread[p][t].data /\ th.id = thread[p][t].id
      /\ th.reply = thread[p][t].reply
    BY <1>1, <1>2 DEF ThreadType
<1>4. sent' = sent /\ m_RequestId' = m_RequestId /\ \A x \in QueueNames : Reqs(x)' = Reqs(x)
    BY DEF Wakes, Same
<1>5. \A u \in Pids, v \in Threads :
         /\ Serves(u, v)' => Serves(u, v) /\ thread'[u][v] = thread[u][v]
         /\ thread'[u][v].data = thread[u][v].data /\ thread'[u][v].id = thread[u][v].id
         /\ thread'[u][v].reply = thread[u][v].reply
         /\ Calls(u, v)' => Calls(u, v)
    BY <1>2, <1>3 DEF Serves, Calls
<1>6. Numbers' /\ Replied'
    BY <1>4, <1>5 DEF ServeInv, Numbers, Replied
<1>7. OneServer' /\ Fetched'
    BY <1>4, <1>5 DEF ServeInv, OneServer, Fetched
<1>8. Kept'
    <2>1. ASSUME NEW u \in Pids, NEW v \in Threads, Serves(u, v)', thread'[u][v].client # Svc
          PROVE  \E e \in Reqs(thread[u][v].name)' : e.data = thread'[u][v].data
        <3>1. PICK x \in QueueNames : x = thread[u][v].name
            BY <1>5, <2>1, ServedQueue
        <3>2. PICK e \in Reqs(x) : e.data = thread[u][v].data
            BY <1>5, <2>1, <3>1 DEF ServeInv, Kept
        <3> QED BY <1>4, <1>5, <2>1, <3>1, <3>2
    <2> QED BY <2>1 DEF Kept
<1> QED BY <1>6, <1>7, <1>8 DEF ServeInv

\* A request that is fetched keeps ServeInv: nobody else serves it.
LEMMA FetchesServes ==
    ASSUME Base, CallInv, ServeInv, NumbersDistinct, NEW p \in Pids, NEW t \in Threads,
           NEW r \in RequestType, Fetches(p, t, r)
    PROVE  ServeInv'
<1>1. PICK q \in QueueNames : q = serves[p]
    BY DEF Fetches, Base, ThreadsOK
<1>2. PICK s : s = [r EXCEPT !.fetched = TRUE]
    OBVIOUS
<1>3. /\ s.data = r.data /\ s.client_pid = r.client_pid /\ s.client_event = r.client_event
      /\ s.rpl = r.rpl /\ s.request_id = r.request_id /\ s.fetched
    BY <1>2 DEF RequestType
<1>4. r \in Reqs(q) /\ ~r.fetched /\ Holds(q, (Reqs(q) \ {r}) \cup {s})
    BY <1>1, <1>2 DEF Fetches
<1>5. \A x \in QueueNames : \A e \in Reqs(x)' :
         \/ e = s /\ x = q
         \/ e \in Reqs(x) /\ e.data # r.data
    BY <1>3, <1>4, ChangedRequest DEF CallInv
<1>6. \A x \in QueueNames : \A e \in Reqs(x) : \E f \in Reqs(x)' : f.data = e.data
    BY <1>3, <1>4 DEF Holds
<1>7. r.rpl = 0 /\ r.data \in Nat
    BY <1>4, ReqsDated DEF Base, TypeOK
<1>8. PICK th : th = Serving(q, r)
    OBVIOUS
<1>9. /\ th.at = "serve" /\ th.data = r.data /\ th.id = r.request_id /\ th.client = r.client_pid
      /\ th.reply = 0 /\ th.status = "SUCCESS" /\ th.name = q
    BY <1>8 DEF Serving, Thread
<1>10. \A u \in Pids, v \in Threads : \/ thread'[u][v] = thread[u][v] /\ ~(u = p /\ v = t)
                                      \/ u = p /\ v = t /\ thread'[u][v] = th
    BY <1>1, <1>8 DEF Fetches, Becomes
<1>11. \A u \in Pids, v \in Threads : Serves(u, v) => thread[u][v].data # r.data
    BY <1>4 DEF ServeInv, Fetched
<1>12. \A u \in Pids, v \in Threads :
         /\ Calls(u, v)' => Calls(u, v) /\ thread'[u][v] = thread[u][v]
         /\ Serves(u, v)' => \/ u = p /\ v = t /\ thread'[u][v] = th
                             \/ /\ Serves(u, v) /\ thread'[u][v] = thread[u][v]
                                /\ thread'[u][v].data # r.data
    BY <1>9, <1>10, <1>11 DEF Calls, Serves
<1>13. Numbers'
    <2>1. sent' = sent /\ m_RequestId' = m_RequestId
        BY DEF Fetches, Same
    <2>2. r.request_id = r.data + 1
        BY <1>4 DEF ServeInv, Numbers
    <2>3. \A x \in QueueNames : \A e \in Reqs(x)' : e.request_id = e.data + 1
        BY <1>3, <1>5, <2>2 DEF ServeInv, Numbers
    <2>4. \A u \in Pids, v \in Threads :
             Calls(u, v)' \/ Serves(u, v)' => thread'[u][v].id = thread'[u][v].data + 1
        BY <1>9, <1>12, <2>2 DEF ServeInv, Numbers
    <2> QED BY <2>1, <2>3, <2>4 DEF ServeInv, Numbers
<1>14. Replied'
    <2>1. \A x \in QueueNames : \A e \in Reqs(x)' : e.rpl \in {0, e.data}
        BY <1>3, <1>5, <1>7 DEF ServeInv, Replied
    <2>2. \A u \in Pids, v \in Threads : thread'[u][v].reply \in {0, thread'[u][v].data}
        BY <1>9, <1>10 DEF ServeInv, Replied
    <2> QED BY <2>1, <2>2 DEF Replied
<1>15. OneServer'
    BY <1>9, <1>12 DEF ServeInv, OneServer
<1>16. Fetched'
    <2>1. ASSUME NEW u \in Pids, NEW v \in Threads, Serves(u, v)'
          PROVE  thread'[u][v].status = "SUCCESS"
        BY <1>9, <1>12, <2>1 DEF ServeInv, Fetched
    <2>2. ASSUME NEW u \in Pids, NEW v \in Threads, Serves(u, v)', NEW x \in QueueNames,
                 NEW e \in Reqs(x)', e.data = thread'[u][v].data
          PROVE  e.fetched /\ e.rpl = 0 /\ e.client_pid = thread'[u][v].client
        <3>1. CASE u = p /\ v = t /\ thread'[u][v] = th
            BY <1>3, <1>5, <1>7, <1>9, <2>2, <3>1
        <3>2. CASE Serves(u, v) /\ thread'[u][v] = thread[u][v] /\ thread'[u][v].data # r.data
            BY <1>3, <1>5, <2>2, <3>2 DEF ServeInv, Fetched
        <3> QED BY <1>12, <2>2, <3>1, <3>2
    <2> QED BY <2>1, <2>2 DEF Fetched
<1>17. Kept'
    <2>1. ASSUME NEW u \in Pids, NEW v \in Threads, Serves(u, v)', thread'[u][v].client # Svc
          PROVE  \E e \in Reqs(thread[u][v].name)' : e.data = thread'[u][v].data
        <3>1. CASE u = p /\ v = t /\ thread'[u][v] = th
            BY <1>4, <1>6, <1>9, <3>1
        <3>2. CASE Serves(u, v) /\ thread'[u][v] = thread[u][v]
            <4>1. PICK x \in QueueNames : x = thread[u][v].name
                BY <3>2, ServedQueue
            <4>2. PICK e \in Reqs(x) : e.data = thread[u][v].data
                BY <2>1, <3>2, <4>1 DEF ServeInv, Kept
            <4> QED BY <1>6, <3>2, <4>1, <4>2
        <3> QED BY <1>12, <2>1, <3>1, <3>2
    <2> QED BY <2>1 DEF Kept
<1> QED BY <1>13, <1>14, <1>15, <1>16, <1>17 DEF ServeInv

\* A reply that is stored keeps ServeInv: it goes to the request it answers.
LEMMA StoresServes ==
    ASSUME Base, CallInv, ServeInv, NumbersDistinct, NEW p \in Pids, NEW t \in Threads,
           NEW r \in RequestType, Stores(p, t, r)
    PROVE  ServeInv'
<1>1. PICK q \in QueueNames : q = thread[p][t].name
    BY DEF Stores, Base, ThreadsOK
<1>2. PICK s : s = [r EXCEPT !.rpl = thread[p][t].data]
    OBVIOUS
<1>3. /\ s.data = r.data /\ s.client_pid = r.client_pid /\ s.client_event = r.client_event
      /\ s.rpl = thread[p][t].data /\ s.request_id = r.request_id
    BY <1>2 DEF RequestType
<1>4. r \in Reqs(q) /\ Holds(q, (Reqs(q) \ {r}) \cup {s})
    BY <1>1, <1>2 DEF Stores
<1>5. \A x \in QueueNames : \A e \in Reqs(x)' :
         \/ e = s /\ x = q
         \/ e \in Reqs(x) /\ e.data # r.data
    BY <1>3, <1>4, ChangedRequest DEF CallInv
<1>6. \A x \in QueueNames : \A e \in Reqs(x) : \E f \in Reqs(x)' : f.data = e.data
    BY <1>3, <1>4 DEF Holds
<1>7. r.data = thread[p][t].data
    BY SameNumber DEF Stores, Serves
<1>8. PICK th : Rests(th) /\ Becomes(p, t, th)
    BY DEF Stores
<1>9. \A u \in Pids, v \in Threads :
         /\ Calls(u, v)' => Calls(u, v) /\ thread'[u][v] = thread[u][v]
         /\ Serves(u, v)' => /\ Serves(u, v) /\ thread'[u][v] = thread[u][v]
                             /\ ~(u = p /\ v = t)
    BY <1>8 DEF Calls, Serves, Rests, Becomes
<1>10. \A u \in Pids, v \in Threads : Serves(u, v)' => thread'[u][v].data # r.data
    BY <1>7, <1>9 DEF ServeInv, OneServer, Serves, Stores
<1>11. Numbers'
    <2>1. sent' = sent /\ m_RequestId' = m_RequestId
        BY DEF Stores, Same
    <2>2. r.request_id = r.data + 1
        BY <1>4 DEF ServeInv, Numbers
    <2>3. \A x \in QueueNames : \A e \in Reqs(x)' : e.request_id = e.data + 1
        BY <1>3, <1>5, <2>2 DEF ServeInv, Numbers
    <2> QED BY <1>9, <2>1, <2>3 DEF ServeInv, Numbers
<1>12. Replied'
    <2>1. \A x \in QueueNames : \A e \in Reqs(x)' : e.rpl \in {0, e.data}
        BY <1>3, <1>5, <1>7 DEF ServeInv, Replied
    <2>2. \A u \in Pids, v \in Threads : thread'[u][v].reply \in {0, thread'[u][v].data}
        BY <1>8 DEF ServeInv, Replied, Becomes, Rests
    <2> QED BY <2>1, <2>2 DEF Replied
<1>13. OneServer'
    BY <1>9 DEF ServeInv, OneServer
<1>14. Fetched'
    BY <1>3, <1>5, <1>9, <1>10 DEF ServeInv, Fetched
<1>15. Kept'
    <2>1. ASSUME NEW u \in Pids, NEW v \in Threads, Serves(u, v)', thread'[u][v].client # Svc
          PROVE  \E e \in Reqs(thread[u][v].name)' : e.data = thread'[u][v].data
        <3>1. PICK x \in QueueNames : x = thread[u][v].name
            BY <1>9, <2>1, ServedQueue
        <3>2. PICK e \in Reqs(x) : e.data = thread[u][v].data
            BY <1>9, <2>1, <3>1 DEF ServeInv, Kept
        <3> QED BY <1>6, <1>9, <2>1, <3>1, <3>2
    <2> QED BY <2>1 DEF Kept
<1> QED BY <1>11, <1>12, <1>13, <1>14, <1>15 DEF ServeInv

\* Every step keeps what is known of the requests that are served.
LEMMA ServeStep ==
    ASSUME NumbersDistinct
    PROVE  Base /\ CallInv /\ ServeInv /\ [Next]_vars => ServeInv'
BY StepKind, LosesServes, TakesServes, DropsServes, PutsServes, WakesServes, FetchesServes,
   StoresServes DEF Kind

\* ServeInv holds at first.
LEMMA ServeInit == Init => ServeInv
<1> SUFFICES ASSUME Init PROVE ServeInv
    OBVIOUS
<1>1. \A p \in Pids, t \in Threads : thread[p][t].at = "idle" /\ thread[p][t].reply = 0
    BY ThreadFields DEF Init, Statuses
<1>2. \A q \in QueueNames : Reqs(q) = {}
    BY DEF Init, Reqs, Elements, Requests, NoQueue
<1>3. Numbers
    BY <1>1, <1>2 DEF Init, Numbers, Calls, Serves
<1>4. Replied /\ OneServer /\ Fetched /\ Kept
    BY <1>1, <1>2 DEF Replied, OneServer, Fetched, Kept, Serves
<1> QED BY <1>3, <1>4 DEF ServeInv

\* What a call returns is the answer to the request that the call put, as long
\* as the numbers of requests do not come back: through timeouts that leave
\* requests behind, late replies and the reuse of process ids, GetRplHandler
\* hands out no other call's reply.
THEOREM ReplyIsTheAnswer == ASSUME NumbersDistinct PROVE Spec => []ReplyAnswersCall
<1>1. Init => Base /\ CallInv /\ ServeInv
    BY BaseInit, CallInit, ServeInit
<1>2. Base /\ CallInv /\ ServeInv /\ [Next]_vars => (Base /\ CallInv /\ ServeInv)'
    BY BaseStep, CallStep, ServeStep
<1>3. Base /\ CallInv /\ ServeInv => ReplyAnswersCall
    BY DEF ServeInv, Replied, ReplyAnswersCall
<1> QED BY <1>1, <1>2, <1>3, PTL DEF Spec, Safety

-----------------------------------------------------------------------------
(* What PutRplHandler finds *)

\* The request of a client other than the service is found.
LEMMA FoundByServer ==
    ASSUME Base, ServeInv, NEW p \in Pids, NEW t \in Threads, Serves(p, t)
    PROVE  /\ Owns(p, thread[p][t].name) /\ ServerProcessIsActive(thread[p][t].name)
           /\ Found(p, t) = Requests(thread[p][t].name)
           /\ thread[p][t].client # Svc => Mine(p, t) # {}
<1>1. PICK q \in QueueNames : /\ q = thread[p][t].name /\ ServerProcessIsActive(q)
                              /\ m_queues[q].server_pid = p
    BY ServedQueue
<1>2. Owns(p, q) /\ Found(p, t) = Requests(q)
    BY <1>1 DEF Owns, FindQueueObj, Found, Requests
<1>3. ASSUME thread[p][t].client # Svc PROVE Mine(p, t) # {}
    <2>1. PICK r \in Reqs(q) : r.data = thread[p][t].data
        BY <1>1, <1>3 DEF ServeInv, Kept
    <2>2. r.request_id = thread[p][t].id
        BY <2>1 DEF ServeInv, Numbers
    <2>3. PICK i \in 1 .. Len(Requests(q)) : Requests(q)[i] = r
        BY DEF Reqs, Elements
    <2> QED BY <1>2, <2>2, <2>3 DEF Mine, WithId
<1> QED BY <1>1, <1>2, <1>3

\* Threads that serve change by PutRplHandler or with the end of their process.
LEMMA ServeEnds ==
    ASSUME Base, [Next]_vars, NEW p \in Pids, NEW t \in Threads, Serves(p, t)
    PROVE  \/ thread'[p][t] = thread[p][t]
           \/ thread'[p][t] = Idle("SUCCESS")
           \/ PutRplHandler(p, t)
<1> DEFINE Goal == \/ thread'[p][t] = thread[p][t]
                   \/ thread'[p][t] = Idle("SUCCESS")
                   \/ PutRplHandler(p, t)
<1>t. TypeOK
    BY DEF Base
<1>o. ASSUME NEW u \in Pids, NEW v \in Threads, NEW th, thread' = [thread EXCEPT ![u][v] = th],
             thread[u][v].at # "serve"
      PROVE  Goal
    <2>1. Becomes(u, v, th)
        BY <1>t, <1>o, OneThread
    <2> QED BY <1>o, <2>1 DEF Becomes, Serves
<1>1. ASSUME NEW u \in Pids, NEW b \in Boxes \cup {NoBox}, Start(u, b) PROVE Goal
    BY <1>1 DEF Start
<1>2. ASSUME NEW u \in Pids, Exit(u) PROVE Goal
    BY <1>2, <1>t DEF Exit, TypeOK
<1>3. ASSUME NEW u \in Pids, NEW n \in Names, CreateHandler(u, n) PROVE Goal
    BY <1>3 DEF CreateHandler
<1>4. ASSUME NEW u \in Pids, NEW v \in Threads, NEW n \in Names,
             PutReqRefused(u, v, n) \/ PutReqHandler(u, v, n) \/ PutReqNoReply(u, v, n)
      PROVE  Goal
    <2>1. thread[u][v].at = "idle"
        BY <1>4 DEF PutReqRefused, PutReqHandler, PutReqNoReply, CanPut
    <2>2. \E th : thread' = [thread EXCEPT ![u][v] = th]
        BY <1>4 DEF PutReqRefused, PutReqHandler, PutReqNoReply, PutReqDenied, PutReqNotFound,
                    PutReqNoMemory
    <2> QED BY <1>o, <2>1, <2>2
<1>5. ASSUME NEW u \in Pids, NEW v \in Threads,
             Wake(u, v) \/ Timeout(u, v) \/ GetRplHandler(u, v) \/ QueueCallback(u, v)
      PROVE  Goal
    <2>1. thread[u][v].at # "serve"
        BY <1>5 DEF Wake, Timeout, GetRplHandler, QueueCallback
    <2>2. CASE Wake(u, v)
        <3>1. PICK th : th = [thread[u][v] EXCEPT !.at = "woken"]
            OBVIOUS
        <3>2. thread' = [thread EXCEPT ![u][v] = th]
            BY <1>t, <2>2, <3>1 DEF Wake, TypeOK
        <3> QED BY <1>o, <2>1, <3>2
    <2>3. CASE Timeout(u, v) \/ GetRplHandler(u, v) \/ QueueCallback(u, v)
        <3>1. \E th : thread' = [thread EXCEPT ![u][v] = th]
            BY <2>3 DEF Timeout, GetRplHandler, QueueCallback, GetRplNotFound, GetRplNoRequest,
                        GetRplDenied, GetRplNoMemory, GetRplTake, Return
        <3> QED BY <1>o, <2>1, <3>1
    <2> QED BY <1>5, <2>2, <2>3
<1>6. ASSUME NEW u \in Pids, NEW v \in Threads, GetReqHandler(u, v) PROVE Goal
    <2>1. thread[u][v].at # "serve"
        BY <1>6 DEF GetReqHandler
    <2>2. \E th : thread' = [thread EXCEPT ![u][v] = th]
        BY <1>6 DEF GetReqHandler, GetReqNothing, GetReqTake, GetReqNoMemory
    <2> QED BY <1>o, <2>1, <2>2
<1>7. ASSUME NEW u \in Pids, NEW v \in Threads, PutRplHandler(u, v) PROVE Goal
    <2>1. CASE u = p /\ v = t
        BY <1>7, <2>1
    <2>2. CASE ~(u = p /\ v = t)
        <3>1. PICK th : thread' = [thread EXCEPT ![u][v] = th]
            BY <1>7 DEF PutRplHandler, PutRplNothing, PutRplStore, PutRplDrop
        <3>2. Becomes(u, v, th)
            BY <1>t, <3>1, OneThread
        <3> QED BY <2>2, <3>2 DEF Becomes
    <2> QED BY <2>1, <2>2
<1>8. CASE UNCHANGED vars
    BY <1>8 DEF vars
<1> QED BY <1>1, <1>2, <1>3, <1>4, <1>5, <1>6, <1>7, <1>8 DEF Next

\* What PutRplHandler returns when it finds the request.
LEMMA ReplyStatus ==
    ASSUME Base, NEW p \in Pids, NEW t \in Threads, PutRplHandler(p, t),
           Owns(p, thread[p][t].name), Mine(p, t) # {}
    PROVE  thread'[p][t].status # "END_OF_FILE"
<1>t. TypeOK
    BY DEF Base
<1>1. PICK i \in Mine(p, t) : PutRplStore(p, t, i) \/ PutRplDrop(p, t, i)
    BY DEF PutRplHandler, PutRplNothing
<1>2. PICK s \in {"SUCCESS", "INSUFFICIENT_RESOURCES", "SHARING_VIOLATION"} :
         thread' = [thread EXCEPT ![p][t] = AfterReply(s)]
    BY <1>1 DEF PutRplStore, PutRplDrop
<1>3. thread'[p][t] = AfterReply(s)
    BY <1>t, <1>2 DEF TypeOK
<1>4. AfterReply(s).status = s
    BY <1>2 DEF AfterReply, Checking, Idle, Thread
<1> QED BY <1>2, <1>3, <1>4

\* When PutRplHandler returns END_OF_FILE, the process that put the request has
\* ended, or it was the service: as long as the numbers of requests do not come
\* back, the request of a client that runs is in its queue until it is answered,
\* even when the client gave it up.
THEOREM EndOfFileIsClientGone == ASSUME NumbersDistinct PROVE Spec => EndOfFileMeansClientGone
<1> DEFINE A == \A p \in Pids, t \in Threads :
                   (thread[p][t].at = "serve" /\ thread'[p][t].status = "END_OF_FILE")
                       => thread[p][t].client = Svc \/ ~Alive(thread[p][t].client)
<1>1. Init => Base /\ CallInv /\ ServeInv
    BY BaseInit, CallInit, ServeInit
<1>2. Base /\ CallInv /\ ServeInv /\ [Next]_vars => (Base /\ CallInv /\ ServeInv)'
    BY BaseStep, CallStep, ServeStep
<1>3. Base /\ CallInv /\ ServeInv /\ [Next]_vars => [A]_vars
    <2> SUFFICES ASSUME Base, ServeInv, [Next]_vars, NEW p \in Pids, NEW t \in Threads,
                        thread[p][t].at = "serve", thread[p][t].client # Svc
                 PROVE  thread'[p][t].status # "END_OF_FILE"
        OBVIOUS
    <2>1. Serves(p, t) /\ thread[p][t].status = "SUCCESS"
        BY DEF Serves, ServeInv, Fetched
    <2>2. Owns(p, thread[p][t].name) /\ Mine(p, t) # {}
        BY <2>1, FoundByServer
    <2>3. CASE PutRplHandler(p, t)
        BY <2>2, <2>3, ReplyStatus
    <2>4. Idle("SUCCESS").status = "SUCCESS"
        BY DEF Idle, Thread
    <2> QED BY <2>1, <2>3, <2>4, ServeEnds
<1> QED BY <1>1, <1>2, <1>3, PTL DEF Spec, Safety, EndOfFileMeansClientGone

-----------------------------------------------------------------------------
(* No request is left behind by a proxy that sleeps *)

Attends(p) == p \in queue_event \/ \E t \in Threads : thread[p][t].at \in {"check", "serve"}
Left(q) == ServerProcessIsActive(q) /\ \E r \in Reqs(q) : ~r.fetched
AllAttended == \A q \in QueueNames : Left(q) => Attends(m_queues[q].server_pid)

\* NoLostWakeup, restated over the elements of the queues.
LEMMA AttendedIsNoLoss == NoLostWakeup <=> (failures = 0 => AllAttended)
<1>1. \A q : Unfetched(Requests(q)) # {} <=> \E r \in Reqs(q) : ~r.fetched
    BY DEF Unfetched, Reqs, Elements
<1> QED BY <1>1 DEF NoLostWakeup, AllAttended, Left, Attends

\* Only a step that counts a request adds one that was not fetched.
LEMMA NoNewRequest ==
    ASSUME Base, [Next]_vars, sent' = sent
    PROVE  \A q \in QueueNames : \A r \in Reqs(q)' : ~r.fetched => r \in Reqs(q)
<1> DEFINE Goal == \A q \in QueueNames : \A r \in Reqs(q)' : ~r.fetched => r \in Reqs(q)
<1>1. sent \in Nat
    BY DEF Base, TypeOK
<1>2. ASSUME NEW p \in Pids, NEW t \in Threads, NEW q \in QueueNames, Puts(p, t, q) PROVE Goal
    BY <1>1, <1>2 DEF Puts
<1>3. CASE Loses
    BY <1>3 DEF Loses
<1>4. ASSUME NEW p \in Pids, NEW t \in Threads, Wakes(p, t) PROVE Goal
    BY <1>4 DEF Wakes
<1>5. ASSUME NEW p \in Pids, NEW t \in Threads, NEW r \in RequestType,
             Takes(p, t, r) \/ Drops(p, t, r)
      PROVE  Goal
    BY <1>5 DEF Takes, Drops, Holds
<1>6. ASSUME NEW p \in Pids, NEW t \in Threads, NEW r \in RequestType, Fetches(p, t, r) PROVE Goal
    <2>1. PICK s : s = [r EXCEPT !.fetched = TRUE]
        OBVIOUS
    <2>2. s.fetched
        BY <2>1 DEF RequestType
    <2>3. Holds(serves[p], (Reqs(serves[p]) \ {r}) \cup {s})
        BY <1>6, <2>1 DEF Fetches
    <2> QED BY <2>2, <2>3 DEF Holds
<1>7. ASSUME NEW p \in Pids, NEW t \in Threads, NEW r \in RequestType, Stores(p, t, r) PROVE Goal
    <2>1. PICK s : s = [r EXCEPT !.rpl = thread[p][t].data]
        OBVIOUS
    <2>2. s.fetched
        BY <1>7, <2>1 DEF RequestType, Stores
    <2>3. Holds(thread[p][t].name, (Reqs(thread[p][t].name) \ {r}) \cup {s})
        BY <1>7, <2>1 DEF Stores
    <2> QED BY <2>2, <2>3 DEF Holds
<1> QED BY <1>2, <1>3, <1>4, <1>5, <1>6, <1>7, StepKind DEF Kind

\* A queue that is found and swept, or whose requests change, keeps its server.
LEMMA ServerStays ==
    ASSUME Base, UNCHANGED <<proc, serves, starts>>, NEW q \in QueueNames,
           \/ m_queues' = m_queues
           \/ m_queues' = [m_queues EXCEPT ![q] = FindQueueObj(q)]
           \/ ~ServerProcessIsActive(q) /\ m_queues' = [m_queues EXCEPT ![q] = NoQueue]
           \/ \E s : m_queues' = SetRequests(q, s)
    PROVE  /\ proc' = proc
           /\ \A x \in QueueNames : ServerProcessIsActive(x)' =>
                 ServerProcessIsActive(x) /\ m_queues'[x].server_pid = m_queues[x].server_pid
<1>1. ServersKept
    <2>1. CASE m_queues' = m_queues
        BY <2>1 DEF ServersKept
    <2> QED BY <2>1, SweepKeeps, SetRequestsKeeps DEF Base
<1>2. NoQueue.server_create_time = 0
    BY DEF NoQueue
<1> QED BY <1>1, <1>2 DEF ServersKept, ServerProcessIsActive

\* A thread goes on without leaving its loop before everything is fetched.
GoesOn(u, v, th) ==
    /\ Becomes(u, v, th)
    /\ thread[u][v].at \in {"check", "serve"} =>
          \/ th.at \in {"check", "serve"}
          \/ \A r \in Reqs(serves[u]) : r.fetched
    /\ \A p \in queue_event : p \in queue_event' \/ (p = u /\ th.at = "check")

\* A step after which one thread goes on and nothing is put loses no wake-up.
LEMMA WakeupKept ==
    ASSUME Base, [Next]_vars, AllAttended, sent' = sent, NEW u \in Pids, NEW v \in Threads, NEW th,
           GoesOn(u, v, th),
           \A x \in QueueNames : ServerProcessIsActive(x)' =>
              ServerProcessIsActive(x) /\ m_queues'[x].server_pid = m_queues[x].server_pid
    PROVE  AllAttended'
<1> SUFFICES ASSUME NEW q \in QueueNames, Left(q)' PROVE Attends(m_queues[q].server_pid)'
    BY DEF AllAttended
<1>1. PICK p \in Pids : p = m_queues[q].server_pid
    BY DEF Base, TypeOK, QueueType
<1>2. ServerProcessIsActive(q) /\ m_queues'[q].server_pid = p
    BY <1>1 DEF Left
<1>3. PICK r \in Reqs(q) : ~r.fetched
    BY NoNewRequest DEF Left
<1>4. Attends(p)
    BY <1>1, <1>2, <1>3 DEF AllAttended, Left
<1>5. serves[p] = q
    BY <1>1, <1>2 DEF Base, Servers, ServersOK
<1>6. CASE p \in queue_event
    <2>1. p \in queue_event' \/ (p = u /\ th.at = "check")
        BY <1>6 DEF GoesOn
    <2>2. p = u /\ th.at = "check" => thread'[u][v].at = "check"
        BY DEF GoesOn, Becomes
    <2> QED BY <1>2, <2>1, <2>2 DEF Attends
<1>7. ASSUME NEW t \in Threads, thread[p][t].at \in {"check", "serve"}
      PROVE  Attends(m_queues[q].server_pid)'
    <2>1. thread'[p][t].at \in {"check", "serve"}
        BY <1>3, <1>5, <1>7 DEF GoesOn, Becomes
    <2> QED BY <1>2, <2>1 DEF Attends
<1> QED BY <1>4, <1>6, <1>7 DEF Attends

\* Every step leaves the requests attended, unless an allocation fails in it.
LEMMA AttendStep ==
    ASSUME Base, ServeInv, AllAttended, [Next]_vars, failures' = failures
    PROVE  AllAttended'
<1>t. TypeOK /\ failures \in Nat
    BY DEF Base, TypeOK
<1>a. ~AllocFails
    BY <1>t DEF AllocFails
<1>1. ASSUME NEW u \in Pids, NEW b \in Boxes \cup {NoBox}, Start(u, b) PROVE AllAttended'
    <2>1. /\ m_queues' = m_queues /\ thread' = thread /\ queue_event' = queue_event
          /\ proc' = [proc EXCEPT ![u] = [born |-> starts + 1, box |-> b]]
        BY <1>1 DEF Start
    <2>2. \A p \in Pids : proc'[p].born = proc[p].born \/ proc'[p].born = starts + 1
        BY <1>t, <2>1 DEF TypeOK
    <2>3. \A q \in QueueNames : /\ m_queues[q].server_pid \in Pids
                                /\ m_queues[q].server_create_time \in Nat
                                /\ m_queues[q].server_create_time <= starts /\ starts \in Nat
        BY <1>t DEF Base, Servers, ServersOK, TypeOK, QueueType
    <2>4. \A q \in QueueNames : ServerProcessIsActive(q)' => ServerProcessIsActive(q)
        BY <2>1, <2>2, <2>3 DEF ServerProcessIsActive
    <2>5. \A q \in QueueNames : Left(q)' => Left(q)
        BY <2>1, <2>4 DEF Left, Reqs, Requests
    <2> QED BY <2>1, <2>5 DEF AllAttended, Attends
<1>2. ASSUME NEW u \in Pids, Exit(u) PROVE AllAttended'
    <2>1. /\ m_queues' = m_queues /\ queue_event' = queue_event \ {u}
          /\ proc' = [proc EXCEPT ![u] = [born |-> 0, box |-> NoBox]]
          /\ thread' = [thread EXCEPT ![u] = [t \in Threads |-> Idle("SUCCESS")]]
        BY <1>2 DEF Exit
    <2>2. \A p \in Pids : /\ p # u => proc'[p].born = proc[p].born /\ thread'[p] = thread[p]
                          /\ p = u => proc'[p].born = 0
        BY <1>t, <2>1 DEF TypeOK
    <2>3. \A q \in QueueNames : m_queues[q].server_pid \in Pids
        BY <1>t DEF TypeOK, QueueType
    <2>4. \A q \in QueueNames : ServerProcessIsActive(q)' =>
             ServerProcessIsActive(q) /\ m_queues[q].server_pid # u
        BY <2>1, <2>2, <2>3 DEF ServerProcessIsActive
    <2>5. \A q \in QueueNames : Left(q)' => Left(q) /\ m_queues[q].server_pid # u
        BY <2>1, <2>4 DEF Left, Reqs, Requests
    <2> QED BY <2>1, <2>2, <2>3, <2>5 DEF AllAttended, Attends
<1>3. ASSUME NEW u \in Pids, NEW n \in Names, CreateHandler(u, n) PROVE AllAttended'
    <2>1. PICK q \in QueueNames : q = MakeQueueName(u, n)
        BY <1>t, NameType
    <2>2. thread' = thread /\ queue_event' = queue_event /\ proc' = proc
        BY <1>3 DEF CreateHandler
    <2>3. CASE m_queues' = m_queues
        BY <2>2, <2>3 DEF AllAttended, Left, Attends, Reqs, Requests, ServerProcessIsActive
    <2>4. CASE CreateQueueObj(u, q)
        <3>1. PICK y : y = [server_pid |-> u, server_create_time |-> proc[u].born,
                            requests |-> << >>]
            OBVIOUS
        <3>2. m_queues' = [m_queues EXCEPT ![q] = y] /\ y.requests = << >>
            BY <2>4, <3>1 DEF CreateQueueObj
        <3>3. \A x \in QueueNames : x # q => m_queues'[x] = m_queues[x]
            BY <1>t, <3>2 DEF TypeOK
        <3>4. Reqs(q)' = {}
            BY <1>t, <3>2 DEF TypeOK, Reqs, Requests, Elements
        <3>5. \A x \in QueueNames : Left(x)' => Left(x) /\ m_queues'[x] = m_queues[x]
            BY <2>2, <3>3, <3>4 DEF Left, Reqs, Requests, ServerProcessIsActive
        <3> QED BY <2>2, <3>5 DEF AllAttended, Attends
    <2> QED BY <1>3, <1>a, <2>1, <2>3, <2>4 DEF CreateHandler, CreateNoMemory
<1>4. ASSUME NEW u \in Pids, NEW v \in Threads, NEW n \in Names, PutReqRefused(u, v, n)
      PROVE  AllAttended'
    <2>1. PICK q \in QueueNames : q = MakeQueueName(u, n)
        BY <1>t, NameType
    <2>2. /\ UNCHANGED <<proc, serves, starts>> /\ sent' = sent /\ queue_event' = queue_event
          /\ thread[u][v].at = "idle"
        BY <1>4 DEF PutReqRefused, CanPut
    <2>3. \/ m_queues' = m_queues
          \/ ~ServerProcessIsActive(q) /\ m_queues' = [m_queues EXCEPT ![q] = NoQueue]
        BY <1>4, <2>1 DEF PutReqRefused, PutReqDenied, PutReqNotFound, PutReqNoMemory
    <2>4. PICK th : thread' = [thread EXCEPT ![u][v] = th]
        BY <1>4 DEF PutReqRefused, PutReqDenied, PutReqNotFound, PutReqNoMemory
    <2>5. GoesOn(u, v, th)
        <3>1. Becomes(u, v, th)
            BY <1>t, <2>4, OneThread
        <3> QED BY <2>2, <3>1 DEF GoesOn
    <2>6. \A x \in QueueNames : ServerProcessIsActive(x)' =>
             ServerProcessIsActive(x) /\ m_queues'[x].server_pid = m_queues[x].server_pid
        BY <2>2, <2>3, ServerStays
    <2> QED BY <2>2, <2>5, <2>6, WakeupKept
<1>5. ASSUME NEW u \in Pids, NEW v \in Threads, NEW n \in Names, PutReqHandler(u, v, n)
      PROVE  AllAttended'
    <2>1. PICK q \in QueueNames : q = MakeQueueName(u, n)
        BY <1>t, NameType
    <2>2. /\ UNCHANGED <<proc, serves, starts>> /\ thread[u][v].at = "idle"
          /\ queue_event' = queue_event \cup {m_queues[q].server_pid}
          /\ thread' = [thread EXCEPT ![u][v] = Waiting(u, q, Incremented, sent + 1)]
          /\ \E s : m_queues' = SetRequests(q, s)
        BY <1>5, <2>1 DEF PutReqHandler, CanPut, ServerSignalled
    <2>3. \A x \in QueueNames : ServerProcessIsActive(x)' =>
             ServerProcessIsActive(x) /\ m_queues'[x].server_pid = m_queues[x].server_pid
        BY <2>2, ServerStays
    <2>4. PICK s : m_queues' = SetRequests(q, s)
        BY <2>2
    <2>5. \A x \in QueueNames : x # q => Reqs(x)' = Reqs(x)
        BY <1>t, <2>4, OneQueue DEF Holds
    <2>6. \A p \in Pids : Attends(p) => Attends(p)'
        <3>1. Becomes(u, v, Waiting(u, q, Incremented, sent + 1))
            BY <1>t, <2>2, OneThread
        <3>2. \A p \in Pids, t \in Threads : thread[p][t].at \in {"check", "serve"} =>
                 thread'[p][t] = thread[p][t]
            BY <2>2, <3>1 DEF Becomes
        <3> QED BY <2>2, <3>2 DEF Attends
    <2>7. \A x \in QueueNames : m_queues[x].server_pid \in Pids
        BY <1>t DEF TypeOK, QueueType
    <2>8. ASSUME NEW x \in QueueNames, Left(x)' PROVE Attends(m_queues[x].server_pid)'
        <3>1. PICK p \in Pids : p = m_queues[x].server_pid
            BY <2>7
        <3>2. ServerProcessIsActive(x) /\ m_queues'[x].server_pid = p
            BY <2>3, <2>8, <3>1 DEF Left
        <3>3. Attends(p)'
            <4>1. CASE x = q
                BY <2>2, <3>1, <4>1 DEF Attends
            <4>2. CASE x # q
                BY <2>5, <2>6, <2>8, <3>1, <3>2, <4>2 DEF AllAttended, Left
            <4> QED BY <4>1, <4>2
        <3> QED BY <3>2, <3>3 DEF Attends
    <2> QED BY <2>8 DEF AllAttended
<1>6. ASSUME NEW u \in Pids, NEW v \in Threads, NEW n \in Names, PutReqNoReply(u, v, n)
      PROVE  AllAttended'
    BY <1>6, <1>a DEF PutReqNoReply
<1>7. ASSUME NEW u \in Pids, NEW v \in Threads,
             Wake(u, v) \/ Timeout(u, v) \/ GetRplHandler(u, v) \/ QueueCallback(u, v)
      PROVE  AllAttended'
    <2>1. /\ UNCHANGED <<proc, serves, starts>> /\ sent' = sent
          /\ thread[u][v].at \notin {"check", "serve"}
        BY <1>7 DEF Wake, Timeout, GetRplHandler, QueueCallback
    <2>2. PICK th : /\ thread' = [thread EXCEPT ![u][v] = th]
                    /\ \/ queue_event' = queue_event
                       \/ queue_event' = queue_event \ {u} /\ th.at = "check"
        <3>1. CASE Wake(u, v)
            <4>1. PICK th : th = [thread[u][v] EXCEPT !.at = "woken"]
                OBVIOUS
            <4>2. thread' = [thread EXCEPT ![u][v] = th] /\ queue_event' = queue_event
                BY <1>t, <3>1, <4>1 DEF Wake, TypeOK
            <4> QED BY <4>2
        <3>2. CASE Timeout(u, v) \/ GetRplHandler(u, v)
            BY <3>2 DEF Timeout, GetRplHandler, GetRplNotFound, GetRplNoRequest,
                        GetRplDenied, GetRplNoMemory, GetRplTake, Return
        <3>3. CASE QueueCallback(u, v)
            <4>1. Checking("SUCCESS").at = "check"
                BY DEF Checking, Thread
            <4> QED BY <3>3, <4>1 DEF QueueCallback
        <3> QED BY <1>7, <3>1, <3>2, <3>3
    <2>3. GoesOn(u, v, th)
        <3>1. Becomes(u, v, th)
            BY <1>t, <2>2, OneThread
        <3>2. \A p \in queue_event : p \in queue_event' \/ (p = u /\ th.at = "check")
            BY <2>2
        <3> QED BY <2>1, <3>1, <3>2 DEF GoesOn
    <2>4. \A x \in QueueNames : ServerProcessIsActive(x)' =>
             ServerProcessIsActive(x) /\ m_queues'[x].server_pid = m_queues[x].server_pid
        <3>1. CASE m_queues' = m_queues
            BY <2>1, <3>1 DEF ServerProcessIsActive
        <3>2. CASE GetRplHandler(u, v)
            <4>1. PICK q \in QueueNames : q = thread[u][v].name
                BY <3>2 DEF GetRplHandler, Base, ThreadsOK
            <4>2. \/ m_queues' = m_queues
                  \/ ~ServerProcessIsActive(q) /\ m_queues' = [m_queues EXCEPT ![q] = NoQueue]
                  \/ \E s : m_queues' = SetRequests(q, s)
                BY <3>2, <4>1 DEF GetRplHandler, GetRplNotFound, GetRplNoRequest,
                                  GetRplDenied, GetRplNoMemory, GetRplTake
            <4> QED BY <2>1, <4>2, ServerStays
        <3> QED BY <1>7, <3>1, <3>2 DEF Wake, Timeout, QueueCallback
    <2> QED BY <2>1, <2>3, <2>4, WakeupKept
<1>8. ASSUME NEW u \in Pids, NEW v \in Threads, GetReqHandler(u, v) PROVE AllAttended'
    <2>1. /\ UNCHANGED <<proc, serves, starts>> /\ sent' = sent /\ queue_event' = queue_event
          /\ thread[u][v].at = "check"
        BY <1>8 DEF GetReqHandler
    <2>2. PICK q \in QueueNames : /\ q = serves[u] /\ ServerProcessIsActive(q)
                                  /\ m_queues[q].server_pid = u
        BY <2>1, NoNameIsNone DEF Base, ThreadsOK, Servers, ServerKeepsQueue
    <2>3. Owns(u, q) /\ Open(u) = Unfetched(Requests(q))
        BY <2>2 DEF Owns, Open, FindQueueObj, Requests
    <2>4. PICK th : /\ thread' = [thread EXCEPT ![u][v] = th]
                    /\ th.at = "serve" \/ Open(u) = {}
        <3>1. \A r : Serving(q, r).at = "serve"
            BY DEF Serving, Thread
        <3> QED BY <1>8, <1>a, <2>2, <2>3, <3>1
                DEF GetReqHandler, GetReqNothing, GetReqTake, GetReqNoMemory
    <2>5. Open(u) = {} => \A r \in Reqs(serves[u]) : r.fetched
        BY <2>2, <2>3 DEF Unfetched, Reqs, Elements
    <2>6. GoesOn(u, v, th)
        <3>1. Becomes(u, v, th)
            BY <1>t, <2>4, OneThread
        <3> QED BY <2>1, <2>4, <2>5, <3>1 DEF GoesOn
    <2>7. \/ m_queues' = [m_queues EXCEPT ![q] = FindQueueObj(q)]
          \/ \E s : m_queues' = SetRequests(q, s)
        BY <1>8, <1>a, <2>2 DEF GetReqHandler, GetReqNothing, GetReqTake, GetReqNoMemory
    <2>8. \A x \in QueueNames : ServerProcessIsActive(x)' =>
             ServerProcessIsActive(x) /\ m_queues'[x].server_pid = m_queues[x].server_pid
        BY <2>1, <2>7, ServerStays
    <2> QED BY <2>1, <2>6, <2>8, WakeupKept
<1>9. ASSUME NEW u \in Pids, NEW v \in Threads, PutRplHandler(u, v) PROVE AllAttended'
    <2>1. /\ UNCHANGED <<proc, serves, starts>> /\ sent' = sent /\ queue_event' = queue_event
          /\ Serves(u, v)
        BY <1>9 DEF PutRplHandler, Serves
    <2>2. PICK q \in QueueNames : q = thread[u][v].name
        BY <2>1, ServedQueue
    <2>3. Owns(u, q) /\ ServerProcessIsActive(q) /\ Found(u, v) = Requests(q)
        BY <2>1, <2>2, FoundByServer
    <2>4. ASSUME NEW i \in Mine(u, v) PROVE Found(u, v)[i].fetched
        <3>1. PICK r \in Reqs(q) : r = Requests(q)[i] /\ r.request_id = thread[u][v].id
            BY <2>3 DEF Mine, WithId, Reqs, Elements
        <3>2. r.data = thread[u][v].data
            BY <2>1, <2>2, <3>1, SameNumber
        <3> QED BY <2>1, <2>3, <3>1, <3>2 DEF ServeInv, Fetched
    <2>5. \A i \in Mine(u, v) : ~PutRplDrop(u, v, i)
        BY <1>a, <2>4 DEF PutRplDrop
    <2>6. PICK s \in {"SUCCESS", "END_OF_FILE"} : thread' = [thread EXCEPT ![u][v] = AfterReply(s)]
        <3>1. Refusal(u, q) = "END_OF_FILE"
            BY <2>3 DEF Refusal
        <3> QED BY <1>9, <2>2, <2>5, <3>1 DEF PutRplHandler, PutRplNothing, PutRplStore
    <2>7. GoesOn(u, v, AfterReply(s))
        <3>1. Becomes(u, v, AfterReply(s))
            BY <1>t, <2>6, OneThread
        <3>2. AfterReply(s).at = "check"
            BY <2>6 DEF AfterReply, Checking, Thread
        <3> QED BY <2>1, <3>1, <3>2 DEF GoesOn
    <2>8. \/ m_queues' = [m_queues EXCEPT ![q] = FindQueueObj(q)]
          \/ \E x : m_queues' = SetRequests(q, x)
        BY <1>9, <2>2, <2>5 DEF PutRplHandler, PutRplNothing, PutRplStore
    <2>9. \A x \in QueueNames : ServerProcessIsActive(x)' =>
             ServerProcessIsActive(x) /\ m_queues'[x].server_pid = m_queues[x].server_pid
        BY <2>1, <2>8, ServerStays
    <2> QED BY <2>1, <2>7, <2>9, WakeupKept
<1>10. CASE UNCHANGED vars
    BY <1>10 DEF vars, AllAttended, Left, Attends, Reqs, Requests, ServerProcessIsActive
<1> QED BY <1>1, <1>2, <1>3, <1>4, <1>5, <1>6, <1>7, <1>8, <1>9, <1>10 DEF Next

\* A failed allocation is remembered.
LEMMA FailuresCount ==
    ASSUME Base, [Next]_vars
    PROVE  failures \in Nat /\ (failures' = failures \/ failures' = failures + 1)
<1>1. failures \in Nat
    BY DEF Base, TypeOK
<1> USE DEF AllocFails, AllocSucceeds
<1>2. ASSUME NEW p \in Pids, NEW t \in Threads, NEW n \in Names,
             \/ CreateHandler(p, n) \/ PutReqRefused(p, t, n) \/ PutReqHandler(p, t, n)
             \/ PutReqNoReply(p, t, n)
      PROVE  failures' = failures \/ failures' = failures + 1
    BY <1>2 DEF CreateHandler, CreateQueueObj, CreateNoMemory, PutReqRefused, PutReqDenied,
                PutReqNotFound, PutReqNoMemory, PutReqHandler, PutReqNoReply
<1>3. ASSUME NEW p \in Pids, NEW t \in Threads,
             Wake(p, t) \/ Timeout(p, t) \/ GetRplHandler(p, t) \/ QueueCallback(p, t)
      PROVE  failures' = failures \/ failures' = failures + 1
    BY <1>3 DEF Wake, Timeout, GetRplHandler, QueueCallback, GetRplNotFound, GetRplNoRequest,
                GetRplDenied, GetRplNoMemory, GetRplTake
<1>4. ASSUME NEW p \in Pids, NEW t \in Threads, GetReqHandler(p, t) \/ PutRplHandler(p, t)
      PROVE  failures' = failures \/ failures' = failures + 1
    BY <1>4 DEF GetReqHandler, GetReqNothing, GetReqTake, GetReqNoMemory, PutRplHandler,
                PutRplNothing, PutRplStore, PutRplDrop
<1>5. ASSUME NEW p \in Pids, NEW n \in Names, CreateHandler(p, n)
      PROVE  failures' = failures \/ failures' = failures + 1
    BY <1>5 DEF CreateHandler, CreateQueueObj, CreateNoMemory
<1>6. ASSUME NEW p \in Pids, NEW b \in Boxes \cup {NoBox}, Start(p, b) \/ Exit(p)
      PROVE  failures' = failures
    BY <1>6 DEF Start, Exit
<1>7. ASSUME UNCHANGED vars PROVE failures' = failures
    BY <1>7 DEF vars
<1>8. NoBox \in Boxes \cup {NoBox}
    OBVIOUS
<1> QED BY <1>1, <1>2, <1>3, <1>4, <1>5, <1>6, <1>7, <1>8 DEF Next

\* As long as no allocation fails and the numbers of requests do not come back,
\* a request is never left behind by a proxy that sleeps: the callback of its
\* thread pool ends only when everything in the queue was fetched.
THEOREM NoWakeupIsLost == ASSUME NumbersDistinct PROVE Spec => []NoLostWakeup
<1> DEFINE Inv == Base /\ CallInv /\ ServeInv /\ (failures = 0 => AllAttended)
<1>1. Init => Inv
    <2>1. Init => AllAttended
        BY DEF Init, AllAttended, Left, ServerProcessIsActive, NoQueue
    <2> QED BY <2>1, BaseInit, CallInit, ServeInit
<1>2. Inv /\ [Next]_vars => Inv'
    <2> SUFFICES ASSUME Inv, [Next]_vars PROVE Inv'
        OBVIOUS
    <2>1. Base' /\ CallInv' /\ ServeInv'
        BY BaseStep, CallStep, ServeStep
    <2>2. ASSUME failures' = 0 PROVE AllAttended'
        <3>1. failures' = failures
            BY <2>2, FailuresCount
        <3> QED BY <2>2, <3>1, AttendStep
    <2> QED BY <2>1, <2>2
<1>3. Inv => NoLostWakeup
    BY AttendedIsNoLoss
<1> QED BY <1>1, <1>2, <1>3, PTL DEF Spec, Safety
=============================================================================
