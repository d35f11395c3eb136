----------------------------- MODULE QueueServer -----------------------------
(***************************************************************************)
(* The request queues of the service (svc/queueserver.cpp), the processes  *)
(* that put requests into them (SbieDll_CallServerQueue in dll/callsvc.c   *)
(* and GuiServer::SendMessageToSlave) and the proxies that serve them      *)
(* (UserServer and GuiServer, whose two loops are the same).               *)
(*                                                                         *)
(* Every handler holds m_lock from its first to its last access, so a      *)
(* handler is one step.  A client calls two of them, PutReq and GetRpl,    *)
(* and waits on an event in between; a thread of a proxy calls GetReq and  *)
(* PutRpl in turn.  Processes end at any time and their ids are reused.    *)
(***************************************************************************)
EXTENDS Integers, Sequences

CONSTANTS
    Pids,        \* process ids
    Svc,         \* the id of the service itself, a client of the GUI proxy
    Threads,     \* threads of a process
    Boxes, NoBox,\* sandboxes, and the mark of a process outside of all
    StarNames,   \* queue names that start with an asterisk
    BoxNames,    \* queue names that do not
    NoName,      \* the mark of a process that has no queue
    IdMod,       \* 2^w for the w bits of m_RequestId
    MaxRequests, \* bound: requests that are given a number
    MaxStarts,   \* bound: processes that start
    MaxFailures  \* bound: memory allocations that fail

ASSUME ProcessAssumption == Svc \in Pids /\ NoBox \notin Boxes
ASSUME NameAssumption == /\ StarNames \cap BoxNames = {}
                         /\ NoName \notin (Boxes \cup {NoBox}) \X (StarNames \cup BoxNames)
ASSUME BoundAssumption == /\ IdMod \in Nat /\ IdMod > 3
                          /\ MaxRequests \in Nat
                          /\ MaxStarts \in Nat \ {0}
                          /\ MaxFailures \in Nat

Names == StarNames \cup BoxNames
QueueNames == (Boxes \cup {NoBox}) \X Names

VARIABLES
    m_queues,    \* per full name, a QUEUE_OBJ; server_create_time 0: none
    m_RequestId,
    proc,        \* per id, the process: when it was created (0: none), its box
    thread,      \* per process and thread, where it is in its call or loop
    serves,      \* per process, the queue that it created
    queue_event, \* the processes whose queue event (m_QueueEvent of a proxy)
                 \* is signalled
    signalled,   \* the client events that are signalled
    sent,        \* how many requests were given a number
    starts, failures

vars == <<m_queues, m_RequestId, proc, thread, serves, queue_event, signalled,
          sent, starts, failures>>

NoQueue == [server_pid |-> Svc, server_create_time |-> 0, requests |-> << >>]

\* The data of a request is its place in the order in which requests were
\* numbered; a proxy's answer is the data it answers.
SvcEvent == 0
EventOf_Shared(p, data) == SvcEvent     \* mutant: one event for all calls
EventOf(p, data) == IF p = Svc THEN SvcEvent ELSE data

\* REQUEST_OBJ: fetched says that req_data was handed out (and freed); rpl is
\* 0 as long as there is no reply.
Request(p, id, data) ==
    [client_pid |-> p, client_event |-> EventOf(p, data), request_id |-> id,
     data |-> data, fetched |-> FALSE, rpl |-> 0]

\* A thread: where it is, the queue it works on, the request's number, data
\* and client, the reply it got, and the status its last call returned.
Thread(at, q, id, data, client, reply, status) ==
    [at |-> at, name |-> q, id |-> id, data |-> data, client |-> client,
     reply |-> reply, status |-> status]
Idle(status) == Thread("idle", NoName, 0, 0, Svc, 0, status)
Done(data, reply, status) == Thread("idle", NoName, 0, data, Svc, reply, status)
Waiting(p, q, id, data) == Thread("wait", q, id, data, p, 0, "SUCCESS")
Checking(status) == Thread("check", NoName, 0, 0, Svc, 0, status)
Serving(q, r) == Thread("serve", q, r.request_id, r.data, r.client_pid, 0, "SUCCESS")

-----------------------------------------------------------------------------
Alive(p) == proc[p].born # 0
Boxed(p) == proc[p].box # NoBox

\* MakeQueueName: a name with an asterisk is the same for everyone, any other
\* belongs to the caller's sandbox, and callers outside may not use it.
MakeQueueName(p, n) == IF n \in StarNames THEN <<NoBox, n>> ELSE <<proc[p].box, n>>
MayName(p, n) == n \in StarNames \/ Boxed(p)

\* FindQueueObj: the queue counts only while the very process that created it
\* runs; otherwise it is deleted with its requests.
ServerProcessIsActive_AnyTime(q) ==    \* mutant: any process with that id
    m_queues[q].server_create_time # 0 /\ proc[m_queues[q].server_pid].born # 0
ServerProcessIsActive(q) ==
    /\ m_queues[q].server_create_time # 0
    /\ proc[m_queues[q].server_pid].born = m_queues[q].server_create_time
FindQueueObj(q) == IF ServerProcessIsActive(q) THEN m_queues[q] ELSE NoQueue

\* The positions of the requests with a number, and whether one of them is the
\* first.
WithId_Fetched(reqs, id) ==             \* mutant: whichever was fetched
    {i \in 1 .. Len(reqs) : reqs[i].fetched}
WithId(reqs, id) == {i \in 1 .. Len(reqs) : reqs[i].request_id = id}
Unfetched(reqs) == {i \in 1 .. Len(reqs) : ~reqs[i].fetched}
IsFirst_Newest(i, S) == i \in S /\ \A j \in S : i >= j    \* mutant
IsFirst(i, S) == i \in S /\ \A j \in S : i <= j
DeleteRequestObj(reqs, i) ==
    [j \in 1 .. Len(reqs) - 1 |-> IF j < i THEN reqs[j] ELSE reqs[j + 1]]
SetRequests(q, reqs) == [m_queues EXCEPT ![q].requests = reqs]

\* InterlockedIncrement of m_RequestId, and the loop that skips 0 and -1: it
\* runs after the incremented value was taken as the request's number.
Incremented == (m_RequestId + 1) % IdMod
SkipReserved_Not(n) == n                \* mutant: 0 and -1 are not skipped
SkipReserved(n) == IF n \in {0, IdMod - 1} THEN 1 ELSE n

Init ==
    /\ m_queues = [q \in QueueNames |-> NoQueue]
    /\ m_RequestId = 1
    /\ proc = [p \in Pids |-> [born |-> IF p = Svc THEN 1 ELSE 0, box |-> NoBox]]
    /\ thread = [p \in Pids |-> [t \in Threads |-> Idle("SUCCESS")]]
    /\ serves = [p \in Pids |-> NoName]
    /\ queue_event = {}
    /\ signalled = {}
    /\ sent = 0
    /\ starts = 1
    /\ failures = 0

-----------------------------------------------------------------------------
\* Windows: a process starts, inside a box or outside; a process ends.  The
\* service does not: all of this state ends with it.
Start(p, b) ==
    /\ ~Alive(p) /\ starts < MaxStarts
    /\ starts' = starts + 1
    /\ proc' = [proc EXCEPT ![p] = [born |-> starts + 1, box |-> b]]
    /\ UNCHANGED <<m_queues, m_RequestId, thread, serves, queue_event,
                   signalled, sent, failures>>

Exit(p) ==
    /\ Alive(p) /\ p # Svc
    /\ proc' = [proc EXCEPT ![p] = [born |-> 0, box |-> NoBox]]
    /\ thread' = [thread EXCEPT ![p] = [t \in Threads |-> Idle("SUCCESS")]]
    /\ serves' = [serves EXCEPT ![p] = NoName]
    /\ queue_event' = queue_event \ {p}
    /\ UNCHANGED <<m_queues, m_RequestId, signalled, sent, starts, failures>>

\* HeapAlloc or LONG_REPLY returns NULL, or not.
AllocFails == failures < MaxFailures /\ failures' = failures + 1
AllocSucceeds == UNCHANGED failures

-----------------------------------------------------------------------------
\* A process in a sandbox may not create a queue with an asterisk, and a queue
\* that is there and alive is not replaced.
Denied_Never(p, n) == FALSE             \* mutant
Denied(p, n) == n \in StarNames /\ Boxed(p)
Collision_Never(q) == FALSE             \* mutant
Collision(q) == ServerProcessIsActive(q)

\* CreateHandler, for SbieDll_QueueCreate in the start-up of a proxy.  Where
\* it runs out of memory, the queue found dead has been deleted all the same.
CreateQueueObj(p, q) ==
    /\ AllocSucceeds
    /\ m_queues' = [m_queues EXCEPT ![q] =
                      [server_pid |-> p, server_create_time |-> proc[p].born,
                       requests |-> << >>]]
    /\ serves' = [serves EXCEPT ![p] = q]
CreateNoMemory(q) ==
    /\ AllocFails
    /\ m_queues' = [m_queues EXCEPT ![q] = FindQueueObj(q)]
    /\ UNCHANGED serves
CreateHandler(p, n) ==
    /\ Alive(p) /\ p # Svc /\ serves[p] = NoName /\ MayName(p, n)
    /\ \A t \in Threads : thread[p][t].at = "idle"
    /\ LET q == MakeQueueName(p, n)
       IN  \/ /\ ~Denied(p, n) /\ ~Collision(q)
              /\ CreateQueueObj(p, q) \/ CreateNoMemory(q)
           \/ /\ Denied(p, n) \/ Collision(q)
              /\ UNCHANGED <<m_queues, serves, failures>>
    /\ UNCHANGED <<m_RequestId, proc, thread, queue_event, signalled, sent, starts>>

\* PutReqHandler, for a thread that begins a call.  Proxies make no calls.
CanPut(p, t) == /\ Alive(p) /\ serves[p] = NoName
                /\ thread[p][t].at = "idle"
                /\ sent < MaxRequests
PutReqDenied(p, t, n) ==
    /\ ~MayName(p, n)
    /\ thread' = [thread EXCEPT ![p][t] = Idle("ACCESS_DENIED")]
    /\ UNCHANGED <<m_queues, failures>>
PutReqNotFound(p, t, n) ==
    /\ MayName(p, n) /\ ~ServerProcessIsActive(MakeQueueName(p, n))
    /\ m_queues' = [m_queues EXCEPT ![MakeQueueName(p, n)] = NoQueue]
    /\ thread' = [thread EXCEPT ![p][t] = Idle("NAME_NOT_FOUND")]
    /\ UNCHANGED failures
PutReqNoMemory(p, t, n) ==
    /\ MayName(p, n) /\ ServerProcessIsActive(MakeQueueName(p, n))
    /\ AllocFails
    /\ thread' = [thread EXCEPT ![p][t] = Idle("INSUFFICIENT_RESOURCES")]
    /\ UNCHANGED m_queues
PutReqRefused(p, t, n) ==
    /\ CanPut(p, t)
    /\ PutReqDenied(p, t, n) \/ PutReqNotFound(p, t, n) \/ PutReqNoMemory(p, t, n)
    /\ UNCHANGED <<m_RequestId, proc, serves, queue_event, signalled, sent, starts>>

\* SetEvent: on the event of the queue's server, on that of a client.
ServerSignalled(q) == queue_event \cup {m_queues[q].server_pid}
ClientSignalled_Not(r) == signalled     \* mutant: the client is not woken
ClientSignalled(r) == signalled \cup {r.client_event}

PutReqHandler(p, t, n) ==
    /\ CanPut(p, t) /\ MayName(p, n)
    /\ LET q == MakeQueueName(p, n)
           id == Incremented
       IN  /\ ServerProcessIsActive(q)
           /\ m_queues' = SetRequests(q, Append(m_queues[q].requests,
                                                Request(p, id, sent + 1)))
           /\ queue_event' = ServerSignalled(q)
           /\ thread' = [thread EXCEPT ![p][t] = Waiting(p, q, id, sent + 1)]
    /\ sent' = sent + 1
    /\ m_RequestId' = SkipReserved(Incremented)
    /\ UNCHANGED <<proc, serves, signalled, starts, failures>>

\* LONG_REPLY fails after the request got its number: the number is used up.
PutReqNoReply(p, t, n) ==
    /\ CanPut(p, t) /\ MayName(p, n)
    /\ ServerProcessIsActive(MakeQueueName(p, n))
    /\ AllocFails
    /\ sent' = sent + 1
    /\ m_RequestId' = SkipReserved(Incremented)
    /\ thread' = [thread EXCEPT ![p][t] = Idle("INSUFFICIENT_RESOURCES")]
    /\ UNCHANGED <<m_queues, proc, serves, queue_event, signalled, starts>>

\* WaitForSingleObject of the client: the event is signalled, and thereby
\* reset; or the time is over.  The request then stays in the queue.
Wake(p, t) ==
    /\ thread[p][t].at = "wait"
    /\ EventOf(p, thread[p][t].data) \in signalled
    /\ signalled' = signalled \ {EventOf(p, thread[p][t].data)}
    /\ thread' = [thread EXCEPT ![p][t].at = "woken"]
    /\ UNCHANGED <<m_queues, m_RequestId, proc, serves, queue_event, sent,
                   starts, failures>>

Timeout(p, t) ==
    /\ thread[p][t].at = "wait"
    /\ thread' = [thread EXCEPT ![p][t] = Idle("TIMEOUT")]
    /\ UNCHANGED <<m_queues, m_RequestId, proc, serves, queue_event, signalled,
                   sent, starts, failures>>

\* The positions of the request that thread t of process p works on, in the
\* queue as its handler finds it.
Found(p, t) == FindQueueObj(thread[p][t].name).requests
Mine(p, t) == WithId(Found(p, t), thread[p][t].id)

Return(p, t, reply, status) ==
    thread' = [thread EXCEPT ![p][t] = Done(thread[p][t].data, reply, status)]

\* GetRplHandler.  The caller's id is compared, not its create time.  A
\* request without a reply is deleted as one with a reply is.
GetRplNotFound(p, t) ==
    /\ ~ServerProcessIsActive(thread[p][t].name)
    /\ m_queues' = [m_queues EXCEPT ![thread[p][t].name] = NoQueue]
    /\ Return(p, t, 0, "NAME_NOT_FOUND")
    /\ AllocSucceeds
GetRplNoRequest(p, t) ==
    /\ ServerProcessIsActive(thread[p][t].name)
    /\ Mine(p, t) = {}
    /\ Return(p, t, 0, "END_OF_FILE")
    /\ UNCHANGED <<m_queues, failures>>
GetRplDenied(p, t, i) ==
    /\ Found(p, t)[i].client_pid # p
    /\ Return(p, t, 0, "ACCESS_DENIED")
    /\ UNCHANGED <<m_queues, failures>>
GetRplNoMemory(p, t, i) ==
    /\ Found(p, t)[i].client_pid = p /\ Found(p, t)[i].rpl # 0
    /\ AllocFails
    /\ Return(p, t, 0, "INSUFFICIENT_RESOURCES")
    /\ UNCHANGED m_queues
GetRplTake(p, t, i) ==
    /\ Found(p, t)[i].client_pid = p
    /\ m_queues' = SetRequests(thread[p][t].name, DeleteRequestObj(Found(p, t), i))
    /\ LET rpl == Found(p, t)[i].rpl
       IN  Return(p, t, rpl, IF rpl = 0 THEN "END_OF_FILE" ELSE "SUCCESS")
    /\ AllocSucceeds
GetRplHandler(p, t) ==
    /\ thread[p][t].at = "woken"
    /\ \/ GetRplNotFound(p, t)
       \/ GetRplNoRequest(p, t)
       \/ \E i \in Mine(p, t) :
             /\ IsFirst(i, Mine(p, t))
             /\ \/ GetRplDenied(p, t, i)
                \/ GetRplNoMemory(p, t, i)
                \/ GetRplTake(p, t, i)
    /\ UNCHANGED <<m_RequestId, proc, serves, queue_event, signalled, sent, starts>>

-----------------------------------------------------------------------------
\* The thread pool of a proxy runs QueueCallbackWorker (QueueCallbackSlave)
\* when the event of the queue is signalled, which resets it; one thread may
\* still be in its loop when another starts.
QueueCallback(p, t) ==
    /\ p \in queue_event /\ serves[p] # NoName
    /\ thread[p][t].at = "idle"
    /\ queue_event' = queue_event \ {p}
    /\ thread' = [thread EXCEPT ![p][t] = Checking("SUCCESS")]
    /\ UNCHANGED <<m_queues, m_RequestId, proc, serves, signalled, sent, starts,
                   failures>>

\* GetReqHandler: the oldest request whose data was not fetched yet.  Whatever
\* else it returns makes the callback return.
Owns(p, q) == FindQueueObj(q).server_pid = p
Refusal(p, q) == CASE ~ServerProcessIsActive(q) -> "NAME_NOT_FOUND"
                   [] ServerProcessIsActive(q) /\ ~Owns(p, q) -> "ACCESS_DENIED"
                   [] OTHER -> "END_OF_FILE"
Open(p) == Unfetched(FindQueueObj(serves[p]).requests)
GetReqNothing(p, t) ==
    /\ ~Owns(p, serves[p]) \/ Open(p) = {}
    /\ m_queues' = [m_queues EXCEPT ![serves[p]] = FindQueueObj(serves[p])]
    /\ thread' = [thread EXCEPT ![p][t] = Idle(Refusal(p, serves[p]))]
    /\ AllocSucceeds
GetReqTake(p, t, i) ==
    LET reqs == FindQueueObj(serves[p]).requests
    IN  /\ m_queues' = SetRequests(serves[p], [reqs EXCEPT ![i].fetched = TRUE])
        /\ thread' = [thread EXCEPT ![p][t] = Serving(serves[p], reqs[i])]
        /\ AllocSucceeds
GetReqNoMemory(p, t) ==
    /\ thread' = [thread EXCEPT ![p][t] = Idle("INSUFFICIENT_RESOURCES")]
    /\ AllocFails
    /\ UNCHANGED m_queues
GetReqHandler(p, t) ==
    /\ thread[p][t].at = "check"
    /\ \/ GetReqNothing(p, t)
       \/ \E i \in Open(p) : /\ Owns(p, serves[p]) /\ IsFirst(i, Open(p))
                             /\ GetReqTake(p, t, i) \/ GetReqNoMemory(p, t)
    /\ UNCHANGED <<m_RequestId, proc, serves, queue_event, signalled, sent, starts>>

\* After success and after END_OF_FILE the loop of the callback goes on, after
\* anything else it ends.
AfterReply_Ends(status) == Idle(status) \* mutant: one request per callback
AfterReply(status) ==
    IF status \in {"SUCCESS", "END_OF_FILE"} THEN Checking(status) ELSE Idle(status)

\* PutRplHandler, after the proxy processed the request: the reply is stored,
\* or the request is deleted when that is not possible.
PutRplNothing(p, t) ==
    /\ ~Owns(p, thread[p][t].name) \/ Mine(p, t) = {}
    /\ m_queues' = [m_queues EXCEPT ![thread[p][t].name] =
                      FindQueueObj(thread[p][t].name)]
    /\ thread' = [thread EXCEPT ![p][t] =
                    AfterReply(Refusal(p, thread[p][t].name))]
    /\ UNCHANGED <<signalled, failures>>
PutRplStore(p, t, i) ==
    /\ Found(p, t)[i].fetched
    /\ m_queues' = SetRequests(thread[p][t].name,
                               [Found(p, t) EXCEPT ![i].rpl = thread[p][t].data])
    /\ signalled' = ClientSignalled(Found(p, t)[i])
    /\ thread' = [thread EXCEPT ![p][t] = AfterReply("SUCCESS")]
    /\ AllocSucceeds
PutRplDrop(p, t, i) ==
    /\ IF Found(p, t)[i].fetched THEN AllocFails ELSE AllocSucceeds
    /\ m_queues' = SetRequests(thread[p][t].name, DeleteRequestObj(Found(p, t), i))
    /\ thread' = [thread EXCEPT ![p][t] =
                    AfterReply(IF Found(p, t)[i].fetched
                               THEN "INSUFFICIENT_RESOURCES"
                               ELSE "SHARING_VIOLATION")]
    /\ UNCHANGED signalled
PutRplHandler(p, t) ==
    /\ thread[p][t].at = "serve"
    /\ \/ PutRplNothing(p, t)
       \/ \E i \in Mine(p, t) : /\ Owns(p, thread[p][t].name)
                                /\ IsFirst(i, Mine(p, t))
                                /\ PutRplStore(p, t, i) \/ PutRplDrop(p, t, i)
    /\ UNCHANGED <<m_RequestId, proc, serves, queue_event, sent, starts>>

-----------------------------------------------------------------------------
Next ==
    \/ \E p \in Pids, b \in Boxes \cup {NoBox} : Start(p, b)
    \/ \E p \in Pids : Exit(p)
    \/ \E p \in Pids, n \in Names : CreateHandler(p, n)
    \/ \E p \in Pids, t \in Threads, n \in Names :
          PutReqRefused(p, t, n) \/ PutReqHandler(p, t, n) \/ PutReqNoReply(p, t, n)
    \/ \E p \in Pids, t \in Threads :
          \/ Wake(p, t) \/ Timeout(p, t) \/ GetRplHandler(p, t)
          \/ QueueCallback(p, t) \/ GetReqHandler(p, t) \/ PutRplHandler(p, t)

\* The thread pool runs a callback for a signalled event, and a thread that is
\* in a handler or processes a request gets done; nothing else is assumed.
Fairness == \A p \in Pids :
    /\ WF_vars(\E t \in Threads : QueueCallback(p, t))
    /\ \A t \in Threads : /\ WF_vars(GetReqHandler(p, t))
                          /\ WF_vars(PutRplHandler(p, t))
                          /\ WF_vars(GetRplHandler(p, t))

Safety == Init /\ [][Next]_vars
Spec == Safety /\ Fairness

-----------------------------------------------------------------------------
RequestType == [client_pid : Pids, client_event : 0 .. MaxRequests,
                request_id : 1 .. IdMod - 1, data : 1 .. MaxRequests,
                fetched : BOOLEAN, rpl : 0 .. MaxRequests]
QueueType == [server_pid : Pids, server_create_time : 0 .. MaxStarts,
              requests : Seq(RequestType)]
Statuses == {"SUCCESS", "ACCESS_DENIED", "NAME_NOT_FOUND", "END_OF_FILE", "TIMEOUT",
             "INSUFFICIENT_RESOURCES", "SHARING_VIOLATION"}
ThreadType == [at : {"idle", "wait", "woken", "check", "serve"},
               name : QueueNames \cup {NoName}, id : 0 .. IdMod - 1,
               data : 0 .. MaxRequests, client : Pids,
               reply : 0 .. MaxRequests,
               status : Statuses]

\* The variables have their types; in particular no request is numbered 0,
\* which SbieDll_QueuePutReq returns in place of a number when it fails.
TypeOK ==
    /\ m_queues \in [QueueNames -> QueueType]
    /\ m_RequestId \in 1 .. IdMod - 2
    /\ proc \in [Pids -> [born : 0 .. MaxStarts, box : Boxes \cup {NoBox}]]
    /\ thread \in [Pids -> [Threads -> ThreadType]]
    /\ serves \in [Pids -> QueueNames \cup {NoName}]
    /\ queue_event \subseteq Pids
    /\ signalled \subseteq 0 .. MaxRequests
    /\ sent \in 0 .. MaxRequests
    /\ starts \in 1 .. MaxStarts
    /\ failures \in 0 .. MaxFailures

Requests(q) == m_queues[q].requests
Positions(q) == 1 .. Len(Requests(q))

\* A running proxy keeps the queue that it created: no other process takes the
\* name over, and neither the end of other processes nor the reuse of their ids
\* makes FindQueueObj delete it.
ServerKeepsQueue ==
    \A p \in Pids : serves[p] # NoName =>
        /\ ServerProcessIsActive(serves[p])
        /\ m_queues[serves[p]].server_pid = p

\* A queue named with an asterisk is served from outside the sandboxes, any
\* other queue from inside the sandbox whose path is part of its name.
ServerBelongsToName ==
    \A p \in Pids : serves[p] # NoName => proc[p].box = serves[p][1]

\* Requests are fetched in the order in which they were put, and only fetched
\* ones are answered.
FetchedInOrder ==
    \A q \in QueueNames : \A i, j \in Positions(q) :
        /\ i < j => Requests(q)[i].data < Requests(q)[j].data
        /\ i < j /\ Requests(q)[j].fetched => Requests(q)[i].fetched
        /\ Requests(q)[i].rpl # 0 => Requests(q)[i].fetched

\* As long as no allocation fails, a request is never left behind by a proxy
\* that sleeps: its event is signalled or one of its threads is in the loop.
NoLostWakeup ==
    failures = 0 =>
        \A q \in QueueNames :
            ServerProcessIsActive(q) /\ Unfetched(Requests(q)) # {} =>
                LET p == m_queues[q].server_pid
                IN  \/ p \in queue_event
                    \/ \E t \in Threads : thread[p][t].at \in {"check", "serve"}

\* What a call returns is the answer to the request that the call put.
ReplyAnswersCall ==
    \A p \in Pids, t \in Threads :
        thread[p][t].reply # 0 => thread[p][t].reply = thread[p][t].data

\* A client other than the service does not sleep through its reply.
ReplyWakesClient ==
    \A p \in Pids \ {Svc}, t \in Threads : thread[p][t].at = "wait" =>
        \A q \in QueueNames : \A i \in Positions(q) :
            /\ Requests(q)[i].data = thread[p][t].data
            /\ Requests(q)[i].rpl # 0
            => EventOf(p, thread[p][t].data) \in signalled

\* When no allocation fails, a request is fetched unless its proxy ends.
RequestServed ==
    \A d \in 1 .. MaxRequests, q \in QueueNames :
        LET Left == \E i \in Positions(q) : /\ Requests(q)[i].data = d
                                            /\ ~Requests(q)[i].fetched
        IN  Left ~> ~Left \/ ~ServerProcessIsActive(q)

\* "note that STATUS_END_OF_FILE here indicates the calling process is no
\* longer there" (svc/GuiServer.cpp and svc/UserServer.cpp, QueueCallback*2):
\* when PutRplHandler returns it, the process that put the request has ended,
\* through timeouts, late replies and reused ids.  The service is left out: it
\* waits on one event for all its calls, and a late reply to one of them makes
\* the next give up its request.
EndOfFileMeansClientGone ==
    [][\A p \in Pids, t \in Threads :
          (thread[p][t].at = "serve" /\ thread'[p][t].status = "END_OF_FILE")
              => thread[p][t].client = Svc \/ ~Alive(thread[p][t].client)]_vars
=============================================================================
