---------------------------- MODULE ProxyStartup ----------------------------
(***************************************************************************)
(* How the proxy of a session is started on demand: SbieDll_QueuePutReq    *)
(* and SbieDll_StartProxy in dll/callsvc.c, StartupHandler of              *)
(* svc/queueserver.cpp, and StartAsync, StartWorker and RunWorker of       *)
(* svc/UserServer.cpp, which GuiServer::StartAsync, StartSlave and         *)
(* RunSlave repeat for the GUI proxy.                                      *)
(*                                                                         *)
(* A client that finds no queue asks the service for the proxy and waits   *)
(* on an event.  The service starts a thread for each such request and     *)
(* does not exclude these threads from one another: they share the list of *)
(* the proxies they started and, since its name is made of the session     *)
(* only, the event by which a new proxy reports.  The list operations of   *)
(* two threads are taken not to overlap.                                   *)
(***************************************************************************)
EXTENDS Integers, FiniteSets

CONSTANTS
    Clients,     \* processes that make one call each
    MaxProcs,    \* bound: proxies that are created
    MaxFaults    \* bound: calls of Windows that fail, and proxies that crash

ASSUME StartupAssumption == MaxProcs \in Nat /\ MaxFaults \in Nat

Procs == 1 .. MaxProcs
None == 0

VARIABLES
    client,      \* per client, where it is in SbieDll_QueuePutReq
    notified,    \* the clients whose startup event is signalled
    starter,     \* per client, the thread that StartAsync made for it
    m_WorkersList, \* the proxies of this session that were put into the list
    event,       \* the proxies that signalled the named event since it was reset
    proc,        \* per proxy, how far it is
    server,      \* the proxy that created the queue last
    procs, faults,
    disturbed    \* the clients for which a wait timed out or a proxy that ran was
                 \* terminated

vars == <<client, notified, starter, m_WorkersList, event, proc, server, procs, faults,
          disturbed>>

NoStarter == [at |-> "none", pid |-> None]

Init ==
    /\ client = [c \in Clients |-> "put"]
    /\ notified = {}
    /\ starter = [c \in Clients |-> NoStarter]
    /\ m_WorkersList = {}
    /\ event = {}
    /\ proc = [p \in Procs |-> "none"]
    /\ server = None
    /\ procs = 0
    /\ faults = 0
    /\ disturbed = {}

Fault == faults < MaxFaults /\ faults' = faults + 1

\* FindQueueObj: the queue counts while its server runs.
Up == server # None /\ proc[server] \in {"queued", "ready"}

-----------------------------------------------------------------------------
Goto(c, at) == client' = [client EXCEPT ![c] = at]

\* SbieDll_QueuePutReqImpl, first and second try.
PutReq(c) ==
    /\ client[c] = "put"
    /\ Goto(c, IF Up THEN "accepted" ELSE "startup")
    /\ UNCHANGED <<notified, starter, m_WorkersList, event, proc, server, procs,
                   faults, disturbed>>
PutReqAgain(c) ==
    /\ client[c] = "again"
    /\ Goto(c, IF Up THEN "accepted" ELSE "refused")
    /\ UNCHANGED <<notified, starter, m_WorkersList, event, proc, server, procs,
                   faults, disturbed>>

\* StartupHandler returns at once: the proxy is there already, in which case
\* nobody will signal the client's event, or a thread will start it.
StartupHandler(c) ==
    /\ client[c] = "startup"
    /\ Goto(c, "wait")
    /\ starter' = IF Up THEN starter ELSE [starter EXCEPT ![c].at = "terminate"]
    /\ UNCHANGED <<notified, m_WorkersList, event, proc, server, procs, faults,
                   disturbed>>
\* DuplicateEvent, SbieApi_QueryProcess or CreateThread fails; the status of
\* the first try is returned.
StartupFails(c) ==
    /\ client[c] = "startup" /\ ~Up
    /\ Goto(c, "refused")
    /\ Fault
    /\ UNCHANGED <<notified, starter, m_WorkersList, event, proc, server, procs,
                   disturbed>>

\* The wait of SbieDll_StartProxy, for at most 10 seconds.  STATUS_TIMEOUT is
\* a success for NT_SUCCESS: the request is tried again all the same.
Notified(c) ==
    /\ client[c] = "wait" /\ c \in notified
    /\ Goto(c, "again")
    /\ notified' = notified \ {c}
    /\ UNCHANGED <<starter, m_WorkersList, event, proc, server, procs, faults, disturbed>>
Timeout_Never(c) == FALSE /\ UNCHANGED vars     \* mutant: waits INFINITE
Timeout(c) ==
    /\ client[c] = "wait" /\ c \notin notified
    /\ Goto(c, "again")
    /\ disturbed' = disturbed \cup {c}
    /\ UNCHANGED <<notified, starter, m_WorkersList, event, proc, server, procs, faults>>

-----------------------------------------------------------------------------
\* The named event exists as long as a thread has it open.
Opened(s) == s.at \in {"create", "created", "waiting", "report"}
EventExists == \E c \in Clients : Opened(starter[c])

StarterGoto(c, at) == starter' = [starter EXCEPT ![c].at = at]

\* StartWorker first terminates the proxies of the session that it knows.
Terminate(c) ==
    /\ starter[c].at = "terminate"
    /\ proc' = [p \in Procs |-> IF p \in m_WorkersList THEN "dead" ELSE proc[p]]
    /\ m_WorkersList' = {}
    /\ StarterGoto(c, "open")
    /\ disturbed' = IF \E p \in m_WorkersList : proc[p] # "dead"
                    THEN disturbed \cup {c} ELSE disturbed
    /\ UNCHANGED <<client, notified, event, server, procs, faults>>

\* CreateEvent makes the event or opens the one that is there; ResetEvent.
OpenEvent(c) ==
    /\ starter[c].at = "open"
    /\ event' = {}
    /\ StarterGoto(c, "create")
    /\ UNCHANGED <<client, notified, m_WorkersList, proc, server, procs, faults,
                   disturbed>>
OpenFails(c) ==
    /\ starter[c].at = "open"
    /\ Fault
    /\ StarterGoto(c, "failed")
    /\ UNCHANGED <<client, notified, m_WorkersList, event, proc, server, procs,
                   disturbed>>

CreateProcess(c) ==
    /\ starter[c].at = "create" /\ procs < MaxProcs
    /\ procs' = procs + 1
    /\ proc' = [proc EXCEPT ![procs + 1] = "new"]
    /\ starter' = [starter EXCEPT ![c] = [at |-> "created", pid |-> procs + 1]]
    /\ UNCHANGED <<client, notified, m_WorkersList, event, server, faults, disturbed>>
\* Also when there was no token: the event was made and reset before that counts.
CreateFails(c) ==
    /\ starter[c].at = "create"
    /\ Fault
    /\ StarterGoto(c, "failed")
    /\ UNCHANGED <<client, notified, m_WorkersList, event, proc, server, procs,
                   disturbed>>

\* WaitForMultipleObjects for at most 15 seconds: on the event, whoever set
\* it, and on the process.
Wait(c) ==
    /\ starter[c].at = "created"
    /\ StarterGoto(c, IF event # {} THEN "report"
                      ELSE IF proc[starter[c].pid] = "dead" THEN "failed" ELSE "waiting")
    /\ UNCHANGED <<client, notified, m_WorkersList, event, proc, server, procs,
                   faults, disturbed>>
ProcessEnds(c) ==
    /\ starter[c].at = "waiting" /\ proc[starter[c].pid] = "dead"
    /\ StarterGoto(c, "failed")
    /\ UNCHANGED <<client, notified, m_WorkersList, event, proc, server, procs, faults,
                   disturbed>>
WaitTimeout(c) ==
    /\ starter[c].at = "waiting"
    /\ StarterGoto(c, "failed")
    /\ disturbed' = disturbed \cup {c}
    /\ UNCHANGED <<client, notified, m_WorkersList, event, proc, server, procs, faults>>

\* Only a proxy that reported, or seems to have, is put into the list.
Report_Unknown(c) ==                    \* mutant: no process handle is stored
    /\ starter[c].at = "report"
    /\ m_WorkersList' = m_WorkersList \cup {None}
    /\ StarterGoto(c, "started")
    /\ UNCHANGED <<client, notified, event, proc, server, procs, faults, disturbed>>
Report(c) ==
    /\ starter[c].at = "report"
    /\ m_WorkersList' = m_WorkersList \cup {starter[c].pid}
    /\ StarterGoto(c, "started")
    /\ UNCHANGED <<client, notified, event, proc, server, procs, faults, disturbed>>

ReportNoMemory(c) ==
    /\ starter[c].at = "report"
    /\ Fault
    /\ StarterGoto(c, "failed")
    /\ UNCHANGED <<client, notified, m_WorkersList, event, proc, server, procs,
                   disturbed>>

\* StartupWorker ignores the status of StartWorker and notifies the client.
Notify(c) ==
    /\ starter[c].at \in {"started", "failed"}
    /\ notified' = notified \cup {c}
    /\ starter' = [starter EXCEPT ![c].at = "ended"]
    /\ UNCHANGED <<client, m_WorkersList, event, proc, server, procs, faults, disturbed>>

-----------------------------------------------------------------------------
\* CreateQueueWorker: a proxy that cannot have the queue ends without a report.
MayCreate_Always == TRUE                \* mutant: takes the queue over
MayCreate == ~Up
QueueCreate(p) ==
    /\ proc[p] = "new"
    /\ IF MayCreate THEN /\ proc' = [proc EXCEPT ![p] = "queued"]
                         /\ server' = p
       ELSE proc' = [proc EXCEPT ![p] = "dead"] /\ UNCHANGED server
    /\ UNCHANGED <<client, notified, starter, m_WorkersList, event, procs, faults,
                   disturbed>>

\* SetEvent lets go every thread that waits for the event, and each that will
\* until it is reset.
SetEvent_Early(p) ==                    \* mutant: reports before it has the queue
    /\ proc[p] \in {"new", "queued"}
    /\ proc' = [proc EXCEPT ![p] = IF @ = "queued" THEN "ready" ELSE "new"]
    /\ event' = IF EventExists THEN event \cup {p} ELSE {}
    /\ starter' = [c \in Clients |-> IF starter[c].at = "waiting"
                                     THEN [starter[c] EXCEPT !.at = "report"]
                                     ELSE starter[c]]
    /\ UNCHANGED <<client, notified, m_WorkersList, server, procs, faults, disturbed>>
SetEvent(p) ==
    /\ proc[p] = "queued"
    /\ proc' = [proc EXCEPT ![p] = "ready"]
    /\ event' = IF EventExists THEN event \cup {p} ELSE {}
    /\ starter' = [c \in Clients |-> IF starter[c].at = "waiting"
                                     THEN [starter[c] EXCEPT !.at = "report"]
                                     ELSE starter[c]]
    /\ UNCHANGED <<client, notified, m_WorkersList, server, procs, faults, disturbed>>

Crash(p) ==
    /\ proc[p] \in {"new", "queued", "ready"}
    /\ Fault
    /\ proc' = [proc EXCEPT ![p] = "dead"]
    /\ UNCHANGED <<client, notified, starter, m_WorkersList, event, server, procs,
                   disturbed>>

-----------------------------------------------------------------------------
ClientStep(c) == \/ PutReq(c) \/ PutReqAgain(c) \/ StartupHandler(c) \/ StartupFails(c)
                 \/ Notified(c) \/ Timeout(c)
StarterStep(c) == \/ Terminate(c) \/ OpenEvent(c) \/ OpenFails(c) \/ CreateProcess(c)
                  \/ CreateFails(c) \/ Wait(c) \/ ProcessEnds(c) \/ WaitTimeout(c)
                  \/ Report(c) \/ ReportNoMemory(c) \/ Notify(c)
ProcStep(p) == QueueCreate(p) \/ SetEvent(p)
Next == \/ \E c \in Clients : ClientStep(c) \/ StarterStep(c)
        \/ \E p \in Procs : ProcStep(p) \/ Crash(p)

\* Threads run and waits come to their end; nothing has to fail.
Fairness == /\ \A c \in Clients : WF_vars(ClientStep(c)) /\ WF_vars(StarterStep(c))
            /\ \A p \in Procs : WF_vars(ProcStep(p))
Spec == Init /\ [][Next]_vars /\ Fairness

-----------------------------------------------------------------------------
StarterPlaces == {"none", "terminate", "open", "create", "created", "waiting", "report",
                  "started", "failed", "ended"}
StarterType == [at : StarterPlaces, pid : Procs \cup {None}]

\* The variables have their types.
TypeOK ==
    /\ client \in [Clients -> {"put", "startup", "wait", "again", "accepted", "refused"}]
    /\ notified \subseteq Clients
    /\ starter \in [Clients -> StarterType]
    /\ m_WorkersList \subseteq Procs
    /\ event \subseteq Procs
    /\ proc \in [Procs -> {"none", "new", "queued", "ready", "dead"}]
    /\ server \in Procs \cup {None}
    /\ procs \in 0 .. MaxProcs
    /\ faults \in 0 .. MaxFaults
    /\ disturbed \subseteq Clients

\* However many threads start proxies at the same time, only one of these
\* believes that it has the queue of the session, and it does have it.
OneServer == \A p \in Procs : proc[p] \in {"queued", "ready"} => p = server

\* The request is refused in the end only if something failed, a wait timed out
\* or StartWorker terminated a proxy that ran: the other races between the
\* threads (a proxy that cannot have the queue because another has it, a report
\* taken for that of another proxy) still leave the session with a proxy.
RefusedWhenDisturbed ==
    \A c \in Clients : client[c] = "refused" => disturbed # {} \/ faults > 0

\* Each call is accepted or refused in the end, whoever else starts the proxy.
CallEnds == \A c \in Clients : <>(client[c] \in {"accepted", "refused"})
=============================================================================
