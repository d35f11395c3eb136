------------------------- MODULE ProxyStartupProofs -------------------------
(***************************************************************************)
(* For any number of clients, proxies and faults: only one proxy has the   *)
(* queue of the session, and a request is refused in the end only if       *)
(* something failed, timed out or terminated a proxy that ran.             *)
(***************************************************************************)
EXTENDS ProxyStartup, TLAPS

USE StartupAssumption

-----------------------------------------------------------------------------
(* Types *)

\* The initial values have their types.
LEMMA InitType == Init => TypeOK
BY DEF Init, TypeOK, NoStarter, StarterType, StarterPlaces

\* A thread of StartAsync that moves on stays in its type.
LEMMA StarterGotoType ==
    ASSUME TypeOK, NEW c \in Clients, NEW at \in StarterPlaces, StarterGoto(c, at)
    PROVE  starter' \in [Clients -> StarterType]
BY DEF TypeOK, StarterType, StarterGoto

\* A thread that waits for a proxy, or is about to put it into the list, has
\* created it.
HasProc == \A c \in Clients : starter[c].at \in {"created", "waiting", "report"} =>
                                  starter[c].pid \in Procs

\* Every step keeps the types.
LEMMA TypeStep == TypeOK /\ HasProc /\ [Next]_vars => TypeOK'
<1> SUFFICES ASSUME TypeOK, HasProc, [Next]_vars PROVE TypeOK'
    OBVIOUS
<1> USE DEF TypeOK
<1>1. ASSUME NEW c \in Clients, ClientStep(c) PROVE TypeOK'
    <2>1. CASE PutReq(c) \/ PutReqAgain(c)
        BY <2>1 DEF PutReq, PutReqAgain, Goto
    <2>2. CASE StartupHandler(c)
        <3>1. starter' \in [Clients -> StarterType]
            BY <2>2 DEF StartupHandler, StarterType, StarterPlaces
        <3> QED BY <2>2, <3>1 DEF StartupHandler, Goto
    <2>3. CASE StartupFails(c)
        BY <2>3 DEF StartupFails, Goto, Fault
    <2>4. CASE Notified(c) \/ Timeout(c)
        BY <2>4 DEF Notified, Timeout, Goto
    <2> QED BY <1>1, <2>1, <2>2, <2>3, <2>4 DEF ClientStep
<1>2. ASSUME NEW c \in Clients, StarterStep(c) PROVE TypeOK'
    <2>1. CASE Terminate(c)
        <3>1. starter' \in [Clients -> StarterType]
            BY <2>1, StarterGotoType DEF Terminate, StarterPlaces
        <3> QED BY <2>1, <3>1 DEF Terminate
    <2>2. CASE OpenEvent(c)
        <3>1. starter' \in [Clients -> StarterType]
            BY <2>2, StarterGotoType DEF OpenEvent, StarterPlaces
        <3> QED BY <2>2, <3>1 DEF OpenEvent
    <2>3. CASE OpenFails(c)
        <3>1. starter' \in [Clients -> StarterType]
            BY <2>3, StarterGotoType DEF OpenFails, StarterPlaces
        <3> QED BY <2>3, <3>1 DEF OpenFails, Fault
    <2>4. CASE CreateProcess(c)
        <3>1. procs + 1 \in Procs /\ procs' \in 0 .. MaxProcs
            BY <2>4 DEF CreateProcess, Procs
        <3>2. starter' \in [Clients -> StarterType]
            BY <2>4, <3>1 DEF CreateProcess, StarterType, StarterPlaces
        <3> QED BY <2>4, <3>1, <3>2 DEF CreateProcess
    <2>5. CASE CreateFails(c)
        <3>1. starter' \in [Clients -> StarterType]
            BY <2>5, StarterGotoType DEF CreateFails, StarterPlaces
        <3> QED BY <2>5, <3>1 DEF CreateFails, Fault
    <2>6. CASE Wait(c) \/ ProcessEnds(c) \/ WaitTimeout(c)
        <3>1. starter' \in [Clients -> StarterType]
            BY <2>6, StarterGotoType DEF Wait, ProcessEnds, WaitTimeout, StarterPlaces
        <3> QED BY <2>6, <3>1 DEF Wait, ProcessEnds, WaitTimeout
    <2>7. CASE Report(c)
        <3>1. starter' \in [Clients -> StarterType]
            BY <2>7, StarterGotoType DEF Report, StarterPlaces
        <3>2. starter[c].pid \in Procs
            BY <2>7 DEF Report, HasProc
        <3> QED BY <2>7, <3>1, <3>2 DEF Report
    <2>8. CASE ReportNoMemory(c)
        <3>1. starter' \in [Clients -> StarterType]
            BY <2>8, StarterGotoType DEF ReportNoMemory, StarterPlaces
        <3> QED BY <2>8, <3>1 DEF ReportNoMemory, Fault
    <2>9. CASE Notify(c)
        <3>1. starter' \in [Clients -> StarterType]
            BY <2>9, StarterGotoType DEF Notify, StarterGoto, StarterPlaces
        <3> QED BY <2>9, <3>1 DEF Notify
    <2> QED BY <1>2, <2>1, <2>2, <2>3, <2>4, <2>5, <2>6, <2>7, <2>8, <2>9
            DEF StarterStep
<1>3. ASSUME NEW p \in Procs, ProcStep(p) PROVE TypeOK'
    <2>1. CASE QueueCreate(p)
        BY <2>1 DEF QueueCreate
    <2>2. CASE SetEvent(p)
        <3>1. starter' \in [Clients -> StarterType]
            BY <2>2 DEF SetEvent, StarterType, StarterPlaces
        <3> QED BY <2>2, <3>1 DEF SetEvent
    <2> QED BY <1>3, <2>1, <2>2 DEF ProcStep
<1>4. ASSUME NEW p \in Procs, Crash(p) PROVE TypeOK'
    BY <1>4 DEF Crash, Fault
<1>5. CASE UNCHANGED vars
    BY <1>5 DEF vars
<1> QED BY <1>1, <1>2, <1>3, <1>4, <1>5 DEF Next

\* Every step keeps HasProc: a thread gets past CreateProcess only through it.
LEMMA HasProcStep == TypeOK /\ HasProc /\ [Next]_vars => HasProc'
<1> SUFFICES ASSUME TypeOK, HasProc, [Next]_vars PROVE HasProc'
    OBVIOUS
<1> USE DEF TypeOK, HasProc
<1>1. ASSUME NEW c \in Clients, ClientStep(c) PROVE HasProc'
    BY <1>1 DEF ClientStep, PutReq, PutReqAgain, StartupHandler, StartupFails,
                Notified, Timeout, StarterType
<1>2. ASSUME NEW c \in Clients, StarterStep(c) PROVE HasProc'
    <2>1. CASE Terminate(c) \/ OpenEvent(c) \/ OpenFails(c)
        BY <2>1 DEF Terminate, OpenEvent, OpenFails, StarterGoto, StarterType
    <2>2. CASE CreateProcess(c)
        <3>1. procs + 1 \in Procs
            BY <2>2 DEF CreateProcess, Procs
        <3> QED BY <2>2, <3>1 DEF CreateProcess, StarterType
    <2>3. CASE CreateFails(c) \/ Wait(c) \/ ProcessEnds(c) \/ WaitTimeout(c)
        BY <2>3 DEF CreateFails, Wait, ProcessEnds, WaitTimeout, StarterGoto,
                    StarterType
    <2>4. CASE Report(c) \/ ReportNoMemory(c) \/ Notify(c)
        BY <2>4 DEF Report, ReportNoMemory, Notify, StarterGoto, StarterType
    <2> QED BY <1>2, <2>1, <2>2, <2>3, <2>4 DEF StarterStep
<1>3. ASSUME NEW p \in Procs, ProcStep(p) \/ Crash(p) PROVE HasProc'
    BY <1>3 DEF ProcStep, QueueCreate, SetEvent, Crash, StarterType
<1>4. CASE UNCHANGED vars
    BY <1>4 DEF vars
<1> QED BY <1>1, <1>2, <1>3, <1>4 DEF Next

\* The variables of the start-up of proxies always have their types.
THEOREM TypeCorrect == Spec => [](TypeOK /\ HasProc)
<1>1. Init => TypeOK /\ HasProc
    BY InitType DEF Init, HasProc, NoStarter
<1> QED BY <1>1, TypeStep, HasProcStep, PTL DEF Spec

-----------------------------------------------------------------------------
(* One proxy has the queue *)

\* CreateQueueWorker takes the queue only when its last server is gone, so
\* every step keeps OneServer.
LEMMA OneServerStep == TypeOK /\ OneServer /\ [Next]_vars => OneServer'
<1> SUFFICES ASSUME TypeOK, OneServer, [Next]_vars PROVE OneServer'
    OBVIOUS
<1> USE DEF TypeOK, OneServer
<1>1. ASSUME NEW c \in Clients, ClientStep(c) PROVE OneServer'
    BY <1>1 DEF ClientStep, PutReq, PutReqAgain, StartupHandler, StartupFails,
                Notified, Timeout
<1>2. ASSUME NEW c \in Clients, StarterStep(c) PROVE OneServer'
    <2>1. CASE Terminate(c)
        BY <2>1 DEF Terminate
    <2>2. CASE CreateProcess(c)
        BY <2>2 DEF CreateProcess
    <2>3. CASE UNCHANGED <<proc, server>>
        BY <2>3
    <2> QED BY <1>2, <2>1, <2>2, <2>3
            DEF StarterStep, OpenEvent, OpenFails, CreateFails, Wait, ProcessEnds,
                WaitTimeout, Report, ReportNoMemory, Notify
<1>3. ASSUME NEW p \in Procs, ProcStep(p) PROVE OneServer'
    <2>1. CASE QueueCreate(p)
        BY <2>1 DEF QueueCreate, MayCreate, Up, Procs, None
    <2>2. CASE SetEvent(p)
        BY <2>2 DEF SetEvent
    <2> QED BY <1>3, <2>1, <2>2 DEF ProcStep
<1>4. ASSUME NEW p \in Procs, Crash(p) PROVE OneServer'
    BY <1>4 DEF Crash
<1>5. CASE UNCHANGED vars
    BY <1>5 DEF vars
<1> QED BY <1>1, <1>2, <1>3, <1>4, <1>5 DEF Next

\* However many clients ask for the proxy at the same time, at most one of the
\* proxies that StartWorker creates has the queue, and no other thinks it does.
THEOREM OneProxyServes == Spec => []OneServer
<1>1. Init => OneServer
    BY DEF Init, OneServer
<1> QED BY <1>1, TypeCorrect, OneServerStep, PTL DEF Spec

-----------------------------------------------------------------------------
(* Refused only when disturbed *)

\* Nothing failed, no wait timed out, no proxy that ran was terminated.
Calm == disturbed = {} /\ faults = 0

\* A proxy that was not created yet is no process, and nobody knows it.
Fresh == /\ \A p \in Procs : p > procs => proc[p] = "none"
         /\ \A p \in m_WorkersList : p <= procs
         /\ \A c \in Clients : starter[c].at \in {"created", "waiting", "report"} =>
                                   starter[c].pid <= procs

\* The inductive invariant.  As long as all is calm, a queue that was created
\* stays, and everything that leads a client to its second try (a signalled
\* event, a thread that got past its wait, a proxy that ended because it could
\* not have the queue) is evidence of such a queue.
Evidence ==
    \/ server # None
    \/ event # {}
    \/ notified # {}
    \/ \E c \in Clients : client[c] = "again"
    \/ \E c \in Clients : starter[c].at \in {"report", "started", "failed"}
    \/ \E p \in Procs : proc[p] = "dead"
Settled == Calm => /\ Evidence => Up
                   /\ \A c \in Clients : client[c] # "refused"

\* Every step keeps Fresh: only CreateProcess makes a process, the next one.
LEMMA FreshStep == TypeOK /\ HasProc /\ Fresh /\ [Next]_vars => Fresh'
<1> SUFFICES ASSUME TypeOK, HasProc, Fresh, [Next]_vars PROVE Fresh'
    OBVIOUS
<1> USE DEF TypeOK, HasProc, Fresh, Procs, StarterType
<1>1. ASSUME NEW c \in Clients, ClientStep(c) PROVE Fresh'
    <2>1. CASE StartupHandler(c)
        BY <2>1 DEF StartupHandler
    <2>2. CASE UNCHANGED <<starter, m_WorkersList, proc, procs>>
        BY <2>2
    <2> QED BY <1>1, <2>1, <2>2 DEF ClientStep, PutReq, PutReqAgain, StartupFails,
                                    Notified, Timeout
<1>2. ASSUME NEW c \in Clients, StarterStep(c) PROVE Fresh'
    <2>1. CASE Terminate(c)
        BY <2>1 DEF Terminate, StarterGoto
    <2>2. CASE OpenEvent(c) \/ OpenFails(c)
        BY <2>2 DEF OpenEvent, OpenFails, StarterGoto
    <2>3. CASE CreateProcess(c)
        BY <2>3 DEF CreateProcess
    <2>4. CASE CreateFails(c) \/ Wait(c) \/ ProcessEnds(c) \/ WaitTimeout(c)
        BY <2>4 DEF CreateFails, Wait, ProcessEnds, WaitTimeout, StarterGoto
    <2>5. CASE Report(c) \/ ReportNoMemory(c)
        BY <2>5 DEF Report, ReportNoMemory, StarterGoto
    <2>6. CASE Notify(c)
        BY <2>6 DEF Notify
    <2> QED BY <1>2, <2>1, <2>2, <2>3, <2>4, <2>5, <2>6 DEF StarterStep
<1>3. ASSUME NEW p \in Procs, ProcStep(p) PROVE Fresh'
    <2>1. CASE QueueCreate(p)
        BY <2>1 DEF QueueCreate
    <2>2. CASE SetEvent(p)
        BY <2>2 DEF SetEvent
    <2> QED BY <1>3, <2>1, <2>2 DEF ProcStep
<1>4. ASSUME NEW p \in Procs, Crash(p) PROVE Fresh'
    BY <1>4 DEF Crash
<1>5. CASE UNCHANGED vars
    BY <1>5 DEF vars
<1> QED BY <1>1, <1>2, <1>3, <1>4, <1>5 DEF Next

\* What is disturbed stays disturbed.
LEMMA CalmBefore == TypeOK /\ [Next]_vars /\ Calm' => Calm
<1> SUFFICES ASSUME TypeOK, [Next]_vars, Calm' PROVE Calm
    OBVIOUS
<1> USE DEF TypeOK, Calm
<1>1. ASSUME NEW c \in Clients, ClientStep(c) PROVE Calm
    BY <1>1 DEF ClientStep, PutReq, PutReqAgain, StartupHandler, StartupFails,
                Notified, Timeout, Fault
<1>2. ASSUME NEW c \in Clients, StarterStep(c) PROVE Calm
    BY <1>2 DEF StarterStep, Terminate, OpenEvent, OpenFails, CreateProcess,
                CreateFails, Wait, ProcessEnds, WaitTimeout, Report, ReportNoMemory,
                Notify, Fault
<1>3. ASSUME NEW p \in Procs, ProcStep(p) \/ Crash(p) PROVE Calm
    BY <1>3 DEF ProcStep, QueueCreate, SetEvent, Crash, Fault
<1>4. CASE UNCHANGED vars
    BY <1>4 DEF vars
<1> QED BY <1>1, <1>2, <1>3, <1>4 DEF Next

\* Every step keeps Settled.
LEMMA SettledStep ==
    TypeOK /\ HasProc /\ OneServer /\ Fresh /\ Settled /\ [Next]_vars => Settled'
<1> SUFFICES ASSUME TypeOK, HasProc, OneServer, Fresh, Settled, [Next]_vars, Calm'
             PROVE  /\ (Evidence => Up)'
                    /\ \A c \in Clients : client'[c] # "refused"
    BY DEF Settled
<1> DEFINE Goal == /\ (Evidence => Up)'
                   /\ \A c \in Clients : client'[c] # "refused"
<1>0. Calm /\ (Evidence => Up) /\ \A c \in Clients : client[c] # "refused"
    BY CalmBefore DEF Settled
<1>1. ASSUME NEW c \in Clients, ClientStep(c) PROVE Goal
    <2>1. CASE PutReq(c)
        BY <1>0, <2>1 DEF PutReq, Goto, Evidence, Up, TypeOK
    <2>2. CASE PutReqAgain(c)
        BY <1>0, <2>2 DEF PutReqAgain, Goto, Evidence, Up, TypeOK
    <2>3. CASE StartupHandler(c)
        BY <1>0, <2>3 DEF StartupHandler, Goto, Evidence, Up, TypeOK, StarterType
    <2>4. CASE StartupFails(c) \/ Timeout(c)
        BY <1>0, <2>4 DEF StartupFails, Timeout, Fault, Calm, TypeOK
    <2>5. CASE Notified(c)
        BY <1>0, <2>5 DEF Notified, Goto, Evidence, Up, TypeOK
    <2> QED BY <1>1, <2>1, <2>2, <2>3, <2>4, <2>5 DEF ClientStep
<1>2. ASSUME NEW c \in Clients, StarterStep(c) PROVE Goal
    <2>1. CASE Terminate(c)
        <3>1. proc' = proc
            BY <2>1, <1>0 DEF Terminate, Calm, TypeOK
        <3> QED BY <1>0, <2>1, <3>1 DEF Terminate, StarterGoto, Evidence, Up, TypeOK,
                                        StarterType
    <2>2. CASE OpenEvent(c)
        BY <1>0, <2>2 DEF OpenEvent, StarterGoto, Evidence, Up, TypeOK, StarterType
    <2>3. CASE OpenFails(c) \/ CreateFails(c) \/ ReportNoMemory(c) \/ WaitTimeout(c)
        BY <1>0, <2>3 DEF OpenFails, CreateFails, ReportNoMemory, WaitTimeout, Fault,
                          Calm, TypeOK
    <2>4. CASE CreateProcess(c)
        <3>1. procs + 1 \in Procs /\ proc[procs + 1] = "none"
            BY <2>4 DEF CreateProcess, Fresh, TypeOK, Procs
        <3> QED BY <1>0, <2>4, <3>1 DEF CreateProcess, Evidence, Up, TypeOK,
                                        StarterType
    <2>5. CASE Wait(c)
        <3>1. starter[c].pid \in Procs
            BY <2>5 DEF Wait, HasProc
        <3> QED BY <1>0, <2>5, <3>1 DEF Wait, StarterGoto, Evidence, Up, TypeOK,
                                        StarterType
    <2>6. CASE ProcessEnds(c)
        <3>1. starter[c].pid \in Procs
            BY <2>6 DEF ProcessEnds, HasProc
        <3> QED BY <1>0, <2>6, <3>1 DEF ProcessEnds, StarterGoto, Evidence, Up, TypeOK,
                                        StarterType
    <2>7. CASE Report(c)
        BY <1>0, <2>7 DEF Report, StarterGoto, Evidence, Up, TypeOK, StarterType
    <2>8. CASE Notify(c)
        BY <1>0, <2>8 DEF Notify, Evidence, Up, TypeOK, StarterType
    <2> QED BY <1>2, <2>1, <2>2, <2>3, <2>4, <2>5, <2>6, <2>7, <2>8 DEF StarterStep
<1>3. ASSUME NEW p \in Procs, ProcStep(p) PROVE Goal
    <2>1. CASE QueueCreate(p) /\ ~Up
        <3>1. Up'
            BY <2>1 DEF QueueCreate, MayCreate, Up, TypeOK, Procs, None
        <3> QED BY <1>0, <2>1, <3>1 DEF QueueCreate
    <2>2. CASE QueueCreate(p) /\ Up
        <3>1. Up'
            BY <2>2 DEF QueueCreate, MayCreate, Up, TypeOK, None
        <3> QED BY <1>0, <2>2, <3>1 DEF QueueCreate
    <2>3. CASE SetEvent(p)
        <3>1. Up
            BY <2>3 DEF SetEvent, OneServer, Up, Procs, None
        <3>2. Up'
            BY <2>3, <3>1 DEF SetEvent, Up, TypeOK, None
        <3> QED BY <1>0, <2>3, <3>2 DEF SetEvent
    <2> QED BY <1>3, <2>1, <2>2, <2>3 DEF ProcStep
<1>4. ASSUME NEW p \in Procs, Crash(p) PROVE Goal
    BY <1>4, <1>0 DEF Crash, Fault, Calm, TypeOK
<1>5. CASE UNCHANGED vars
    BY <1>5, <1>0 DEF vars, Evidence, Up
<1> QED BY <1>1, <1>2, <1>3, <1>4, <1>5 DEF Next

\* A client that asked for the proxy is refused in the end only if a call of
\* Windows failed, a proxy crashed, a wait timed out, or StartWorker terminated
\* a proxy that ran.
THEOREM RefusalHasCause == Spec => []RefusedWhenDisturbed
<1>1. Init => Fresh /\ Settled
    BY DEF Init, Fresh, Settled, Evidence, NoStarter, Procs, None
<1>2. TypeOK /\ Settled => RefusedWhenDisturbed
    BY DEF Settled, RefusedWhenDisturbed, Calm, TypeOK
<1> QED BY <1>1, <1>2, TypeCorrect, OneProxyServes, FreshStep, SettledStep, PTL DEF Spec
=============================================================================
