---------------------------- MODULE ProcessLife ----------------------------
(***************************************************************************)
(* How the driver decides, when a process is created, whether it runs in a *)
(* box, and how driver and service together put the low-level code into it *)
(* (core/drv/process.c, process_low.c, process_api.c, process_force.c and  *)
(* core/svc/DriverAssist.cpp, DriverAssistInject.cpp).  Windows calls the  *)
(* driver in the creating thread, with the new process locked; the driver  *)
(* enters a PROCESS block, sends the service a message and waits for the   *)
(* answer.  Processes exit, ids are used again, and the service may die.   *)
(* DRV_BREAKOUT is not defined by the build, so its code is not here.      *)
(***************************************************************************)
EXTENDS Naturals, Sequences, FiniteSets

CONSTANTS Pids,         \* process ids, used again once a process is gone
          Boxes,        \* the boxes of the configuration
          NoBox,        \* no box
          Host,         \* programs that are never in a box
          Svc,          \* SbieSvc
          MaxCreate,    \* bound: processes created, their creation times;
                        \* rules that concern children change only before
          MaxRetries,   \* waits of Process_Low_Inject (120 in the code)
          MaxDeaths     \* bound: how often the service dies

ASSUME BoxAssumption == NoBox \notin Boxes
ASSUME ActorAssumption == Host # Svc /\ {Host, Svc} \cap Pids = {}
ASSUME BoundAssumption ==
    MaxCreate \in Nat /\ MaxDeaths \in Nat /\ MaxRetries \in Nat \ {0}

VARIABLES
    os,             \* Windows: the process of each id
    created,        \* Windows: the latest creation time
    Process_Map,    \* the PROCESS blocks of each id, the newest first
    Process_MapDfp, \* ids of processes that force rules leave alone
    Process_MapFcp, \* the box that the children of an id are forced into
    notify,         \* the call of Process_NotifyProcess_Create for each id
    kills,          \* ids that a thread of Process_ScheduleKill will end
    svc,            \* SbieSvc: down, starting, ready or dying
    port,           \* messages of the driver that the service has yet to get
    workers,        \* threads of the service that inject a process
    deaths,         \* how often the service died
    late            \* ids entered in a map after their process had exited

lists == <<Process_Map, Process_MapDfp, Process_MapFcp, late>>
service == <<svc, port, workers, deaths>>
vars == <<os, created, lists, notify, kills, service>>

Ct == 1..MaxCreate
Actors == Pids \cup {Host, Svc}

(* A process of Windows.  "new": in the callback, locked by the system.    *)
(* "held": it will not run (refused, terminated or left suspended).        *)
(* "gone": it exited, and somebody still refers to it.  from: the box of   *)
(* the process that created it with a parent other than SbieSvc.  marks:   *)
(* "low" when the low-level code is in it, "timeout" when the driver gave  *)
(* up waiting for that.                                                    *)
NoProcess == [st |-> "free", ct |-> 0, from |-> NoBox, marks |-> {}]

(* A PROCESS block; Process_CreateTerminated fills in neither time nor box.*)
Block(ct, box, flags) == [ct |-> ct, box |-> box, flags |-> flags]

NoCall == [pc |-> "idle", caller |-> Host, parent |-> Host, box |-> NoBox,
           mode |-> {}, tries |-> 0]

Message(kind, p, ct) == [kind |-> kind, pid |-> p, ct |-> ct]

ProcessType == [st : {"free", "new", "suspended", "running", "held", "gone"},
                ct : Ct \cup {0}, from : Boxes \cup {NoBox},
                marks : SUBSET {"low", "timeout"}]
BlockType == [ct : Ct \cup {0}, box : Boxes \cup {NoBox},
              flags : SUBSET {"terminated", "low", "initialized", "host"}]
CallType == [pc : {"idle", "caller", "parent", "force", "create", "send",
                   "poll", "wait"},
             caller : Actors, parent : Actors, box : Boxes \cup {NoBox},
             mode : SUBSET {"host", "api", "child"}, tries : 0..MaxRetries]

TypeOK ==
    /\ os \in [Pids -> ProcessType] /\ created \in 0..MaxCreate
    /\ Process_Map \in [Pids -> Seq(BlockType)]
    /\ Process_MapDfp \subseteq Pids /\ late \subseteq Pids
    /\ kills \subseteq Pids
    /\ Process_MapFcp \in [Pids -> Boxes \cup {NoBox}]
    /\ notify \in [Pids -> CallType]
    /\ deaths \in 0..MaxDeaths
    /\ svc \in {"down", "starting", "ready", "dying"}
    /\ port \subseteq [kind : {"inject", "cancel"}, pid : Pids, ct : Ct]
    /\ workers \subseteq [kind : {"open", "inject", "complete", "report"},
                          pid : Pids, ct : Ct]

Init ==
    /\ os = [p \in Pids |-> NoProcess] /\ created = 0
    /\ Process_Map = [p \in Pids |-> <<>>]
    /\ Process_MapDfp = {} /\ late = {}
    /\ Process_MapFcp = [p \in Pids |-> NoBox]
    /\ notify = [p \in Pids |-> NoCall]
    /\ kills = {}
    /\ svc = "down" /\ port = {} /\ workers = {} /\ deaths = 0

-----------------------------------------------------------------------------
(* The process list.                                                       *)

Found(p) == p \in Pids /\ Process_Map[p] # <<>>
Process_Find(p) == Head(Process_Map[p])
Boxed(p) == Found(p) /\ "host" \notin Process_Find(p).flags

Enter(p, block) ==
    /\ Process_Map' = [Process_Map EXCEPT ![p] = <<block>> \o @]
    /\ late' = IF os[p].st = "gone" THEN late \cup {p} ELSE late

(* What p's list of blocks is once its newest block has a further flag.    *)
Flagged(p, flag) ==
    IF Found(p) THEN [Process_Map EXCEPT ![p][1].flags = @ \cup {flag}]
                ELSE Process_Map

(* The call of Process_NotifyProcess_Create for p ends.  A process of      *)
(* Process_Api_Start is resumed, or ended by the service, unless it exited *)
(* or the service dies.  Windows makes the processes that it asked about   *)
(* run, those that the service starts for a box suspended.  What has been  *)
(* ended meanwhile stays so.                                               *)
Return(p, ok, marks) ==
    /\ notify' = [notify EXCEPT ![p] = NoCall]
    /\ \E st \in IF os[p].st \in {"held", "gone"} THEN {os[p].st}
                 ELSE IF ~ok THEN {"held"}
                 ELSE IF notify[p].caller # Svc THEN {"running"}
                 ELSE IF svc = "dying"
                      THEN {"held"}
                 ELSE IF "api" \in notify[p].mode THEN {"running"}
                 ELSE {"running", "suspended"} :
          os' = [os EXCEPT ![p].st = st, ![p].marks = @ \cup marks]

(* Process_CreateTerminated has no memory for the block, or enters it.     *)
CreateTerminated(p) ==
    \/ Enter(p, Block(0, NoBox, {"terminated"}))
    \/ UNCHANGED <<Process_Map, late>>

Deny(p) == CreateTerminated(p) /\ Return(p, FALSE, {})

Goto(p, pc) == notify' = [notify EXCEPT ![p].pc = pc]

GotoCreate(p, box, mode) ==
    notify' = [notify EXCEPT ![p].pc = "create", ![p].box = box,
                             ![p].mode = mode]

-----------------------------------------------------------------------------
(* The creation of a process.                                              *)

(* c creates a process and gives q as its parent; Windows calls the driver.*)
(* Any program may name SbieSvc, which itself names no other.              *)
CreateProcess(c, q, p) ==
    /\ created < MaxCreate /\ os[p].st = "free"
    /\ c = Svc => q = Svc
    /\ c \in Pids => os[c].st = "running"
    /\ q \in Pids => os[q].st = "running"
    /\ q = Svc => svc \in {"starting", "ready"}
    /\ created' = created + 1
    /\ os' = [os EXCEPT ![p] =
                [st |-> "new", ct |-> created + 1, marks |-> {},
                 from |-> IF Boxed(c) /\ q # Svc
                          THEN Process_Find(c).box ELSE NoBox]]
    /\ notify' = [notify EXCEPT ![p] = [NoCall EXCEPT !.pc = "caller",
                                          !.caller = c, !.parent = q]]
    /\ UNCHANGED <<lists, kills, service>>

(* The branch of Process_NotifyProcess_Create under the lock, with the     *)
(* block found or, in a host program's place, none: the box of a boxed     *)
(* parent, the exemption of a parent that is exempt, or the force rules.   *)
Decide(p, q) ==
    \/ /\ Boxed(q) /\ UNCHANGED <<Process_MapDfp, Process_MapFcp>>
       /\ \/ /\ "terminated" \notin Process_Find(q).flags
             /\ GotoCreate(p, Process_Find(q).box, {"child"})
             /\ UNCHANGED <<os, Process_Map, late>>
          \/ Deny(p)
    \/ /\ ~Boxed(q) /\ UNCHANGED <<Process_Map, Process_MapFcp, late>>
       /\ \/ /\ notify[p].parent \in Process_MapDfp
             /\ Process_MapDfp' = Process_MapDfp \cup {p}
             /\ Return(p, TRUE, {})
          \/ /\ notify[p].parent \notin Process_MapDfp
             /\ Process_MapDfp' = Process_MapDfp \ {p}
             /\ Goto(p, "force") /\ UNCHANGED os

FindCaller_Parent(p) ==             \* mutant: the parent that the creator named decides
    /\ notify[p].pc = "caller" /\ notify[p].parent # Svc
    /\ Decide(p, notify[p].parent)
    /\ UNCHANGED <<created, kills, service>>

(* A parent that is SbieSvc settles it, whoever the caller is: the process *)
(* gets no box here.  Otherwise the caller is looked at first.             *)
FindCaller(p) ==
    /\ notify[p].pc = "caller"
    /\ UNCHANGED <<created, kills, service>>
    /\ \/ Deny(p) /\ UNCHANGED <<Process_MapDfp, Process_MapFcp>>
       \/ notify[p].parent = Svc /\ Return(p, TRUE, {}) /\ UNCHANGED lists
       \/ /\ notify[p].parent # Svc
          /\ Boxed(notify[p].caller) \/ notify[p].caller = notify[p].parent
          /\ Decide(p, notify[p].caller)
       \/ /\ notify[p].parent # Svc
          /\ ~Boxed(notify[p].caller) /\ notify[p].caller # notify[p].parent
          /\ Goto(p, "parent") /\ UNCHANGED <<os, lists>>

FindParent(p) ==
    /\ notify[p].pc = "parent" /\ Decide(p, notify[p].parent)
    /\ UNCHANGED <<created, kills, service>>

(* The box that the children of the parent are forced into.                *)
FcpCheck(p) == IF notify[p].parent \in Pids
               THEN Process_MapFcp[notify[p].parent] ELSE NoBox

(* Process_GetForcedStartBox: rules of the configuration name a box, only  *)
(* ask for an alert (and exempt the process), refuse the process, or have  *)
(* the code injected into a program that stays outside; when no rule names *)
(* a box, FcpCheck may, unless the image is exempt from it.                *)
GetForcedStartBox(p) ==
    /\ notify[p].pc = "force"
    /\ UNCHANGED <<created, Process_MapFcp, kills, service>>
    /\ \/ /\ Process_MapDfp' \in {Process_MapDfp, Process_MapDfp \cup {p}}
          /\ Deny(p)
       \/ /\ UNCHANGED <<os, Process_Map, Process_MapDfp, late>>
          /\ \E box \in Boxes, mode \in {{}, {"host"}} :
                GotoCreate(p, box, mode)
       \/ /\ Process_MapDfp' \in {Process_MapDfp, Process_MapDfp \cup {p}}
          /\ UNCHANGED <<Process_Map, late>>
          /\ \/ /\ FcpCheck(p) # NoBox /\ GotoCreate(p, FcpCheck(p), {})
                /\ UNCHANGED os
             \/ Return(p, TRUE, {})

(* The service asks for the process that it created suspended to be put    *)
(* into a box; from here on the process is not locked by the system.       *)
Process_Api_Start(p, box) ==
    /\ svc \in {"starting", "ready"}
    /\ os[p].st = "suspended" /\ notify[p].pc = "idle"
    /\ notify' = [notify EXCEPT ![p] = [NoCall EXCEPT !.pc = "create",
                     !.caller = Svc, !.parent = Svc, !.box = box,
                     !.mode = {"api"}]]
    /\ UNCHANGED <<os, created, lists, kills, service>>

Process_Create(p) ==
    /\ notify[p].pc = "create"
    /\ UNCHANGED <<created, Process_MapDfp, Process_MapFcp,
                   kills, service>>
    /\ LET call == notify[p]
           flags == call.mode \cap {"host"} IN
       \/ Deny(p)
       \/ /\ "child" \in call.mode     \* ProtectHostImages
          /\ Enter(p, Block(os[p].ct, call.box, {"terminated"}))
          /\ Return(p, FALSE, {})
       \/ /\ Enter(p, Block(os[p].ct, call.box, flags))
          /\ Goto(p, "send") /\ UNCHANGED os

SendInject_NoCancel(p) ==           \* mutant: an error of the port does not refuse the process
    /\ notify[p].pc = "send"
    /\ Return(p, TRUE, {})
    /\ UNCHANGED <<created, lists, kills, service>>

(* Process_Low_Inject.  The service's end of the port still takes messages *)
(* while the service dies.                                                 *)
SendInject(p) ==
    /\ notify[p].pc = "send"
    /\ UNCHANGED <<created, Process_MapDfp, Process_MapFcp, late,
                   kills, svc, workers, deaths>>
    /\ \/ /\ svc # "down"
          /\ port' = port \cup {Message("inject", p, os[p].ct)}
          /\ Goto(p, "poll") /\ UNCHANGED <<os, Process_Map>>
       \/ /\ "host" \in notify[p].mode
          /\ Return(p, TRUE, {}) /\ UNCHANGED <<Process_Map, port>>
       \/ /\ "host" \notin notify[p].mode
          /\ Process_Map' = Flagged(p, "terminated")
          /\ Return(p, FALSE, {}) /\ UNCHANGED port

Answered(p) == /\ Found(p) /\ Process_Find(p).ct = os[p].ct
               /\ Process_Find(p).flags \cap {"low", "terminated"} # {}

Poll(p) ==
    /\ notify[p].pc = "poll"
    /\ UNCHANGED <<created, lists, kills, service>>
    /\ \/ notify[p].tries = MaxRetries /\ Return(p, TRUE, {"timeout"})
       \/ /\ notify[p].tries < MaxRetries
          /\ \/ Answered(p) /\ Return(p, TRUE, {})
             \/ ~Answered(p) /\ Goto(p, "wait") /\ UNCHANGED os

(* The wait ends with Process_Low_Event, which all calls share and one of  *)
(* them resets, or after 250 ms: a call never depends on the event.        *)
Wait(p) ==
    /\ notify[p].pc = "wait"
    /\ notify' = [notify EXCEPT ![p].pc = "poll", ![p].tries = @ + 1]
    /\ UNCHANGED <<os, created, lists, kills, service>>

-----------------------------------------------------------------------------
(* The life of a process.                                                  *)

Exit_KeepsDfp(p) ==                 \* mutant: the exemption from force rules stays
    /\ os[p].st \in {"suspended", "running", "held"}
    /\ \A q \in Pids : notify[q].pc # "idle" => notify[q].caller # p
    /\ os' = [os EXCEPT ![p].st = "gone"]
    /\ Process_Map' = IF Found(p) THEN [Process_Map EXCEPT ![p] = Tail(@)]
                                  ELSE Process_Map
    /\ Process_MapFcp' = [Process_MapFcp EXCEPT ![p] = NoBox]
    /\ UNCHANGED <<created, notify, kills, service, late, Process_MapDfp>>

(* Process_NotifyProcess_Delete.  The system keeps a process that is being *)
(* created, and one whose thread creates another, from exiting.            *)
Exit(p) ==
    /\ os[p].st \in {"suspended", "running", "held"}
    /\ \A q \in Pids : notify[q].pc # "idle" => notify[q].caller # p
    /\ os' = [os EXCEPT ![p].st = "gone"]
    /\ Process_Map' = IF Found(p) THEN [Process_Map EXCEPT ![p] = Tail(@)]
                                  ELSE Process_Map
    /\ Process_MapDfp' = Process_MapDfp \ {p}
    /\ Process_MapFcp' = [Process_MapFcp EXCEPT ![p] = NoBox]
    /\ UNCHANGED <<created, notify, kills, service, late>>

(* The last reference to a process goes, and its id is free.               *)
Reap(p) ==
    /\ os[p].st = "gone" /\ notify[p].pc = "idle"
    /\ \A w \in workers : w.pid = p => w.kind = "open" \/ w.ct # os[p].ct
    /\ os' = [os EXCEPT ![p] = NoProcess]
    /\ UNCHANGED <<created, lists, notify, kills, service>>

(* A process outside of the boxes has force rules disabled for itself.     *)
Session_Api_DisableForce(p) ==
    /\ os[p].st = "running" /\ ~Found(p) /\ created < MaxCreate
    /\ Process_MapDfp' = Process_MapDfp \cup {p}
    /\ UNCHANGED <<os, created, Process_Map, Process_MapFcp, late, notify,
                   kills, service>>

(* Start.exe asks for the children of the process that it created; it has  *)
(* a handle to that process, which may have exited.                        *)
Session_Api_ForceChildren(p, box) ==
    /\ os[p].st \in {"running", "gone"} /\ os[p].from = NoBox
    /\ created < MaxCreate
    /\ Process_MapFcp' = [Process_MapFcp EXCEPT ![p] = box]
    /\ late' = IF os[p].st = "gone" THEN late \cup {p} ELSE late
    /\ UNCHANGED <<os, created, Process_Map, Process_MapDfp, notify,
                   kills, service>>

(* The first image of a boxed process is mapped: the driver prepares the   *)
(* block, or marks it and has the process ended by the service or, when    *)
(* that cannot be told, by a thread that knows only the id.                *)
Process_NotifyImage(p) ==
    /\ os[p].st = "running" /\ Found(p)
    /\ Process_Find(p).flags \cap {"initialized", "terminated"} = {}
    /\ \/ /\ Process_Map' = Flagged(p, "initialized")
          /\ UNCHANGED <<port, kills>>
       \/ /\ Process_Map' = Flagged(p, "terminated")
          /\ \/ /\ svc # "down" /\ UNCHANGED kills
                /\ port' = port \cup
                            {Message("cancel", p, Process_Find(p).ct)}
             \/ kills' \in {kills, kills \cup {p}} /\ UNCHANGED port
    /\ UNCHANGED <<os, created, Process_MapDfp, Process_MapFcp, late, notify,
                   svc, workers, deaths>>

End(p) == os' = [os EXCEPT ![p].st = IF @ \in {"running", "suspended"}
                                     THEN "held" ELSE @]

Process_ScheduleKillProc(p) ==
    /\ p \in kills /\ os[p].st # "new"
    /\ kills' = kills \ {p} /\ End(p)
    /\ UNCHANGED <<created, lists, notify, service>>

-----------------------------------------------------------------------------
(* The service.                                                            *)

SvcStart ==
    /\ svc = "down" /\ svc' = "starting"
    /\ UNCHANGED <<os, created, lists, notify, kills,
                   port, workers, deaths>>

SvcReady ==
    /\ svc = "starting" /\ svc' = "ready"
    /\ UNCHANGED <<os, created, lists, notify, kills,
                   port, workers, deaths>>

(* The threads of the service end, and nobody will resume the processes    *)
(* that it created suspended.                                              *)
SvcDies ==
    /\ svc \in {"starting", "ready"} /\ deaths < MaxDeaths
    /\ svc' = "dying" /\ workers' = {} /\ deaths' = deaths + 1
    /\ os' = [p \in Pids |->
                IF os[p].st = "suspended" /\ notify[p].pc = "idle"
                THEN [os[p] EXCEPT !.st = "held"] ELSE os[p]]
    /\ UNCHANGED <<created, lists, notify, kills, port>>

(* Api_ResetServiceProcess, once no thread of the service is in the driver.*)
(* To a call that was given the service as parent, the id is then that of  *)
(* any program outside of the boxes.                                       *)
SvcGone ==
    /\ svc = "dying"
    /\ \A p \in Pids : notify[p].pc # "idle" => notify[p].caller # Svc
    /\ svc' = "down" /\ port' = {}
    /\ notify' = [p \in Pids |->
                    IF notify[p].parent = Svc
                    THEN [notify[p] EXCEPT !.parent = Host] ELSE notify[p]]
    /\ UNCHANGED <<os, created, lists, kills, workers, deaths>>

Receive_AnyTime(m) ==               \* mutant: CancelProcess does not compare creation times
    /\ svc \in {"starting", "ready"} /\ m \in port /\ port' = port \ {m}
    /\ m.kind = "cancel" /\ End(m.pid)
    /\ UNCHANGED <<created, lists, notify, kills, svc, workers, deaths>>

(* DriverAssist::Thread gives a message to a thread of its own; it is lost *)
(* when there is no memory for the thread.                                 *)
Receive(m) ==
    /\ svc \in {"starting", "ready"} /\ m \in port /\ port' = port \ {m}
    /\ \/ /\ m.kind = "inject" /\ UNCHANGED os
          /\ workers' = workers \cup {Message("open", m.pid, m.ct)}
       \/ /\ m.kind = "cancel" /\ os[m.pid].ct = m.ct
          /\ End(m.pid) /\ UNCHANGED workers
       \/ UNCHANGED <<os, workers>>
    /\ UNCHANGED <<created, lists, notify, kills, svc,
                   deaths>>

Step(w, next) == workers' = (workers \ {w}) \cup next
To(w, kind) == {[w EXCEPT !.kind = kind]}

(* InjectLow opens the process.  Before the service is ready, the handle   *)
(* that the end of InjectLow looks at is not initialized: it reports an    *)
(* error for the id, or nothing.                                           *)
OpenProcess(w) ==
    /\ w \in workers /\ w.kind = "open"
    /\ \/ svc = "starting" /\ Step(w, To(w, "report"))
       \/ svc = "starting" /\ Step(w, {})
       \/ /\ svc = "ready" /\ os[w.pid].ct = w.ct
          /\ Step(w, To(w, "inject"))
       \/ svc = "ready" /\ os[w.pid].ct # w.ct /\ Step(w, {})
    /\ UNCHANGED <<os, created, lists, notify, kills, svc,
                   port, deaths>>

InjectLow_Blind(w) ==               \* mutant: a failed injection is reported as a success
    /\ w \in workers /\ w.kind = "inject" /\ Step(w, To(w, "complete"))
    /\ UNCHANGED <<os, created, lists, notify, kills, svc, port, deaths>>

(* The queries of InjectLow, SbieDll_InjectLow, GuiServer::InitProcess and *)
(* AcquireBoxRoot: each may fail, before or after the code is in place.    *)
InjectLow(w) ==
    /\ w \in workers /\ w.kind = "inject"
    /\ \/ Step(w, To(w, "report")) /\ UNCHANGED os
       \/ /\ Found(w.pid) /\ os[w.pid].st # "gone"
          /\ os' = [os EXCEPT ![w.pid].marks = @ \cup {"low"}]
          /\ Step(w, To(w, "complete")) \/ Step(w, To(w, "report"))
    /\ UNCHANGED <<created, lists, notify, kills, svc,
                   port, deaths>>

(* Process_Low_Api_InjectComplete, for a process injected and for an error.*)
InjectComplete(w) ==
    /\ w \in workers /\ w.kind = "complete"
    /\ Process_Map' = Flagged(w.pid, "low")
    /\ Step(w, IF Found(w.pid) THEN {} ELSE To(w, "report"))
    /\ UNCHANGED <<os, created, Process_MapDfp, Process_MapFcp, late, notify,
                   kills, svc, port, deaths>>

InjectError(w) ==
    /\ w \in workers /\ w.kind = "report"
    /\ Process_Map' = Flagged(w.pid, "terminated")
    /\ Step(w, {})
    /\ UNCHANGED <<os, created, Process_MapDfp, Process_MapFcp, late, notify,
                   kills, svc, port, deaths>>

-----------------------------------------------------------------------------
CreateStep(p) == FindCaller(p) \/ FindParent(p) \/ GetForcedStartBox(p)
              \/ Process_Create(p) \/ SendInject(p) \/ Poll(p) \/ Wait(p)

Next ==
    \/ \E p \in Pids, c \in Actors, q \in Actors : CreateProcess(c, q, p)
    \/ \E p \in Pids :
          \/ CreateStep(p) \/ Exit(p) \/ Reap(p)
          \/ Session_Api_DisableForce(p) \/ Process_NotifyImage(p)
          \/ Process_ScheduleKillProc(p)
    \/ \E p \in Pids, box \in Boxes :
          Process_Api_Start(p, box) \/ Session_Api_ForceChildren(p, box)
    \/ SvcStart \/ SvcReady \/ SvcDies \/ SvcGone
    \/ \E m \in port : Receive(m)
    \/ \E w \in workers :
          OpenProcess(w) \/ InjectLow(w) \/ InjectComplete(w) \/ InjectError(w)

Spec == Init /\ [][Next]_vars

-----------------------------------------------------------------------------
(* A block says that the low-level code is loaded only when it is: the     *)
(* answer of the service carries the id alone, and a thread of the service *)
(* may be late, but it has the process open until it has answered.  The    *)
(* variables have their types.                                             *)
LoadedIsInjected ==
    /\ TypeOK
    /\ \A p \in Pids : Found(p) /\ Process_Find(p).ct = os[p].ct
                       /\ os[p].st # "free" /\ "low" \in Process_Find(p).flags
          => "low" \in os[p].marks

(* A process that runs in a box carries the low-level code or is marked    *)
(* terminated, unless the driver waited for the service in vain: messages  *)
(* lost, an unready or dying service and failed injections do not let it   *)
(* run bare in any other way (Process_Low_Inject).                         *)
RunsInjectedOrTimedOut ==
    \A p \in Pids :
        os[p].st = "running" /\ Boxed(p) /\ Process_Find(p).ct = os[p].ct
        => \/ os[p].marks # {}
           \/ "terminated" \in Process_Find(p).flags

(* A process that a boxed process created, naming itself or any other      *)
(* process but SbieSvc as the parent, runs in the box of its creator,      *)
(* whatever failed on the way (Process_NotifyProcess_Create, case 2).  A   *)
(* process with SbieSvc for its parent is outside of this: the driver      *)
(* takes it for one that SbieSvc creates and boxes nothing (case 1).       *)
ChildStaysInBox ==
    \A p \in Pids : os[p].st = "running" /\ os[p].from # NoBox
        => Boxed(p) /\ \/ Process_Find(p).box = os[p].from
                       \/ "terminated" \in Process_Find(p).flags

(* The block found for a process is its own, and an id that is free has    *)
(* left nothing in the three maps for the next process to inherit, unless  *)
(* an entry was made after the process had exited (Process_Delete against  *)
(* Process_Api_Start and Session_Api_ForceChildren).                       *)
NothingInherited ==
    \A p \in Pids \ late :
        /\ Len(Process_Map[p]) <= 1
        /\ Found(p) => Process_Find(p).ct \in {0, os[p].ct}
        /\ os[p].st \in {"free", "gone"} =>
              /\ Process_Map[p] = <<>> /\ Process_MapFcp[p] = NoBox
              /\ p \notin Process_MapDfp

(* The service ends, at the driver's request, only the process that the    *)
(* driver marked, never one that has got the id since.                     *)
CancelHitsMarked ==
    [][\A m \in port : Receive(m) => \A p \in Pids :
         os'[p] # os[p] => /\ Found(p)
                           /\ "terminated" \in Process_Find(p).flags]_vars

(* What Process_Low_Inject says of its last part ("if no response from     *)
(* SbieSvc", "cancel process and report errors"): a process does not run   *)
(* in a box without the low-level code.                                    *)
RunsInjected ==
    \A p \in Pids :
        os[p].st = "running" /\ Boxed(p) /\ Process_Find(p).ct = os[p].ct
        => \/ "low" \in os[p].marks
           \/ "terminated" \in Process_Find(p).flags
=============================================================================
