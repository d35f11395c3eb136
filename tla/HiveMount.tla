----------------------------- MODULE HiveMount -----------------------------
(***************************************************************************)
(* The registry hive of a box: the driver loads it for the first process   *)
(* of the box and counts its users (core/drv/key.c); when the last one has *)
(* gone it tells the service, which unloads the hive if the box is empty   *)
(* (core/svc/DriverAssist.cpp).                                            *)
(***************************************************************************)
EXTENDS Naturals, FiniteSets

CONSTANTS Procs,        \* process ids
          Boxes,
          Workers,      \* threads of the service that handle messages
          NoBox,
          MaxCreate,    \* bound: creations of processes
          MaxRetries    \* attempts to unload a hive

ASSUME BoxAssumption == NoBox \notin Boxes
ASSUME ProcsAssumption == IsFiniteSet(Procs)
ASSUME BoundAssumption == MaxCreate \in Nat /\ MaxRetries \in Nat \ {0}

VARIABLES
    Key_Mounts,     \* the KEY_MOUNT of each box: ref_count and flags
    loaded,         \* boxes whose hive is loaded
    proc,           \* each process: where it stands, and its box
    handles,        \* processes with keys open
    msgs,           \* per box, messages SVC_UNMOUNT_HIVE not yet taken
    work,           \* the message that each thread handles
    late,           \* processes that came to a hive on its way out
    dropped,        \* unmounts that were given up or never asked for
    left,           \* boxes whose hive a failed mount has left loaded
    created

vars == <<Key_Mounts, loaded, proc, handles, msgs, work, late, dropped,
          left, created>>

NoProc == [pc |-> "none", box |-> NoBox]
NoWork == [pc |-> "idle", box |-> NoBox, hive |-> NoBox, retries |-> 0]

(* The processes of a box that the driver has in its list, the ones that   *)
(* have their key_mount, and the ones inside Key_MountHive2.               *)
Listed(b) == {p \in Procs : proc[p].box = b
                            /\ proc[p].pc \notin {"leaving", "gone"}}
Users(b) == {p \in Procs : proc[p].box = b
                           /\ proc[p].pc \in {"run", "leaving"}}
Loaders(b) == {p \in Procs : proc[p].box = b
                  /\ proc[p].pc \in {"open", "query", "mounted", "failed"}}

Goto(p, pc) == proc' = [proc EXCEPT ![p].pc = pc]
To(w, pc) == work' = [work EXCEPT ![w].pc = pc]

(* A worker was given the hive and may unload it.                          *)
HandedOut(b) == \E w \in Workers : work[w].hive = b
                                   /\ work[w].pc \in {"unload", "reopen"}

Init ==
    /\ Key_Mounts = [b \in Boxes |-> [ref_count |-> 0, flags |-> {}]]
    /\ loaded = {} /\ handles = {} /\ late = {}
    /\ proc = [p \in Procs |-> NoProc]
    /\ msgs = [b \in Boxes |-> 0] /\ work = [w \in Workers |-> NoWork]
    /\ dropped = 0 /\ left = {} /\ created = 0

-----------------------------------------------------------------------------
Create(p, b) ==
    /\ proc[p].pc = "none" /\ created < MaxCreate /\ created' = created + 1
    /\ proc' = [proc EXCEPT ![p] = [pc |-> "ready", box |-> b]]
    /\ UNCHANGED <<Key_Mounts, loaded, handles, msgs, work, late, dropped,
                   left>>

Join_First(p) ==   \* mutant: the count is set, as if there were one user
    LET b == proc[p].box IN
    /\ Key_Mounts' = [Key_Mounts EXCEPT ![b] =
                        [ref_count |-> 1, flags |-> {}]]
    /\ late' = IF HandedOut(b) \/ b \notin loaded THEN late \cup {p} ELSE late
    /\ left' = left \ {b} /\ Goto(p, "run")

(* The process becomes a user of the mount, which is no longer to be       *)
(* unmounted.                                                              *)
Join(p) ==
    LET b == proc[p].box IN
    /\ Key_Mounts' = [Key_Mounts EXCEPT ![b] =
                        [ref_count |-> @.ref_count + 1, flags |-> {}]]
    /\ late' = IF HandedOut(b) \/ b \notin loaded THEN late \cup {p} ELSE late
    /\ left' = left \ {b} /\ Goto(p, "run")

Key_MountHive_NoWait(p) ==   \* mutant: a busy mount is not waited for
    LET b == proc[p].box IN
    /\ proc[p].pc = "ready"
    /\ \/ Key_Mounts[b].ref_count # 0 /\ Join(p)
       \/ /\ Key_Mounts[b].ref_count = 0 /\ Goto(p, "open")
          /\ Key_Mounts' = [Key_Mounts EXCEPT ![b].flags = @ \cup {"busy"}]
          /\ UNCHANGED <<late, left>>
    /\ UNCHANGED <<loaded, handles, msgs, work, dropped, created>>

(* Key_MountHive, from Process_NotifyImage: a mount that is busy is waited *)
(* for; the first user loads the hive outside the lock.  Memory may fail,  *)
(* and the process is then terminated.                                     *)
Key_MountHive(p) ==
    LET b == proc[p].box IN
    /\ proc[p].pc = "ready" /\ "busy" \notin Key_Mounts[b].flags
    /\ \/ Key_Mounts[b].ref_count # 0 /\ Join(p)
       \/ /\ Key_Mounts[b].ref_count = 0 /\ Goto(p, "open")
          /\ Key_Mounts' = [Key_Mounts EXCEPT ![b].flags = @ \cup {"busy"}]
          /\ UNCHANGED <<late, left>>
       \/ Goto(p, "end") /\ UNCHANGED <<Key_Mounts, late, left>>
    /\ UNCHANGED <<loaded, handles, msgs, work, dropped, created>>

(* Key_MountHive2 opens the key: a hive that is there is looked up in the  *)
(* hivelist, else Key_MountHive3 or 4 load it.  They fail before or after  *)
(* ZwLoadKey: when the token does not get its DACL back, or the new key    *)
(* not its own, the hive stays loaded and nobody is asked to unload it.    *)
Key_MountHive2(p) ==
    LET b == proc[p].box IN
    /\ proc[p].pc = "open"
    /\ \/ b \in loaded /\ Goto(p, "query") /\ UNCHANGED <<loaded, left>>
       \/ /\ b \notin loaded /\ loaded' = loaded \cup {b}
          /\ Goto(p, "mounted") /\ UNCHANGED left
       \/ b \notin loaded /\ Goto(p, "failed") /\ UNCHANGED <<loaded, left>>
       \/ /\ b \notin loaded /\ loaded' = loaded \cup {b}
          /\ Goto(p, "failed") /\ left' = left \cup {b}
    /\ UNCHANGED <<Key_Mounts, handles, msgs, work, late, dropped, created>>

QueryHivelist(p) ==
    /\ proc[p].pc = "query"
    /\ \/ proc[p].box \in loaded /\ Goto(p, "mounted")
       \/ Goto(p, "failed")
    /\ UNCHANGED <<Key_Mounts, loaded, handles, msgs, work, late, dropped,
                   left, created>>

(* The rest of Key_MountHive; after a failure the process is terminated.   *)
MountDone(p) ==
    /\ \/ proc[p].pc = "mounted" /\ Join(p)
       \/ /\ proc[p].pc = "failed" /\ Goto(p, "end")
          /\ Key_Mounts' = [Key_Mounts EXCEPT ![proc[p].box].flags =
                                                        @ \ {"busy"}]
          /\ UNCHANGED <<late, left>>
    /\ UNCHANGED <<loaded, handles, msgs, work, dropped, created>>

OpenKey(p) ==
    /\ proc[p].pc = "run" /\ proc[p].box \in loaded
    /\ handles' = handles \cup {p}
    /\ UNCHANGED <<Key_Mounts, loaded, proc, msgs, work, late, dropped,
                   left, created>>

(* Process_Delete takes the process out of the list and then calls         *)
(* Key_UnmountHive; Windows may close the keys of the process later.       *)
Process_Delete(p) ==
    /\ \/ proc[p].pc \in {"ready", "end"}
          /\ proc' = [proc EXCEPT ![p] = NoProc] /\ late' = late \ {p}
       \/ proc[p].pc = "run" /\ Goto(p, "leaving") /\ UNCHANGED late
    /\ UNCHANGED <<Key_Mounts, loaded, handles, msgs, work, dropped,
                   left, created>>

Key_UnmountHive_NotMarked(p) ==   \* mutant: unmount_pending is not set
    LET b == proc[p].box
        last == Key_Mounts[b].ref_count = 1 IN
    /\ proc[p].pc = "leaving" /\ Goto(p, "gone")
    /\ Key_Mounts' = [Key_Mounts EXCEPT ![b].ref_count = @ - 1]
    /\ \/ ~last /\ UNCHANGED <<msgs, dropped>>
       \/ last /\ msgs' = [msgs EXCEPT ![b] = @ + 1] /\ UNCHANGED dropped
       \/ last /\ dropped' = dropped + 1 /\ UNCHANGED msgs
    /\ UNCHANGED <<loaded, handles, work, late, left, created>>

(* The last user asks the service to unmount; the message may be lost.     *)
Key_UnmountHive(p) ==
    LET b == proc[p].box
        last == Key_Mounts[b].ref_count = 1 IN
    /\ proc[p].pc = "leaving" /\ Goto(p, "gone")
    /\ Key_Mounts' = [Key_Mounts EXCEPT ![b] =
          [ref_count |-> @.ref_count - 1,
           flags |-> IF last THEN @.flags \cup {"pending"} ELSE @.flags]]
    /\ \/ ~last /\ UNCHANGED <<msgs, dropped>>
       \/ last /\ msgs' = [msgs EXCEPT ![b] = @ + 1] /\ UNCHANGED dropped
       \/ last /\ dropped' = dropped + 1 /\ UNCHANGED msgs
    /\ UNCHANGED <<loaded, handles, work, late, left, created>>

Vanish(p) ==
    /\ proc[p].pc = "gone"
    /\ proc' = [proc EXCEPT ![p] = NoProc]
    /\ handles' = handles \ {p} /\ late' = late \ {p}
    /\ UNCHANGED <<Key_Mounts, loaded, msgs, work, dropped, left, created>>

-----------------------------------------------------------------------------
(* A thread takes a message.  Its waits for the process to end are bounded *)
(* in time and decide nothing.                                             *)
Receive(w, b) ==
    /\ work[w].pc = "idle" /\ msgs[b] > 0
    /\ msgs' = [msgs EXCEPT ![b] = @ - 1]
    /\ work' = [work EXCEPT ![w] = [NoWork EXCEPT !.pc = "check", !.box = b]]
    /\ UNCHANGED <<Key_Mounts, loaded, proc, handles, late, dropped,
                   left, created>>

(* SbieApi_EnumProcessEx: the box of the message is to be empty.           *)
EnumProcess(w) ==
    /\ work[w].pc = "check"
    /\ \/ Listed(work[w].box) = {} /\ To(w, "get") /\ UNCHANGED dropped
       \/ /\ Listed(work[w].box) # {} /\ dropped' = dropped + 1
          /\ work' = [work EXCEPT ![w] = NoWork]
    /\ UNCHANGED <<Key_Mounts, loaded, proc, handles, msgs, late,
                   left, created>>

(* Key_Api_GetUnmountHive hands out a hive of any box that has no users    *)
(* and is to be unmounted.                                                 *)
Unused(b) == Key_Mounts[b].ref_count = 0 /\ "pending" \in Key_Mounts[b].flags

GetUnmountHive(w) ==
    /\ work[w].pc = "get"
    /\ \/ \E b \in Boxes :
             /\ Unused(b) /\ "busy" \notin Key_Mounts[b].flags
             /\ Key_Mounts' = [Key_Mounts EXCEPT ![b].flags = @ \ {"pending"}]
             /\ work' = [work EXCEPT ![w].pc = "unload", ![w].hive = b]
       \/ /\ \A b \in Boxes : ~Unused(b)
          /\ work' = [work EXCEPT ![w] = NoWork] /\ UNCHANGED Key_Mounts
    /\ UNCHANGED <<loaded, proc, handles, msgs, late, dropped,
                   left, created>>

(* Windows unloads a hive of which no key is open.                         *)
NtUnloadKey(w) ==
    LET b == work[w].hive IN
    /\ work[w].pc = "unload"
    /\ \/ /\ b \in loaded /\ \A p \in handles : proc[p].box # b
          /\ loaded' = loaded \ {b}
          /\ late' = late \cup {p \in Procs : proc[p].box = b /\
                                    proc[p].pc \in {"query", "mounted"}}
          /\ To(w, "release")
       \/ /\ b \notin loaded \/ \E p \in handles : proc[p].box = b
          /\ To(w, "reopen") /\ UNCHANGED <<loaded, late>>
    /\ UNCHANGED <<Key_Mounts, proc, handles, msgs, dropped, left, created>>

(* After a failure the key is opened to see if it is there.  The result of *)
(* this replaces that of the unloading, so the last attempt leads to       *)
(* ReleaseBoxRoot with the hive still loaded.                              *)
NtOpenKey(w) ==
    LET n == work[w].retries + 1 IN
    /\ work[w].pc = "reopen"
    /\ \/ /\ work[w].hive \notin loaded /\ dropped' = dropped
          /\ work' = [work EXCEPT ![w] = NoWork]
       \/ /\ work[w].hive \in loaded
          /\ work' = [work EXCEPT ![w].retries = n,
                        ![w].pc = IF n < MaxRetries THEN "unload"
                                  ELSE "release"]
          /\ dropped' = IF n < MaxRetries THEN dropped ELSE dropped + 1
    /\ UNCHANGED <<Key_Mounts, loaded, proc, handles, msgs, late,
                   left, created>>

(* ReleaseBoxRoot, by which the image of the box may be unmounted.         *)
ReleaseBoxRoot(w) ==
    /\ work[w].pc = "release" /\ work' = [work EXCEPT ![w] = NoWork]
    /\ UNCHANGED <<Key_Mounts, loaded, proc, handles, msgs, late, dropped,
                   left, created>>

ProcStep(p) == \/ Key_MountHive(p) \/ Key_MountHive2(p) \/ QueryHivelist(p)
               \/ MountDone(p) \/ Key_UnmountHive(p) \/ Vanish(p)
WorkStep(w) == \/ \E b \in Boxes : Receive(w, b)
               \/ EnumProcess(w) \/ GetUnmountHive(w) \/ NtUnloadKey(w)
               \/ NtOpenKey(w) \/ ReleaseBoxRoot(w)
Next == \/ \E p \in Procs : \/ \E b \in Boxes : Create(p, b)
                            \/ ProcStep(p) \/ OpenKey(p) \/ Process_Delete(p)
        \/ \E w \in Workers : WorkStep(w)

Spec == Init /\ [][Next]_vars

(* Every thread of the driver and of the service goes on.                  *)
FairSpec == /\ Spec /\ \A p \in Procs : WF_vars(ProcStep(p))
            /\ \A w \in Workers : WF_vars(WorkStep(w))

-----------------------------------------------------------------------------
ProcType == [pc : {"none", "ready", "open", "query", "mounted", "failed",
                   "run", "end", "leaving", "gone"},
             box : Boxes \cup {NoBox}]
WorkType == [pc : {"idle", "check", "get", "unload", "reopen", "release"},
             box : Boxes \cup {NoBox}, hive : Boxes \cup {NoBox},
             retries : 0..MaxRetries]

TypeOK ==
    /\ Key_Mounts \in [Boxes -> [ref_count : 0..Cardinality(Procs),
                                 flags : SUBSET {"busy", "pending"}]]
    /\ loaded \subseteq Boxes /\ msgs \in [Boxes -> Nat]
    /\ proc \in [Procs -> ProcType] /\ work \in [Workers -> WorkType]
    /\ handles \subseteq Procs /\ late \subseteq Procs
    /\ dropped \in Nat /\ left \subseteq Boxes /\ created \in 0..MaxCreate

(* The count of a mount is the number of its users, through failed mounts, *)
(* processes that end at any point and mounts that are used again.  The    *)
(* variables have their types.                                             *)
RefCountIsUsers ==
    /\ TypeOK
    /\ \A b \in Boxes : Key_Mounts[b].ref_count = Cardinality(Users(b))

(* A mount is busy while exactly one process loads its hive.               *)
OneLoader ==
    \A b \in Boxes : Cardinality(Loaders(b)) =
                         IF "busy" \in Key_Mounts[b].flags THEN 1 ELSE 0

(* A process that came to a loaded hive that no thread had been given to   *)
(* unload keeps it as long as it runs.                                     *)
HiveStays ==
    \A p \in Procs : proc[p].pc = "run" /\ p \notin late =>
        proc[p].box \in loaded

(* A hive without users is unloaded, or used again, by way of the message  *)
(* of its last user and the threads of the service.  Left out: behaviours  *)
(* in which an unmount was given up or not asked for (a message lost, the  *)
(* box in use again, no attempt left), and a hive that a mount loaded      *)
(* before it failed, until the next process of the box has mounted it.     *)
UnusedIsUnloaded ==
    \A b \in Boxes : Key_Mounts[b].ref_count = 0 /\ b \in loaded ~>
        \/ b \notin loaded \/ Key_Mounts[b].ref_count # 0
        \/ dropped > 0 \/ b \in left
=============================================================================
