--------------------------- MODULE SessionMonitor ----------------------------
(***************************************************************************)
(* Sessions, their leaders and the resource monitor                        *)
(* (Sandboxie/core/drv/session.c).                                         *)
(*                                                                         *)
(* The driver keeps one SESSION per logon session in which a user          *)
(* interface has declared itself the leader.  A session may have a monitor *)
(* log, a ring of log_buff.c that refuses entries when full: processes of  *)
(* the session put entries into it, the user interface takes them out.     *)
(* A SESSION goes away with its leader.  Everything runs under             *)
(* Session_ListLock, so a call is a step.                                  *)
(***************************************************************************)
EXTENDS LogBuffer

CONSTANTS Pids,           \* process ids, reused after a process is gone
          SessionIds,     \* logon sessions
          DataLens,       \* cells of the strings of an entry
          BufferLens,     \* cells of the buffers callers pass for entries
          MaxPuts,        \* bound: numbers that the open monitor logs give out
          MaxStarts       \* bound: processes that start

ASSUME SessionIdsAssumption == SessionIds \subseteq Nat \ {0}
ASSUME LensAssumption == DataLens \subseteq Nat /\ BufferLens \subseteq Nat \ {0}

NoLog == [none |-> TRUE]
NotRunning == 0

VARIABLES
    running,              \* the logon session of each live process
    Session_List,
    Session_MonitorCount,
    out,                  \* what the latest step returned if it was a MonitorGet
    starts

monitorVars == <<running, Session_List, Session_MonitorCount, out, starts>>

Live == {p \in Pids : running[p] # NotRunning}
Index(id) == {i \in DOMAIN Session_List : Session_List[i].session_id = id}
HasLog(s) == s.monitor_log # NoLog

\* [Time 8][Type 4][PID 4][TID 4], then the strings; the n-th entry's cells
\* are numbered, which stands for whatever they hold.
TimeLen == 2 * FieldLen
HeaderLen == TimeLen + 3 * FieldLen
EntryData(n, len) == [k \in 1 .. HeaderLen + len |-> <<n, k>>]

Nothing == [call |-> "none", session |-> 0, status |-> "none", data |-> << >>]

MonitorInit ==
    /\ running = [p \in Pids |-> NotRunning]
    /\ Session_List = << >>
    /\ Session_MonitorCount = 0
    /\ out = Nothing
    /\ starts = 0

ProcessStarts(p, id) ==
    /\ running[p] = NotRunning /\ starts < MaxStarts
    /\ running' = [running EXCEPT ![p] = id]
    /\ starts' = starts + 1
    /\ out' = Nothing
    /\ UNCHANGED <<Session_List, Session_MonitorCount>>

\* Session_Api_Leader without a process id to return: Session_Get creates the
\* SESSION with the caller as leader, or finds that it has one.
SetLeader(p) ==
    /\ p \in Live
    /\ Index(running[p]) = {}
    /\ Session_List' = Append(Session_List,
                              [session_id |-> running[p], leader_pid |-> p,
                               monitor_log |-> NoLog, monitor_overflow |-> FALSE])
    /\ out' = Nothing
    /\ UNCHANGED <<running, Session_MonitorCount, starts>>

\* Session_Cancel frees the first SESSION led by the process, with its log.
CancelledBy(p) == {i \in DOMAIN Session_List : Session_List[i].leader_pid = p}
WithoutSession(i) == [j \in 1 .. Len(Session_List) - 1 |->
                         Session_List[IF j < i THEN j ELSE j + 1]]
Session_Cancel_KeepsCount(p) ==     \* mutant: the freed log stays counted
    /\ UNCHANGED Session_MonitorCount
    /\ IF CancelledBy(p) = {} THEN UNCHANGED Session_List
       ELSE Session_List' = WithoutSession(Min(CancelledBy(p)))
Session_Cancel_Monitored(p) ==      \* mutant: only monitored sessions are freed
    LET led == {i \in CancelledBy(p) : HasLog(Session_List[i])}
    IN  IF led = {} THEN UNCHANGED <<Session_List, Session_MonitorCount>>
        ELSE /\ Session_List' = WithoutSession(Min(led))
             /\ Session_MonitorCount' = Session_MonitorCount - 1
Session_Cancel(p) ==
    IF CancelledBy(p) = {} THEN UNCHANGED <<Session_List, Session_MonitorCount>>
    ELSE LET i == Min(CancelledBy(p))
         IN  /\ Session_List' = WithoutSession(i)
             /\ Session_MonitorCount' =
                   IF HasLog(Session_List[i]) THEN Session_MonitorCount - 1
                                              ELSE Session_MonitorCount

\* Process_NotifyProcess_Delete calls Session_Cancel for every process.
ProcessExits(p) ==
    /\ p \in Live
    /\ running' = [running EXCEPT ![p] = NotRunning]
    /\ Session_Cancel(p)
    /\ out' = Nothing
    /\ UNCHANGED starts

\* Session_Api_MonitorControl with a flag to set.  When log_buffer_init fails
\* for both sizes that are tried, nothing changes.
EnableMonitor(p) ==
    /\ p \in Live
    /\ \E i \in Index(running[p]) :
          /\ ~HasLog(Session_List[i])
          /\ Session_List' = [Session_List EXCEPT ![i].monitor_log = log_buffer_init]
          /\ Session_MonitorCount' = Session_MonitorCount + 1
    /\ out' = Nothing
    /\ UNCHANGED <<running, starts>>

DisableMonitor(p) ==
    /\ p \in Live
    /\ \E i \in Index(running[p]) :
          /\ HasLog(Session_List[i])
          /\ Session_List' = [Session_List EXCEPT ![i].monitor_log = NoLog]
          /\ Session_MonitorCount' = Session_MonitorCount - 1
    /\ out' = Nothing
    /\ UNCHANGED <<running, starts>>

\* Session_MonitorPutEx: into the log of the caller's session, if that is on.
\* The first entry that finds no room is announced (monitor_overflow).
PutInto(s, len) ==
    LET pushed == push_entry(s.monitor_log, HeaderLen + len, FALSE)
        lb     == pushed.lb
    IN  IF pushed.ptr = NULL
        THEN [s EXCEPT !.monitor_log = lb, !.monitor_overflow = TRUE]
        ELSE [s EXCEPT !.monitor_log =
                 push_bytes(lb, pushed.ptr, EntryData(lb.seq_counter, len))]

\* The numbers that the open logs gave out.
Puts == MapThenSumSet(LAMBDA i : Session_List[i].monitor_log.seq_counter,
                      {i \in DOMAIN Session_List : HasLog(Session_List[i])})

\* Session_Api_MonitorPut2 and Session_Api_MonitorPutEx: nothing to do when
\* no session is monitored.
MonitorPut(p, len) ==
    /\ p \in Live
    /\ Session_MonitorCount # 0
    /\ \E i \in Index(running[p]) :
          /\ HasLog(Session_List[i])
          /\ Puts < MaxPuts
          /\ \E s \in {PutInto(Session_List[i], len)} :
                Session_List' = [Session_List EXCEPT ![i] = s]
    /\ out' = Nothing
    /\ UNCHANGED <<running, Session_MonitorCount, starts>>

\* Session_Api_MonitorGetEx takes the oldest entry.  max is the caller's
\* MaximumLength, without the terminator; what does not fit is cut off, and the entry is gone.
\* The code casts the size to 16 bits: entries here are shorter than 2^16.
GetExData(lb, max) ==
    LET size  == get_field(lb, lb.buffer_start)
        text  == After(lb.buffer_start, 2 * FieldLen + HeaderLen)
        dsize == size - 3 * FieldLen
        fits  == dsize <= max
    IN  [fits |-> fits, data |-> get_bytes(lb, text, IF fits THEN dsize ELSE max)]

\* Session_Api_MonitorGet2 takes entries, oldest first, for as long as the
\* next one and its length fit into the room that the caller's buffer has
\* left.  The comparison is unsigned: room for less than a length passes it,
\* and so does what is left of that room from then on.
TooSmall(room, size) == room >= FieldLen /\ size > room - FieldLen
RoomLeft(room, size) == IF room < FieldLen THEN room ELSE room - FieldLen - size
Get2Data(lb, max) ==
    LET take[left \in 0 .. lb.buffer_used] ==
            LET p     == lb.buffer_start + (lb.buffer_used - left)
                size  == get_field(lb, p)
                data  == get_bytes(lb, After(p, 2 * FieldLen), size)
            IN  [room \in 0 .. max |->
                    IF left = 0 \/ TotalSize(size) > left \/ TooSmall(room, size)
                    THEN [left |-> left, data |-> << >>]
                    ELSE LET rest == take[left - TotalSize(size)][RoomLeft(room, size)]
                         IN  [left |-> rest.left, data |-> << data >> \o rest.data]]
    IN  take[lb.buffer_used][max]

Result(call, id, status, data) ==
    [call |-> call, session |-> id, status |-> status, data |-> data]

\* The parts that the two calls have in common: no session, no log, an empty
\* log.  Finding the log empty ends the overflow.
GetNothing(p, call) ==
    /\ p \in Live
    /\ UNCHANGED <<running, Session_MonitorCount, starts>>
    /\ \/ /\ Index(running[p]) = {}
          /\ out' = Result(call, running[p], "UNSUCCESSFUL", << >>)
          /\ UNCHANGED Session_List
       \/ \E i \in Index(running[p]) :
             /\ ~HasLog(Session_List[i])
             /\ out' = Result(call, running[p], "DEVICE_NOT_READY", << >>)
             /\ UNCHANGED Session_List
       \/ \E i \in Index(running[p]) :
             /\ HasLog(Session_List[i])
             /\ Session_List[i].monitor_log.buffer_used = 0
             /\ out' = Result(call, running[p], "NO_MORE_ENTRIES", << >>)
             /\ Session_List' = [Session_List EXCEPT ![i].monitor_overflow = FALSE]

MonitorGetEx(p, max) ==
    /\ p \in Live
    /\ \E i \in Index(running[p]) :
          LET lb == Session_List[i].monitor_log
          IN  /\ HasLog(Session_List[i]) /\ lb.buffer_used > 0
              /\ \E got \in {GetExData(lb, max)} :
                    out' = Result("GetEx", running[p],
                                  IF got.fits THEN "SUCCESS" ELSE "BUFFER_TOO_SMALL",
                                  << got.data >>)
              /\ Session_List' = [Session_List EXCEPT ![i].monitor_log = pop_entry(lb)]
    /\ UNCHANGED <<running, Session_MonitorCount, starts>>

MonitorGet2(p, max) ==
    /\ p \in Live
    /\ \E i \in Index(running[p]) :
          LET lb == Session_List[i].monitor_log
          IN  /\ HasLog(Session_List[i]) /\ lb.buffer_used > 0
              /\ \E got \in {Get2Data(lb, max)} :
                    /\ out' = Result("Get2", running[p],
                                     IF got.left = 0 THEN "SUCCESS" ELSE "MORE_ENTRIES",
                                     got.data)
                    /\ Session_List' = [Session_List EXCEPT ![i].monitor_log =
                                            PopTo(lb, got.left)]
    /\ UNCHANGED <<running, Session_MonitorCount, starts>>

MonitorNext ==
    \E p \in Pids :
        \/ \E id \in SessionIds : ProcessStarts(p, id)
        \/ SetLeader(p)
        \/ ProcessExits(p)
        \/ EnableMonitor(p)
        \/ DisableMonitor(p)
        \/ \E len \in DataLens : MonitorPut(p, len)
        \/ GetNothing(p, "GetEx") \/ GetNothing(p, "Get2")
        \/ \E max \in BufferLens : MonitorGetEx(p, max) \/ MonitorGet2(p, max)

MonitorSpec == MonitorInit /\ [][MonitorNext]_monitorVars

-----------------------------------------------------------------------------
LogOf(id) ==
    LET open == {i \in Index(id) : HasLog(Session_List[i])}
    IN  IF open = {} THEN log_buffer_init
        ELSE Session_List[Min(open)].monitor_log
DataOf(id) == LET e == Entries(LogOf(id)) IN [i \in DOMAIN e |-> e[i].data]

\* The session list is a list of sessions whose logs lie inside their rings.
MonitorTypeOK ==
    /\ running \in [Pids -> SessionIds \cup {NotRunning}]
    /\ \A i \in DOMAIN Session_List :
          /\ Session_List[i].session_id \in SessionIds
          /\ Session_List[i].monitor_overflow \in BOOLEAN
          /\ HasLog(Session_List[i]) =>
                /\ Session_List[i].monitor_log.buffer_used \in 0 .. BufferSize
                /\ Session_List[i].monitor_log.buffer_start \in 0 .. BufferSize - 1
    /\ Session_MonitorCount \in Int

\* A SESSION is led by a live process that runs in that very session, and
\* there is one SESSION per id.  Session_Cancel stops at the first session it
\* finds, so this also says that a process never leads a second one, and that
\* no session is left to a process id that was given to somebody else.
LeaderRunsInSession ==
    /\ \A i \in DOMAIN Session_List :
          running[Session_List[i].leader_pid] = Session_List[i].session_id
    /\ \A i, j \in DOMAIN Session_List :
          Session_List[i].session_id = Session_List[j].session_id => i = j

\* Session_MonitorCount, which decides whether anything is logged at all, is
\* the number of monitor logs, however leaders and logs come and go, and the
\* variables have their types.
CountIsLogs ==
    Session_MonitorCount =
        Cardinality({i \in DOMAIN Session_List : HasLog(Session_List[i])})
MonitorCountIsLogs == MonitorTypeOK /\ CountIsLogs

\* The monitor log of a session (any one: sessions differ in nothing but
\* their number) is a first-in first-out queue that refuses what it has no
\* room for and never pushes an entry out.
OneSession == Min(SessionIds)
MonitorBL == INSTANCE BoundedLog WITH
          Capacity <- BufferSize, Header <- TotalSize(0),
          Modulus <- SeqMod, CanPop <- FALSE,
          entries <- Entries(LogOf(OneSession)),
          counter <- LogOf(OneSession).seq_counter
LogIsBoundedLog == MonitorBL!Spec

\* MonitorGet2 hands out whole entries, oldest first, and removes exactly the
\* ones it hands out; MonitorGetEx removes the one oldest entry.
GetRemovesWhatItReturns ==
    [][\A id \in SessionIds : (out' # out /\ out'.session = id) =>
          /\ out'.call = "Get2" => DataOf(id) = out'.data \o DataOf(id)'
          /\ out'.call = "GetEx" =>
                DataOf(id)' = SubSeq(DataOf(id), 1 + Len(out'.data),
                                     Len(DataOf(id)))]_monitorVars
=============================================================================
