----------------------------- MODULE IniServer -----------------------------
(***************************************************************************)
(* The service's configuration server (core/svc/sbieiniserver.cpp) with    *)
(* the driver's configuration: requests change a cached copy of            *)
(* Sandboxie.ini, write it over the file and have the driver reload it,    *)
(* while editors outside change the file and have the driver reload it     *)
(* too, of which a message tells the service.                              *)
(***************************************************************************)
EXTENDS Configuration

CONSTANTS Svc,            \* the thread that serves a request, in Threads
          Reqs,           \* settings that requests add and remove
          Exts,           \* settings and sections that editors add
          NoCache,        \* m_pSbieIni is NULL
          MaxLoadFaults,  \* bound: failures to read the file
          MaxSaveFaults,  \* bound: failures to back up, write or restore it
          MaxCalls        \* bound: requests, edits and calls of the driver

ASSUME SvcAssumption == Svc \in Threads
ASSUME ItemsAssumption == Items = Reqs \cup Exts
ASSUME CacheAssumption == \A copy \in SUBSET Items : copy # NoCache
ASSUME BoundAssumption == /\ MaxLoadFaults \in Nat /\ MaxSaveFaults \in Nat
                          /\ MaxCalls \in Nat

VARIABLES
    m_pSbieIni,     \* the cached copy
    hnd,            \* the request in the handler, under m_critsec
    acked,          \* settings whose addition was saved and acknowledged
    unseen,         \* edits since the cache was last purged
    loadFaults, saveFaults, calls

ini == <<m_pSbieIni, hnd, acked, unseen, loadFaults, saveFaults, calls>>
vars == <<conf, ini>>

NoRequest == [pc |-> "idle", set |-> {}, backup |-> {}]

(* What a request finds in the cache: CacheConfig reads the file when      *)
(* there is none.                                                          *)
Cached == IF m_pSbieIni = NoCache THEN file ELSE m_pSbieIni

Init ==
    /\ ConfInit({})
    /\ m_pSbieIni = NoCache /\ hnd = NoRequest
    /\ acked = {} /\ unseen = {}
    /\ loadFaults = 0 /\ saveFaults = 0 /\ calls = 0

Call == calls < MaxCalls /\ calls' = calls + 1

-----------------------------------------------------------------------------
(* LoadIni fails after the new CIniFile was stored: the request is refused *)
(* and m_pSbieIni is a copy that holds nothing.                            *)
LoadFails ==
    /\ hnd.pc = "idle" /\ m_pSbieIni = NoCache
    /\ loadFaults < MaxLoadFaults /\ loadFaults' = loadFaults + 1
    /\ m_pSbieIni' = {}
    /\ UNCHANGED <<conf, hnd, acked, unseen, saveFaults, calls>>

GetSetting ==
    /\ hnd.pc = "idle" /\ m_pSbieIni' = Cached
    /\ UNCHANGED <<conf, hnd, acked, unseen, loadFaults, saveFaults, calls>>

(* Handler2 with SetSetting, AddSetting or DelSetting, which set and clear *)
(* settings, or do neither to have the file written; refresh says if it is.*)
Request(set, clear, refresh) ==
    /\ hnd.pc = "idle"
    /\ m_pSbieIni' = (Cached \ clear) \cup set
    /\ acked' = acked \ clear
    /\ hnd' = IF refresh = "yes"
              THEN [NoRequest EXCEPT !.pc = "save", !.set = set] ELSE hnd
    /\ Call /\ UNCHANGED <<conf, unseen, loadFaults, saveFaults>>

(* RefreshConf copies the file to a backup and writes the cache over it.   *)
Save ==
    /\ hnd.pc = "save"
    /\ file' = m_pSbieIni
    /\ hnd' = [hnd EXCEPT !.pc = "reload", !.backup = file]
    /\ UNCHANGED <<Conf_Data, pools, reload, query, torn, msgs>>
    /\ UNCHANGED <<m_pSbieIni, acked, unseen, loadFaults, saveFaults, calls>>

(* No backup can be made, and the request is refused; or the write ends    *)
(* early, which leaves parts of the new and the old file, and the reload   *)
(* goes on.                                                                *)
SaveFails ==
    /\ hnd.pc = "save"
    /\ saveFaults < MaxSaveFaults /\ saveFaults' = saveFaults + 1
    /\ \/ hnd' = NoRequest /\ UNCHANGED file
       \/ /\ hnd' = [hnd EXCEPT !.pc = "reload", !.backup = file]
          /\ file' \in SUBSET (file \cup m_pSbieIni)
    /\ UNCHANGED <<Conf_Data, pools, reload, query, torn, msgs>>
    /\ UNCHANGED <<m_pSbieIni, acked, unseen, loadFaults, calls>>

Finish_Inverted ==   \* mutant: the backup is copied back after a success
    /\ hnd.pc = "reload" /\ reload[Svc].pc = "done"
    /\ \/ /\ Success(reload[Svc].status) /\ file' = hnd.backup
          /\ acked' = acked \cup hnd.set
       \/ ~Success(reload[Svc].status) /\ UNCHANGED <<file, acked>>
    /\ hnd' = NoRequest /\ reload' = [reload EXCEPT ![Svc] = NoReload]
    /\ UNCHANGED <<Conf_Data, pools, query, torn, msgs>>
    /\ UNCHANGED <<m_pSbieIni, unseen, loadFaults, saveFaults, calls>>

(* RestoreOnError: the backup is copied back, if there was a file to back  *)
(* up; the copying may fail and leave parts of either.                     *)
Restore ==
    \/ file' = hnd.backup /\ UNCHANGED saveFaults
    \/ hnd.backup = {} /\ UNCHANGED <<file, saveFaults>>
    \/ /\ saveFaults < MaxSaveFaults /\ saveFaults' = saveFaults + 1
       /\ file' \in SUBSET (file \cup hnd.backup)

(* SbieApi_ReloadConf returned: the result is the request's.               *)
Finish ==
    /\ hnd.pc = "reload" /\ reload[Svc].pc = "done"
    /\ \/ /\ Success(reload[Svc].status) /\ UNCHANGED <<file, saveFaults>>
          /\ acked' = acked \cup hnd.set
       \/ ~Success(reload[Svc].status) /\ Restore /\ UNCHANGED acked
    /\ hnd' = NoRequest /\ reload' = [reload EXCEPT ![Svc] = NoReload]
    /\ UNCHANGED <<Conf_Data, pools, query, torn, msgs>>
    /\ UNCHANGED <<m_pSbieIni, unseen, loadFaults, calls>>

NotifyConfigReloaded_Own(t) ==   \* mutant: the test for the own process is inverted
    /\ hnd.pc = "idle" /\ msgs' = msgs \ {t}
    /\ m_pSbieIni' = IF t = Svc THEN NoCache ELSE m_pSbieIni
    /\ unseen' = IF t = Svc THEN unseen ELSE {}
    /\ UNCHANGED <<file, Conf_Data, pools, reload, query, torn>>
    /\ UNCHANGED <<hnd, acked, loadFaults, saveFaults, calls>>

(* SVC_CONFIG_UPDATED, which the service handles outside the request: a    *)
(* reload by another process purges the cache.                             *)
NotifyConfigReloaded(t) ==
    /\ hnd.pc = "idle" /\ msgs' = msgs \ {t}
    /\ \/ t = Svc /\ UNCHANGED <<m_pSbieIni, unseen>>
       \/ t # Svc /\ m_pSbieIni' = NoCache /\ unseen' = {}
    /\ UNCHANGED <<file, Conf_Data, pools, reload, query, torn>>
    /\ UNCHANGED <<hnd, acked, loadFaults, saveFaults, calls>>

-----------------------------------------------------------------------------
(* A program outside changes the file.                                     *)
Edit(x) ==
    /\ x \notin file /\ Call
    /\ file' = file \cup {x} /\ unseen' = unseen \cup {x}
    /\ UNCHANGED <<Conf_Data, pools, reload, query, torn, msgs>>
    /\ UNCHANGED <<m_pSbieIni, hnd, acked, loadFaults, saveFaults>>

(* The calls of API_RELOAD_CONF: by the service within a request, by other *)
(* programs at any time.                                                   *)
Reload(t) ==
    /\ Conf_Read(t) \/ Conf_OpenFails(t)
    /\ \/ t = Svc /\ hnd.pc = "reload" /\ UNCHANGED calls
       \/ t # Svc /\ Call
    /\ UNCHANGED <<m_pSbieIni, hnd, acked, unseen, loadFaults, saveFaults>>

ReloadEnds(t) ==
    /\ Conf_Notify(t, IF t = Svc THEN At("done", reload[t].status)
                      ELSE NoReload)
    /\ UNCHANGED ini

(* The other calls of the driver.                                          *)
OtherCall ==
    /\ \/ \E q \in Readers : Conf_Api_Query(q)
       \/ \E v \in Virtual : Conf_Api_Update(v)
    /\ Call
    /\ UNCHANGED <<m_pSbieIni, hnd, acked, unseen, loadFaults, saveFaults>>

Next == \/ LoadFails \/ GetSetting \/ Save \/ SaveFails \/ Finish
        \/ \E set, clear \in SUBSET Reqs, refresh \in {"yes", "no"} :
              set \cap clear = {} /\ Request(set, clear, refresh)
        \/ \E t \in msgs : NotifyConfigReloaded(t)
        \/ \E x \in Exts : Edit(x)
        \/ \E t \in Threads : Reload(t) \/ ReloadEnds(t)
        \/ OtherCall
        \/ ConfNext /\ UNCHANGED ini

Spec == Init /\ [][Next]_vars

-----------------------------------------------------------------------------
TypeOK ==
    /\ ConfTypeOK
    /\ m_pSbieIni \in (SUBSET Items) \cup {NoCache}
    /\ hnd \in [pc : {"idle", "save", "reload"}, set : SUBSET Reqs,
                backup : SUBSET Items]
    /\ acked \subseteq Reqs /\ unseen \subseteq Exts
    /\ loadFaults \in 0..MaxLoadFaults /\ saveFaults \in 0..MaxSaveFaults
    /\ calls \in 0..MaxCalls

(* Every pool is the one in force or that of one reload: none is leaked    *)
(* and none is freed twice, whatever the order of swaps, discards, resets. *)
(* The variables have their types.                                         *)
PoolsAccounted ==
    /\ TypeOK
    /\ pools = ({Conf_Data.pool} \cup {reload[t].pool : t \in Threads})
               \ {NoPool}
    /\ \A t \in Threads : reload[t].pool # NoPool =>
          /\ reload[t].pool # Conf_Data.pool
          /\ \A u \in Threads \ {t} : reload[u].pool # reload[t].pool

(* A string that a query holds lies in a pool that exists, unless an       *)
(* update or a reset, which ignore the use count, took it away.            *)
ReaderKeepsPool ==
    \A q \in Readers : query[q].pc = "use" /\ q \notin torn =>
        query[q].pool = Conf_Data.pool /\ Conf_Data.pool \in pools

(* A reload carries over the virtual sections in force, except those that  *)
(* were set or removed after it copied them, or when a name clashes.       *)
VirtualSurvives ==
    [][\A t \in Threads :
          reload[t].pc = "swap" /\ reload'[t].pc = "notify"
            /\ reload[t].status = "ok"
          => SymDiff(Conf_Data.virt, Conf_Data'.virt) \subseteq
                reload[t].missed]_vars

(* The cache holds all of the file but what requests removed and edits of  *)
(* which the service has not been told (a message may be lost): saving it  *)
(* loses nothing else, unless the file could once not be read.             *)
CacheCovers ==
    loadFaults = 0 /\ m_pSbieIni # NoCache =>
        file \ Reqs \subseteq m_pSbieIni \cup unseen

(* A setting whose addition was acknowledged is in the file until it is    *)
(* removed, whatever reloads, edits and requests that the driver refuses   *)
(* come after.  Every behaviour in which the file could once not be read,  *)
(* backed up or written is left out: what is lost then is not looked at.   *)
AckedIsSaved ==
    loadFaults = 0 /\ saveFaults = 0 => acked \subseteq file

(* A string that a query holds under the use count stays while the         *)
(* configuration is reloaded, whatever the reload finds.                   *)
StringsStay ==
    \A q \in Readers : query[q].pc = "use" => query[q].pool \in pools
=============================================================================
