--------------------------- MODULE Configuration ---------------------------
(***************************************************************************)
(* The driver's configuration (core/drv/conf.c): threads that reload it    *)
(* from Sandboxie.ini into a memory pool of its own and put it in place of *)
(* the one in force, threads that hold strings of it under a use count,    *)
(* and virtual sections, which live in memory alone and are carried over.  *)
(***************************************************************************)
EXTENDS Naturals, FiniteSets, FiniteSetsExt

CONSTANTS Threads,      \* threads that call API_RELOAD_CONF
          Readers,      \* threads that call API_QUERY_CONF
          Items,        \* what a file may hold: settings and sections
          Virtual,      \* the names that virtual sections use
          NoPool        \* no memory pool

Pools == 1..(Cardinality(Threads) + Cardinality(Readers) + 1)

ASSUME VirtualAssumption == Virtual \subseteq Items
ASSUME PoolAssumption == NoPool \notin Pools
ASSUME ThreadsAssumption == /\ IsFiniteSet(Threads) /\ IsFiniteSet(Readers)
                            /\ Threads \cap Readers = {}

VARIABLES
    file,           \* Sandboxie.ini
    Conf_Data,      \* the configuration in force, with its use count
    pools,          \* the memory pools that are allocated
    reload,         \* the call of Conf_Api_Reload of each thread
    query,          \* the call of Conf_Api_Query of each reader
    torn,           \* calls in whose hands a string or a section was freed
    msgs            \* senders of SVC_CONFIG_UPDATED not yet handled

conf == <<file, Conf_Data, pools, reload, query, torn, msgs>>

(* virt: the virtual sections that the call carries over; missed: those    *)
(* that were set or removed after it copied them.                          *)
NoReload == [pc |-> "idle", pool |-> NoPool, base |-> {}, virt |-> {},
             status |-> "ok", missed |-> {}]
At(pc, status) == [NoReload EXCEPT !.pc = pc, !.status = status]
NoQuery == [pc |-> "idle", pool |-> NoPool]

ReloadType == [pc : {"idle", "import", "walk", "swap", "reset", "notify",
                     "done"},
               pool : Pools \cup {NoPool}, base : SUBSET Items,
               virt : SUBSET Virtual,
               status : {"ok", "exists", "error", "missing"},
               missed : SUBSET Virtual]
QueryType == [pc : {"idle", "get", "use"}, pool : Pools \cup {NoPool}]

DataTypeOK ==
    /\ Conf_Data \in [pool : Pools \cup {NoPool}, base : SUBSET Items,
                      virt : SUBSET Virtual,
                      use_count : 0..Cardinality(Threads \cup Readers)]
    /\ pools \subseteq Pools
    /\ reload \in [Threads -> ReloadType] /\ query \in [Readers -> QueryType]
    /\ torn \subseteq Readers \cup Threads
    /\ msgs \subseteq Threads
ConfTypeOK == file \subseteq Items /\ DataTypeOK

(* Conf_Init has read the file.                                            *)
ConfInit(content) ==
    /\ file = content /\ pools = {1}
    /\ Conf_Data = [pool |-> 1, base |-> content, virt |-> {}, use_count |-> 0]
    /\ reload = [t \in Threads |-> NoReload]
    /\ query = [q \in Readers |-> NoQuery]
    /\ torn = {} /\ msgs = {}

(* NT_SUCCESS: STATUS_OBJECT_NAME_EXISTS is no error to it.                *)
Success(status) == status \in {"ok", "exists"}

(* A pool that nobody has and that no dangling pointer points into.        *)
Pool_Create == CHOOSE n \in Pools : n \notin pools
                                    /\ \A q \in Readers : query[q].pool # n

Pool_Delete(pool) == pools' = pools \ {pool}

(* The calls that hold a string or a section of the one in force.          *)
Holders == {q \in Readers : query[q].pc = "use"
                            /\ query[q].pool = Conf_Data.pool}
           \cup {t \in Threads : reload[t].pc = "walk"}

(* The copies that other calls have made do not follow what happens to the *)
(* virtual sections in force.                                              *)
Outdated(names) ==
    [t \in Threads |-> IF reload[t].pc = "swap"
                       THEN [reload[t] EXCEPT !.missed = @ \cup names]
                       ELSE reload[t]]

-----------------------------------------------------------------------------
(* Conf_Read: the files are read into a new pool.  An error in a line      *)
(* leaves what came before it; Templates.ini may be missing.               *)
Conf_Read(t) ==
    /\ reload[t].pc = "idle"
    /\ \E base \in SUBSET file, status \in {"ok", "error", "missing"} :
          /\ status # "error" => base = file
          /\ reload' = [reload EXCEPT ![t] =
                [NoReload EXCEPT !.pc = "import", !.pool = Pool_Create,
                                 !.base = base, !.status = status]]
    /\ pools' = pools \cup {Pool_Create}
    /\ UNCHANGED <<file, Conf_Data, query, torn, msgs>>

(* The file is there and cannot be opened.                                 *)
Conf_OpenFails(t) ==
    /\ reload[t].pc = "idle"
    /\ reload' = [reload EXCEPT ![t] = At("notify", "error")]
    /\ UNCHANGED <<file, Conf_Data, pools, query, torn, msgs>>

(* The use count covers the walk through the configuration in force.       *)
Conf_Import(t) ==
    /\ reload[t].pc = "import"
    /\ reload' = [reload EXCEPT ![t].pc = "walk"]
    /\ Conf_Data' = [Conf_Data EXCEPT !.use_count = @ + 1]
    /\ UNCHANGED <<file, pools, query, torn, msgs>>

Conf_Walk_NoUpdate(t) ==   \* mutant: the sections are not added to the copy
    /\ reload[t].pc = "walk"
    /\ Conf_Data' = [Conf_Data EXCEPT !.use_count = @ - 1]
    /\ reload' = [reload EXCEPT ![t].pc = "swap",
                    ![t].missed = IF t \in torn THEN Virtual ELSE {},
                    ![t].status = IF Conf_Data.virt \cap reload[t].base = {}
                                  THEN @ ELSE "exists"]
    /\ torn' = torn \ {t}
    /\ UNCHANGED <<file, pools, query, msgs>>

(* Virtual sections are copied until one has the name of a section of the  *)
(* new configuration; the status is then replaced, whatever it was.  The   *)
(* walk takes no lock: of a section or list that was freed under it, it    *)
(* may find and copy anything, or nothing.                                 *)
Conf_Walk(t) ==
    /\ reload[t].pc = "walk"
    /\ Conf_Data' = [Conf_Data EXCEPT !.use_count = @ - 1]
    /\ \E virt \in SUBSET (Virtual \ reload[t].base),
          status \in {reload[t].status, "exists"} :
          /\ t \notin torn =>
                /\ virt \subseteq Conf_Data.virt
                /\ IF Conf_Data.virt \cap reload[t].base = {}
                   THEN virt = Conf_Data.virt /\ status = reload[t].status
                   ELSE status = "exists"
          /\ reload' = [reload EXCEPT ![t].pc = "swap", ![t].virt = virt,
                          ![t].missed = IF t \in torn THEN Virtual ELSE {},
                          ![t].status = status]
    /\ torn' = torn \ {t}
    /\ UNCHANGED <<file, pools, query, msgs>>

Conf_Swap_NoWait(t) ==   \* mutant: the use count is not waited for
    /\ reload[t].pc = "swap" /\ Success(reload[t].status)
    /\ Conf_Data' = [pool |-> reload[t].pool, base |-> reload[t].base,
                     virt |-> reload[t].virt,
                     use_count |-> Conf_Data.use_count]
    /\ Pool_Delete(Conf_Data.pool)
    /\ reload' = [Outdated(SymDiff(Conf_Data.virt, reload[t].virt)) EXCEPT
                    ![t] = At("notify", @.status)]
    /\ UNCHANGED <<file, query, torn, msgs>>

(* The thread has waited until no call uses the configuration in force.    *)
Conf_Swap(t) ==
    /\ reload[t].pc = "swap" /\ Success(reload[t].status)
    /\ Conf_Data.use_count = 0
    /\ Conf_Data' = [pool |-> reload[t].pool, base |-> reload[t].base,
                     virt |-> reload[t].virt, use_count |-> 0]
    /\ Pool_Delete(Conf_Data.pool)
    /\ reload' = [Outdated(SymDiff(Conf_Data.virt, reload[t].virt)) EXCEPT
                    ![t] = At("notify", @.status)]
    /\ UNCHANGED <<file, query, torn, msgs>>

Conf_Discard_OldPool(t) ==   \* mutant: the pool in force is deleted
    /\ reload[t].pc = "swap" /\ ~Success(reload[t].status)
    /\ Pool_Delete(Conf_Data.pool)
    /\ reload' = [reload EXCEPT ![t] =
          At(IF @.status = "missing" THEN "reset" ELSE "notify", @.status)]
    /\ UNCHANGED <<file, Conf_Data, query, torn, msgs>>

(* After an error the new pool is deleted and the one in force stays.      *)
Conf_Discard(t) ==
    /\ reload[t].pc = "swap" /\ ~Success(reload[t].status)
    /\ Pool_Delete(reload[t].pool)
    /\ reload' = [reload EXCEPT ![t] =
          At(IF @.status = "missing" THEN "reset" ELSE "notify", @.status)]
    /\ UNCHANGED <<file, Conf_Data, query, torn, msgs>>

(* Conf_Api_Reload takes a missing file for a reset of the configuration,  *)
(* without regard to the use count, and for a success.                     *)
Conf_Reset(t) ==
    /\ reload[t].pc = "reset"
    /\ Conf_Data' = [Conf_Data EXCEPT !.pool = NoPool, !.base = {},
                                      !.virt = {}]
    /\ Pool_Delete(Conf_Data.pool) /\ torn' = torn \cup Holders
    /\ reload' = [Outdated(Conf_Data.virt) EXCEPT ![t] = At("notify", "ok")]
    /\ UNCHANGED <<file, query, msgs>>

(* The call tells the service which process reloaded, if the service can   *)
(* be told, and returns.                                                   *)
Conf_Notify(t, next) ==
    /\ reload[t].pc = "notify"
    /\ msgs' \in {msgs, msgs \cup {t}}
    /\ reload' = [reload EXCEPT ![t] = next]
    /\ UNCHANGED <<file, Conf_Data, pools, query, torn>>

ReloadStep(t) == \/ Conf_Import(t) \/ Conf_Walk(t) \/ Conf_Swap(t)
                 \/ Conf_Discard(t) \/ Conf_Reset(t)

-----------------------------------------------------------------------------
Conf_Api_Query(q) ==
    /\ query[q].pc = "idle"
    /\ query' = [query EXCEPT ![q].pc = "get"]
    /\ Conf_Data' = [Conf_Data EXCEPT !.use_count = @ + 1]
    /\ UNCHANGED <<file, pools, reload, torn, msgs>>

(* Conf_GetEx returns a pointer into the configuration in force.           *)
Conf_GetEx(q) ==
    /\ query[q].pc = "get" /\ Conf_Data.pool # NoPool
    /\ query' = [query EXCEPT ![q].pc = "use", ![q].pool = Conf_Data.pool]
    /\ UNCHANGED <<file, Conf_Data, pools, reload, torn, msgs>>

(* The value was copied to the caller, or there was none.                  *)
Conf_Release(q) ==
    /\ query[q].pc \in {"get", "use"}
    /\ query' = [query EXCEPT ![q] = NoQuery]
    /\ Conf_Data' = [Conf_Data EXCEPT !.use_count = @ - 1]
    /\ torn' = torn \ {q}
    /\ UNCHANGED <<file, pools, reload, msgs>>

(* Conf_Api_Update adds a virtual section or setting, or removes one of    *)
(* any kind and frees its strings, without regard to the use count.  The   *)
(* code does not ask if there is a pool: after a reset it would allocate   *)
(* from a NULL pool, which stops the system, so there is no step for it.   *)
Conf_Api_Update(v) ==
    /\ Conf_Data.pool # NoPool
    /\ \/ /\ v \notin Conf_Data.virt \cup Conf_Data.base
          /\ Conf_Data' = [Conf_Data EXCEPT !.virt = @ \cup {v}]
          /\ UNCHANGED torn
       \/ /\ v \in Conf_Data.virt \cup Conf_Data.base
          /\ Conf_Data' = [Conf_Data EXCEPT !.virt = @ \ {v},
                                            !.base = @ \ {v}]
          /\ torn' \in {torn \cup h : h \in SUBSET Holders}
    /\ reload' = Outdated({v})
    /\ UNCHANGED <<file, pools, query, msgs>>

ConfNext == \/ \E t \in Threads : ReloadStep(t)
            \/ \E q \in Readers : Conf_GetEx(q) \/ Conf_Release(q)
=============================================================================
