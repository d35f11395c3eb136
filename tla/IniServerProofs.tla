-------------------------- MODULE IniServerProofs --------------------------
(***************************************************************************)
(* For any number of threads that reload the configuration, readers,       *)
(* settings, requests, edits and faults: no memory pool is leaked or freed *)
(* twice, a string that a query holds stays but for a reset or an update,  *)
(* virtual sections are carried over, the cache of the service covers the  *)
(* file, and what was acknowledged is saved.                               *)
(***************************************************************************)
EXTENDS IniServer, FiniteSetTheorems, TLAPS

USE VirtualAssumption, PoolAssumption, SvcAssumption

-----------------------------------------------------------------------------
(* The inductive invariant of the driver's configuration *)

\* A reload has a pool from Conf_Read until it swaps or discards it.
HasPool == \A t \in Threads :
    reload[t].pool # NoPool <=> reload[t].pc \in {"import", "walk", "swap"}

\* The pools are the one in force and those of the reloads, which all differ.
Owned ==
    /\ \A n \in Pools : n \in pools <=> \/ Conf_Data.pool = n
                                        \/ \E t \in Threads : reload[t].pool = n
    /\ \A t \in Threads : reload[t].pool # NoPool =>
          /\ reload[t].pool # Conf_Data.pool
          /\ \A u \in Threads : u # t => reload[u].pool # reload[t].pool

\* The calls that the use count stands for.
Using == {t \in Threads : reload[t].pc = "walk"}
         \cup {q \in Readers : query[q].pc \in {"get", "use"}}
Counted == Conf_Data.use_count = Cardinality(Using)

\* What a reload is about to put in force differs from what is in force by the
\* virtual sections it missed.
VirtCopied == \A t \in Threads :
    reload[t].pc = "swap" /\ reload[t].status = "ok" =>
        SymDiff(Conf_Data.virt, reload[t].virt) \subseteq reload[t].missed

ConfInv == /\ DataTypeOK /\ HasPool /\ Owned /\ Counted /\ ReaderKeepsPool
           /\ VirtCopied

-----------------------------------------------------------------------------
(* What the steps do to the table of reloads *)

\* The reload of u goes on as it was, but may have missed more.
Stays(u) == /\ reload'[u].pc = reload[u].pc /\ reload'[u].pool = reload[u].pool
            /\ reload'[u].virt = reload[u].virt
            /\ reload'[u].status = reload[u].status
            /\ reload[u].missed \subseteq reload'[u].missed

\* The reload of t goes to pc with a pool, and the others stay.
Moved(t, pc, pool) ==
    /\ reload' \in [Threads -> ReloadType]
    /\ reload'[t].pc = pc /\ reload'[t].pool = pool
    /\ \A u \in Threads : u # t => Stays(u)

Ends == {"idle", "reset", "notify", "done"}
Statuses == {"ok", "exists", "error", "missing"}

\* A reload that has ended its work on the configuration has no pool.
LEMMA AtFacts ==
    ASSUME NEW pc \in Ends, NEW status \in Statuses
    PROVE  /\ At(pc, status) \in ReloadType /\ At(pc, status).pc = pc
           /\ At(pc, status).pool = NoPool /\ At(pc, status).status = status
BY DEF At, NoReload, ReloadType, Ends, Statuses

\* The same of a call that has returned.
LEMMA NoReloadFacts == /\ NoReload \in ReloadType /\ NoReload.pc = "idle"
                       /\ NoReload.pool = NoPool
BY DEF NoReload, ReloadType

\* Setting the entry of one thread moves its reload.
LEMMA SetMoves ==
    ASSUME DataTypeOK, NEW t \in Threads, NEW r \in ReloadType,
           reload' = [reload EXCEPT ![t] = r]
    PROVE  Moved(t, r.pc, r.pool)
BY DEF DataTypeOK, Moved, Stays

\* Outdated adds names to what other calls have missed, and nothing else.
LEMMA OutdatedFacts ==
    ASSUME DataTypeOK, NEW names \in SUBSET Virtual
    PROVE  /\ Outdated(names) \in [Threads -> ReloadType]
           /\ \A u \in Threads :
                 /\ Outdated(names)[u].pc = reload[u].pc
                 /\ Outdated(names)[u].pool = reload[u].pool
                 /\ Outdated(names)[u].virt = reload[u].virt
                 /\ Outdated(names)[u].status = reload[u].status
                 /\ reload[u].missed \subseteq Outdated(names)[u].missed
                 /\ reload[u].pc = "swap" => names \subseteq Outdated(names)[u].missed
<1> SUFFICES ASSUME NEW u \in Threads
             PROVE  /\ Outdated(names)[u] \in ReloadType
                    /\ Outdated(names)[u].pc = reload[u].pc
                    /\ Outdated(names)[u].pool = reload[u].pool
                    /\ Outdated(names)[u].virt = reload[u].virt
                    /\ Outdated(names)[u].status = reload[u].status
                    /\ reload[u].missed \subseteq Outdated(names)[u].missed
                    /\ reload[u].pc = "swap" =>
                          names \subseteq Outdated(names)[u].missed
    BY DEF Outdated
<1>1. reload[u] \in ReloadType
    BY DEF DataTypeOK
<1>2. CASE reload[u].pc = "swap"
    <2>1. Outdated(names)[u] = [reload[u] EXCEPT !.missed = @ \cup names]
        BY <1>2 DEF Outdated
    <2> QED BY <1>1, <2>1 DEF ReloadType
<1>3. CASE reload[u].pc # "swap"
    BY <1>1, <1>3 DEF Outdated
<1> QED BY <1>2, <1>3

\* Ending a reload on top of Outdated moves it, and tells the others.
LEMMA OutdatedMoves ==
    ASSUME DataTypeOK, NEW names \in SUBSET Virtual, NEW t \in Threads,
           NEW status \in Statuses,
           reload' = [Outdated(names) EXCEPT ![t] = At("notify", status)]
    PROVE  /\ Moved(t, "notify", NoPool)
           /\ \A u \in Threads : reload[u].pc = "swap" /\ u # t =>
                                    names \subseteq reload'[u].missed
<1>1. At("notify", status) \in ReloadType /\ At("notify", status).pc = "notify"
      /\ At("notify", status).pool = NoPool
    BY AtFacts DEF Ends
<1>2. \A u \in Threads : u # t => reload'[u] = Outdated(names)[u]
    BY OutdatedFacts
<1>3. reload'[t] = At("notify", status)
    BY OutdatedFacts
<1>4. reload' \in [Threads -> ReloadType]
    BY <1>1, OutdatedFacts
<1> QED BY <1>1, <1>2, <1>3, <1>4, OutdatedFacts DEF Moved, Stays

-----------------------------------------------------------------------------
(* The count, the pools and the copies *)

\* The use count is within its type, now and in the next state.
LEMMA UsingFinite == /\ IsFiniteSet(Using)
                     /\ Cardinality(Using) \in 0 .. Cardinality(Threads \cup Readers)
<1>1. IsFiniteSet(Threads \cup Readers)
    BY ThreadsAssumption, FS_Union
<1>2. Using \in SUBSET (Threads \cup Readers)
    BY DEF Using
<1>3. IsFiniteSet(Using) /\ Cardinality(Using) <= Cardinality(Threads \cup Readers)
    BY <1>1, <1>2, FS_Subset
<1>4. Cardinality(Using) \in Nat /\ Cardinality(Threads \cup Readers) \in Nat
    BY <1>1, <1>3, FS_CardinalityType
<1> QED BY <1>3, <1>4

\* The next use count is at most the number of threads and readers.
LEMMA UsingFiniteNext ==
    ASSUME Counted'
    PROVE  Conf_Data'.use_count \in 0 .. Cardinality(Threads \cup Readers)
<1>1. IsFiniteSet(Threads \cup Readers)
    BY ThreadsAssumption, FS_Union
<1>2. Using' \in SUBSET (Threads \cup Readers)
    BY DEF Using
<1>3. IsFiniteSet(Using') /\ Cardinality(Using') <= Cardinality(Threads \cup Readers)
    BY <1>1, <1>2, FS_Subset
<1>4. Cardinality(Using') \in Nat /\ Cardinality(Threads \cup Readers) \in Nat
    BY <1>1, <1>3, FS_CardinalityType
<1> QED BY <1>3, <1>4 DEF Counted

\* Pool_Create finds a pool that nobody has: the caller has none, so the one in
\* force, the other reloads and the queries leave one over.
LEMMA PoolCreated ==
    ASSUME ConfInv, NEW t \in Threads, reload[t].pc = "idle"
    PROVE  Pool_Create \in Pools /\ Pool_Create \notin pools
<1> DEFINE S == Threads \cup Readers
           f == [x \in S |-> IF x = t THEN Conf_Data.pool
                             ELSE IF x \in Threads THEN reload[x].pool
                             ELSE query[x].pool]
           T == {f[x] : x \in S}
<1>1. IsFiniteSet(S) /\ Cardinality(S) <= Cardinality(Threads) + Cardinality(Readers)
    <2>1. IsFiniteSet(Threads \cap Readers)
        BY ThreadsAssumption, FS_EmptySet
    <2>2. /\ Cardinality(Threads \cap Readers) \in Nat
          /\ Cardinality(Threads) \in Nat /\ Cardinality(Readers) \in Nat
        BY <2>1, ThreadsAssumption, FS_CardinalityType
    <2>3. /\ IsFiniteSet(S)
          /\ Cardinality(S) = Cardinality(Threads) + Cardinality(Readers)
                                    - Cardinality(Threads \cap Readers)
        BY ThreadsAssumption, FS_Union
    <2> QED BY <2>2, <2>3
<1>2. f \in Surjection(S, T)
    <2>1. f \in [S -> T] /\ \A y \in T : \E x \in S : f[x] = y
        OBVIOUS
    <2> HIDE DEF f, T, S
    <2> QED BY <2>1 DEF Surjection
<1>3. IsFiniteSet(T) /\ Cardinality(T) <= Cardinality(S)
    <2> HIDE DEF f, T, S
    <2> QED BY <1>1, <1>2, FS_Surjection
<1>4. IsFiniteSet(Pools) /\ Cardinality(T) < Cardinality(Pools)
    <2> HIDE DEF f, T, S
    <2>1. Cardinality(Threads) \in Nat /\ Cardinality(Readers) \in Nat
          /\ Cardinality(T) \in Nat /\ Cardinality(S) \in Nat
        BY <1>1, <1>3, ThreadsAssumption, FS_CardinalityType
    <2> DEFINE k == Cardinality(Threads) + Cardinality(Readers) + 1
    <2>2. k \in Int /\ ~(1 > k) /\ 1 \in Int
        BY <2>1
    <2> HIDE DEF k
    <2>3. IsFiniteSet(1..k) /\ Cardinality(1..k) = k - 1 + 1
        BY <2>2, FS_Interval
    <2> USE DEF k
    <2> QED BY <1>1, <1>3, <2>1, <2>3 DEF Pools
<1>5. PICK n \in Pools : n \notin T
    <2> HIDE DEF f, T, S
    <2>1. CASE Pools \subseteq T
        <3>1. Cardinality(Pools) <= Cardinality(T)
            BY <1>3, <2>1, FS_Subset
        <3>2. Cardinality(Pools) \in Nat /\ Cardinality(T) \in Nat
            BY <1>3, <1>4, FS_CardinalityType
        <3> QED BY <1>4, <3>1, <3>2
    <2> QED BY <2>1
<1>6. \A x \in S : f[x] # n
    BY <1>5
<1>7. Conf_Data.pool # n
    BY <1>6
<1>8. \A u \in Threads : reload[u].pool # n
    <2>1. reload[t].pool = NoPool
        BY DEF ConfInv, HasPool
    <2>2. \A u \in Threads : u # t => f[u] = reload[u].pool
        OBVIOUS
    <2> QED BY <1>6, <2>1, <2>2
<1>9. \A q \in Readers : query[q].pool # n
    <2>1. \A q \in Readers : f[q] = query[q].pool
        BY ThreadsAssumption
    <2> QED BY <1>6, <2>1
<1>10. n \notin pools
    BY <1>7, <1>8 DEF ConfInv, Owned
<1> HIDE DEF f, T, S
<1> QED BY <1>5, <1>9, <1>10 DEF Pool_Create

\* A step that leaves the pools with their owners keeps Owned.
LEMMA OwnedSame ==
    ASSUME Owned, pools' = pools, Conf_Data'.pool = Conf_Data.pool,
           \A u \in Threads : reload'[u].pool = reload[u].pool
    PROVE  Owned'
BY DEF Owned

\* A step that takes no string away from a query keeps ReaderKeepsPool.
LEMMA ReadersSame ==
    ASSUME ReaderKeepsPool, query' = query, torn \cap Readers \subseteq torn',
           Conf_Data'.pool = Conf_Data.pool,
           Conf_Data.pool \in pools => Conf_Data.pool \in pools'
    PROVE  ReaderKeepsPool'
BY DEF ReaderKeepsPool

\* The calls under the use count are the same when no reload enters or leaves
\* its walk and no query begins or ends.
LEMMA UsingSame ==
    ASSUME \A u \in Threads : reload'[u].pc = "walk" <=> reload[u].pc = "walk",
           \A q \in Readers : query'[q].pc \in {"get", "use"}
                              <=> query[q].pc \in {"get", "use"}
    PROVE  Using' = Using
BY DEF Using

\* A reload that stays has missed what changes in force meanwhile.
LEMMA VirtStays ==
    ASSUME VirtCopied, NEW u \in Threads, Stays(u),
           reload[u].pc = "swap" =>
               SymDiff(Conf_Data.virt, Conf_Data'.virt) \subseteq reload'[u].missed,
           reload'[u].pc = "swap", reload'[u].status = "ok"
    PROVE  SymDiff(Conf_Data'.virt, reload'[u].virt) \subseteq reload'[u].missed
BY DEF VirtCopied, Stays, SymDiff

\* A reload that moves on, to anything but its swap, while the virtual sections
\* in force do not change.
LEMMA VirtMoved ==
    ASSUME VirtCopied, NEW t \in Threads, NEW pc, NEW pool, Moved(t, pc, pool),
           pc # "swap", Conf_Data'.virt = Conf_Data.virt
    PROVE  VirtCopied'
<1>1. SymDiff(Conf_Data.virt, Conf_Data'.virt) = {}
    BY DEF SymDiff
<1> QED BY <1>1, VirtStays DEF VirtCopied, Moved

\* Where the reload of t has a pool after a move.
LEMMA PoolMoved ==
    ASSUME HasPool, NEW t \in Threads, NEW pc, NEW pool, Moved(t, pc, pool),
           pool # NoPool <=> pc \in {"import", "walk", "swap"}
    PROVE  HasPool'
BY DEF HasPool, Moved, Stays

-----------------------------------------------------------------------------
(* The steps of the driver *)

\* Conf_Read takes a pool that nobody has.
LEMMA ReadKeeps ==
    ASSUME ConfInv, file \subseteq Items, NEW t \in Threads, Conf_Read(t)
    PROVE  ConfInv'
<1> DEFINE n == Pool_Create
<1>0. n \in Pools /\ n \notin pools
    BY PoolCreated DEF Conf_Read
<1> HIDE DEF n
<1>1. PICK base \in SUBSET file, status \in {"ok", "error", "missing"} :
          reload' = [reload EXCEPT ![t] =
             [NoReload EXCEPT !.pc = "import", !.pool = n, !.base = base,
                              !.status = status]]
    BY DEF Conf_Read, n
<1>2. Moved(t, "import", n)
    <2> DEFINE r == [NoReload EXCEPT !.pc = "import", !.pool = n, !.base = base,
                                     !.status = status]
    <2>1. r \in ReloadType /\ r.pc = "import" /\ r.pool = n
        BY <1>0 DEF NoReload, ReloadType
    <2> HIDE DEF r
    <2> QED BY <1>1, <2>1, SetMoves DEF ConfInv, r
<1>3. /\ pools' = pools \cup {n} /\ reload[t].pc = "idle"
      /\ UNCHANGED <<file, Conf_Data, query, torn, msgs>>
    BY DEF Conf_Read, n
<1>4. DataTypeOK'
    BY <1>0, <1>2, <1>3 DEF ConfInv, DataTypeOK, Moved
<1>5. HasPool'
    BY <1>0, <1>2, PoolMoved DEF ConfInv
<1>6. Owned'
    BY <1>0, <1>2, <1>3 DEF ConfInv, Owned, HasPool, Moved, Stays, DataTypeOK, ReloadType
<1>7. Counted'
    BY <1>2, <1>3, UsingSame DEF ConfInv, Counted, Moved, Stays
<1>8. ReaderKeepsPool'
    BY <1>3, ReadersSame DEF ConfInv
<1>9. VirtCopied'
    BY <1>2, <1>3, VirtMoved DEF ConfInv
<1> QED BY <1>4, <1>5, <1>6, <1>7, <1>8, <1>9 DEF ConfInv

\* A call that begins without the file, or returns, has no pool.
LEMMA CallKeeps ==
    ASSUME ConfInv, NEW t \in Threads, NEW pc \in Ends, reload[t].pc \in Ends,
           Moved(t, pc, NoPool), UNCHANGED <<Conf_Data, pools, query, torn>>,
           msgs' \subseteq Threads
    PROVE  ConfInv'
<1>1. DataTypeOK'
    BY DEF ConfInv, DataTypeOK, Moved
<1>2. HasPool'
    BY PoolMoved DEF ConfInv, Ends
<1>3. Owned'
    BY OwnedSame DEF ConfInv, HasPool, Ends, Moved, Stays
<1>4. Counted'
    BY UsingSame DEF ConfInv, Counted, Ends, Moved, Stays
<1>5. ReaderKeepsPool'
    BY ReadersSame DEF ConfInv
<1>6. VirtCopied'
    BY VirtMoved DEF ConfInv, Ends
<1> QED BY <1>1, <1>2, <1>3, <1>4, <1>5, <1>6 DEF ConfInv

\* Conf_Import begins a walk under the use count.
LEMMA ImportKeeps ==
    ASSUME ConfInv, NEW t \in Threads, Conf_Import(t)
    PROVE  ConfInv'
<1>1. Moved(t, "walk", reload[t].pool)
    BY DEF ConfInv, DataTypeOK, ReloadType, Conf_Import, Moved, Stays
<1>2. /\ reload[t].pc = "import" /\ Conf_Data'.pool = Conf_Data.pool
      /\ Conf_Data'.virt = Conf_Data.virt /\ Conf_Data'.base = Conf_Data.base
      /\ Conf_Data' = [Conf_Data EXCEPT !.use_count = @ + 1]
      /\ Conf_Data'.use_count = Conf_Data.use_count + 1
      /\ UNCHANGED <<pools, query, torn, msgs>>
    BY DEF Conf_Import, ConfInv, DataTypeOK
<1>3. Counted'
    <2>1. Using' = Using \cup {t} /\ t \notin Using
        BY <1>1, <1>2, ThreadsAssumption DEF Using, Moved, Stays
    <2>2. Cardinality(Using') = Cardinality(Using) + 1
        BY <2>1, UsingFinite, FS_AddElement
    <2> QED BY <1>2, <2>2 DEF ConfInv, Counted
<1>4. DataTypeOK'
    BY <1>1, <1>2, <1>3, UsingFiniteNext DEF ConfInv, DataTypeOK, Moved
<1>5. HasPool'
    BY <1>1, <1>2, PoolMoved DEF ConfInv, HasPool
<1>6. Owned'
    BY <1>1, <1>2, OwnedSame DEF ConfInv, Moved, Stays
<1>7. ReaderKeepsPool'
    BY <1>2, ReadersSame DEF ConfInv
<1>8. VirtCopied'
    BY <1>1, <1>2, VirtMoved DEF ConfInv
<1> QED BY <1>3, <1>4, <1>5, <1>6, <1>7, <1>8 DEF ConfInv

\* Conf_Walk copies the virtual sections, or its status or missed says so.
LEMMA WalkKeeps ==
    ASSUME ConfInv, NEW t \in Threads, Conf_Walk(t)
    PROVE  ConfInv'
<1>0. Conf_Data.virt \subseteq Virtual /\ reload[t] \in ReloadType
      /\ Conf_Data.use_count \in Nat
    BY DEF ConfInv, DataTypeOK
<1>1. PICK virt \in SUBSET (Virtual \ reload[t].base),
           status \in {reload[t].status, "exists"} :
          /\ t \notin torn => virt = Conf_Data.virt \/ status = "exists"
          /\ reload' = [reload EXCEPT ![t].pc = "swap", ![t].virt = virt,
                          ![t].missed = IF t \in torn THEN Virtual ELSE {},
                          ![t].status = status]
    BY DEF Conf_Walk
<1>2. virt \subseteq Virtual
    BY <1>0, <1>1
<1>3. /\ reload[t].pc = "walk" /\ Conf_Data'.pool = Conf_Data.pool
      /\ Conf_Data'.virt = Conf_Data.virt
      /\ Conf_Data' = [Conf_Data EXCEPT !.use_count = @ - 1]
      /\ Conf_Data'.use_count = Conf_Data.use_count - 1
      /\ torn' = torn \ {t} /\ UNCHANGED <<pools, query, msgs>>
    BY DEF Conf_Walk, ConfInv, DataTypeOK
<1> DEFINE r == [reload[t] EXCEPT !.pc = "swap", !.virt = virt,
                    !.missed = IF t \in torn THEN Virtual ELSE {},
                    !.status = status]
<1>4. /\ r \in ReloadType /\ r.pc = "swap" /\ r.pool = reload[t].pool
      /\ r.virt = virt /\ r.missed = IF t \in torn THEN Virtual ELSE {}
      /\ r.status = status
    BY <1>0, <1>1, <1>2 DEF ReloadType
<1>5. reload' = [reload EXCEPT ![t] = r]
    BY <1>1
<1> HIDE DEF r
<1>6. Moved(t, "swap", reload[t].pool) /\ reload'[t] = r
    <2>1. Moved(t, r.pc, r.pool)
        BY <1>4, <1>5, SetMoves DEF ConfInv
    <2>2. reload'[t] = r
        BY <1>5 DEF ConfInv, DataTypeOK
    <2> QED BY <1>4, <2>1, <2>2
<1>7. Counted'
    <2>1. Using' = Using \ {t} /\ t \in Using
        BY <1>3, <1>6, ThreadsAssumption DEF Using, Moved, Stays
    <2>2. Cardinality(Using') = Cardinality(Using) - 1
        BY <2>1, UsingFinite, FS_RemoveElement
    <2> QED BY <1>3, <2>2 DEF ConfInv, Counted
<1>8. DataTypeOK'
    BY <1>3, <1>6, <1>7, UsingFiniteNext DEF ConfInv, DataTypeOK, Moved
<1>9. HasPool'
    BY <1>3, <1>6, PoolMoved DEF ConfInv, HasPool
<1>10. Owned'
    BY <1>3, <1>6, OwnedSame DEF ConfInv, Moved, Stays
<1>11. ReaderKeepsPool'
    BY <1>3, ReadersSame, ThreadsAssumption DEF ConfInv
<1>12. VirtCopied'
    <2> SUFFICES ASSUME NEW u \in Threads, reload'[u].pc = "swap",
                        reload'[u].status = "ok"
                 PROVE  SymDiff(Conf_Data'.virt, reload'[u].virt)
                            \subseteq reload'[u].missed
        BY DEF VirtCopied
    <2>1. CASE u = t
        <3>1. status = "ok" /\ reload'[u].virt = virt
              /\ reload'[u].missed = IF t \in torn THEN Virtual ELSE {}
            BY <1>4, <1>6, <2>1
        <3>2. CASE t \in torn
            BY <1>0, <1>2, <1>3, <3>1, <3>2 DEF SymDiff
        <3>3. CASE t \notin torn
            BY <1>1, <1>3, <3>1, <3>3 DEF SymDiff
        <3> QED BY <3>2, <3>3
    <2>2. CASE u # t
        <3>1. SymDiff(Conf_Data.virt, Conf_Data'.virt) = {}
            BY <1>3 DEF SymDiff
        <3> QED BY <1>6, <2>2, <3>1, VirtStays DEF ConfInv, Moved
    <2> QED BY <2>1, <2>2
<1> QED BY <1>7, <1>8, <1>9, <1>10, <1>11, <1>12 DEF ConfInv

\* Conf_Swap waits for the use count, so no query holds the pool it deletes.
LEMMA SwapKeeps ==
    ASSUME ConfInv, NEW t \in Threads, Conf_Swap(t)
    PROVE  ConfInv'
<1> DEFINE names == SymDiff(Conf_Data.virt, reload[t].virt)
<1>0. reload[t] \in ReloadType /\ names \in SUBSET Virtual
    BY DEF ConfInv, DataTypeOK, ReloadType, SymDiff
<1> HIDE DEF names
<1>1. /\ reload[t].pc = "swap" /\ Conf_Data.use_count = 0
      /\ Conf_Data' = [pool |-> reload[t].pool, base |-> reload[t].base,
                       virt |-> reload[t].virt, use_count |-> 0]
      /\ pools' = pools \ {Conf_Data.pool}
      /\ UNCHANGED <<query, torn, msgs>>
    BY DEF Conf_Swap, Pool_Delete
<1>2. reload' = [Outdated(names) EXCEPT ![t] = At("notify", reload[t].status)]
    BY <1>0, OutdatedFacts DEF Conf_Swap, names, ConfInv
<1>3. /\ Moved(t, "notify", NoPool)
      /\ \A u \in Threads : reload[u].pc = "swap" /\ u # t =>
                               names \subseteq reload'[u].missed
    BY <1>0, <1>2, OutdatedMoves DEF ConfInv, ReloadType, Statuses
<1>4. Using = {}
    BY <1>1, UsingFinite, FS_EmptySet DEF ConfInv, Counted
<1>5. Counted'
    <2>1. Using' = {}
        BY <1>1, <1>3, <1>4 DEF Using, Moved, Stays
    <2> QED BY <1>1, <2>1, FS_EmptySet DEF Counted
<1>6. DataTypeOK'
    <2>1. Conf_Data'.use_count \in 0 .. Cardinality(Threads \cup Readers)
        BY <1>5, UsingFiniteNext
    <2> QED BY <1>0, <1>1, <1>3, <2>1 DEF ConfInv, DataTypeOK, ReloadType, Moved
<1>7. HasPool'
    BY <1>3, PoolMoved DEF ConfInv
<1>8. Owned'
    <2>1. reload[t].pool # NoPool /\ reload[t].pool # Conf_Data.pool
        BY <1>1 DEF ConfInv, HasPool, Owned
    <2>2. Conf_Data'.pool = reload[t].pool
        BY <1>1
    <2>3. \A n \in Pools : n \in pools' <=>
              \/ Conf_Data'.pool = n
              \/ \E u \in Threads : reload'[u].pool = n
        BY <1>1, <1>3, <2>1, <2>2 DEF ConfInv, Owned, Moved, Stays
    <2>4. \A u \in Threads : reload'[u].pool # NoPool =>
              /\ reload'[u].pool # Conf_Data'.pool
              /\ \A v \in Threads : v # u => reload'[v].pool # reload'[u].pool
        BY <1>3, <2>1, <2>2 DEF ConfInv, Owned, Moved, Stays
    <2> QED BY <2>3, <2>4 DEF Owned
<1>9. ReaderKeepsPool'
    BY <1>1, <1>4 DEF ReaderKeepsPool, Using
<1>10. VirtCopied'
    <2> SUFFICES ASSUME NEW u \in Threads, reload'[u].pc = "swap",
                        reload'[u].status = "ok"
                 PROVE  SymDiff(Conf_Data'.virt, reload'[u].virt)
                            \subseteq reload'[u].missed
        BY DEF VirtCopied
    <2>1. u # t /\ Stays(u)
        BY <1>3 DEF Moved
    <2>2. SymDiff(Conf_Data.virt, Conf_Data'.virt) = names
        BY <1>1 DEF names
    <2> QED BY <1>3, <2>1, <2>2, VirtStays DEF ConfInv
<1> QED BY <1>5, <1>6, <1>7, <1>8, <1>9, <1>10 DEF ConfInv

\* Conf_Discard deletes the pool of the reload, which is not the one in force.
LEMMA DiscardKeeps ==
    ASSUME ConfInv, NEW t \in Threads, Conf_Discard(t)
    PROVE  ConfInv'
<1> DEFINE pc == IF reload[t].status = "missing" THEN "reset" ELSE "notify"
<1>0. reload[t].status \in Statuses
    BY DEF ConfInv, DataTypeOK, ReloadType, Statuses
<1>1. /\ reload[t].pc = "swap" /\ pools' = pools \ {reload[t].pool}
      /\ reload' = [reload EXCEPT ![t] = At(pc, reload[t].status)]
      /\ UNCHANGED <<Conf_Data, query, torn, msgs>>
    BY DEF Conf_Discard, Pool_Delete, ConfInv, DataTypeOK
<1>2. pc \in Ends
    BY DEF Ends
<1> HIDE DEF pc
<1>3. Moved(t, pc, NoPool)
    <2> DEFINE r == At(pc, reload[t].status)
    <2>1. r \in ReloadType /\ r.pc = pc /\ r.pool = NoPool
        BY <1>0, <1>2, AtFacts
    <2>2. reload' = [reload EXCEPT ![t] = r]
        BY <1>1
    <2> HIDE DEF r
    <2>3. Moved(t, r.pc, r.pool)
        BY <2>1, <2>2, SetMoves DEF ConfInv
    <2> QED BY <2>1, <2>3
<1>4. DataTypeOK'
    BY <1>1, <1>3 DEF ConfInv, DataTypeOK, Moved
<1>5. HasPool'
    BY <1>2, <1>3, PoolMoved DEF ConfInv, Ends
<1>6. Owned'
    <2>1. reload[t].pool # NoPool /\ reload[t].pool # Conf_Data.pool
        BY <1>1 DEF ConfInv, HasPool, Owned
    <2>2. \A n \in Pools : n \in pools' <=>
              \/ Conf_Data'.pool = n
              \/ \E u \in Threads : reload'[u].pool = n
        BY <1>1, <1>3, <2>1 DEF ConfInv, Owned, Moved, Stays
    <2>3. \A u \in Threads : reload'[u].pool # NoPool =>
              /\ reload'[u].pool # Conf_Data'.pool
              /\ \A v \in Threads : v # u => reload'[v].pool # reload'[u].pool
        BY <1>1, <1>3, <2>1 DEF ConfInv, Owned, Moved, Stays
    <2> QED BY <2>2, <2>3 DEF Owned
<1>7. Counted'
    BY <1>1, <1>2, <1>3, UsingSame DEF ConfInv, Counted, Ends, Moved, Stays
<1>8. ReaderKeepsPool'
    <2>1. Conf_Data.pool # reload[t].pool
        BY <1>1 DEF ConfInv, HasPool, Owned
    <2> QED BY <1>1, <2>1, ReadersSame DEF ConfInv
<1>9. VirtCopied'
    BY <1>1, <1>2, <1>3, VirtMoved DEF ConfInv, Ends
<1> QED BY <1>4, <1>5, <1>6, <1>7, <1>8, <1>9 DEF ConfInv

\* Conf_Reset deletes the pool in force under its holders, which are torn.
LEMMA ResetKeeps ==
    ASSUME ConfInv, NEW t \in Threads, Conf_Reset(t)
    PROVE  ConfInv'
<1>0. Conf_Data.virt \in SUBSET Virtual /\ Holders \subseteq Threads \cup Readers
    BY DEF ConfInv, DataTypeOK, Holders
<1>1. /\ reload[t].pc = "reset" /\ pools' = pools \ {Conf_Data.pool}
      /\ Conf_Data'.pool = NoPool /\ Conf_Data'.virt = {}
      /\ Conf_Data'.use_count = Conf_Data.use_count
      /\ Conf_Data' = [Conf_Data EXCEPT !.pool = NoPool, !.base = {}, !.virt = {}]
      /\ torn' = torn \cup Holders /\ UNCHANGED <<query, msgs>>
    BY DEF Conf_Reset, Pool_Delete, ConfInv, DataTypeOK
<1>2. reload' = [Outdated(Conf_Data.virt) EXCEPT ![t] = At("notify", "ok")]
    BY DEF Conf_Reset
<1>3. /\ Moved(t, "notify", NoPool)
      /\ \A u \in Threads : reload[u].pc = "swap" /\ u # t =>
                               Conf_Data.virt \subseteq reload'[u].missed
    <2>1. DataTypeOK /\ "ok" \in Statuses
        BY DEF ConfInv, Statuses
    <2> QED BY <1>0, <1>2, <2>1, OutdatedMoves
<1>4. DataTypeOK'
    BY <1>0, <1>1, <1>3 DEF ConfInv, DataTypeOK, Moved
<1>5. HasPool'
    BY <1>3, PoolMoved DEF ConfInv
<1>6. Owned'
    <2>1. reload[t].pool = NoPool
        BY <1>1 DEF ConfInv, HasPool
    <2>2. \A n \in Pools : n \in pools' <=>
              \/ Conf_Data'.pool = n
              \/ \E u \in Threads : reload'[u].pool = n
        BY <1>1, <1>3, <2>1 DEF ConfInv, Owned, Moved, Stays
    <2>3. \A u \in Threads : reload'[u].pool # NoPool =>
              /\ reload'[u].pool # Conf_Data'.pool
              /\ \A v \in Threads : v # u => reload'[v].pool # reload'[u].pool
        BY <1>1, <1>3, <2>1 DEF ConfInv, Owned, Moved, Stays
    <2> QED BY <2>2, <2>3 DEF Owned
<1>7. Counted'
    BY <1>1, <1>3, UsingSame DEF ConfInv, Counted, Moved, Stays
<1>8. ReaderKeepsPool'
    BY <1>1 DEF ConfInv, ReaderKeepsPool, Holders
<1>9. VirtCopied'
    <2> SUFFICES ASSUME NEW u \in Threads, reload'[u].pc = "swap",
                        reload'[u].status = "ok"
                 PROVE  SymDiff(Conf_Data'.virt, reload'[u].virt)
                            \subseteq reload'[u].missed
        BY DEF VirtCopied
    <2>1. u # t /\ Stays(u)
        BY <1>3 DEF Moved
    <2>2. SymDiff(Conf_Data.virt, Conf_Data'.virt) = Conf_Data.virt
        BY <1>1 DEF SymDiff
    <2> QED BY <1>3, <2>1, <2>2, VirtStays DEF ConfInv, Stays
<1> QED BY <1>4, <1>5, <1>6, <1>7, <1>8, <1>9 DEF ConfInv

\* Conf_Api_Query begins under the use count.
LEMMA QueryKeeps ==
    ASSUME ConfInv, NEW q \in Readers, Conf_Api_Query(q)
    PROVE  ConfInv'
<1>1. /\ query[q].pc = "idle" /\ query' \in [Readers -> QueryType]
      /\ query'[q].pc = "get" /\ \A p \in Readers : p # q => query'[p] = query[p]
      /\ Conf_Data'.pool = Conf_Data.pool /\ Conf_Data'.virt = Conf_Data.virt
      /\ Conf_Data' = [Conf_Data EXCEPT !.use_count = @ + 1]
      /\ Conf_Data'.use_count = Conf_Data.use_count + 1
      /\ UNCHANGED <<pools, reload, torn, msgs>>
    BY DEF Conf_Api_Query, ConfInv, DataTypeOK, QueryType
<1>2. Counted'
    <2>1. Using' = Using \cup {q} /\ q \notin Using
        BY <1>1, ThreadsAssumption DEF Using
    <2>2. Cardinality(Using') = Cardinality(Using) + 1
        BY <2>1, UsingFinite, FS_AddElement
    <2> QED BY <1>1, <2>2 DEF ConfInv, Counted
<1>3. DataTypeOK'
    BY <1>1, <1>2, UsingFiniteNext DEF ConfInv, DataTypeOK
<1>4. HasPool' /\ Owned' /\ VirtCopied'
    BY <1>1, OwnedSame DEF ConfInv, HasPool, VirtCopied
<1>5. ReaderKeepsPool'
    BY <1>1 DEF ConfInv, ReaderKeepsPool
<1> QED BY <1>2, <1>3, <1>4, <1>5 DEF ConfInv

\* Conf_GetEx points into the pool in force, which exists.
LEMMA GetExKeeps ==
    ASSUME ConfInv, NEW q \in Readers, Conf_GetEx(q)
    PROVE  ConfInv'
<1>1. /\ query[q].pc = "get" /\ query' \in [Readers -> QueryType]
      /\ query'[q].pc = "use" /\ query'[q].pool = Conf_Data.pool
      /\ \A p \in Readers : p # q => query'[p] = query[p]
      /\ Conf_Data.pool # NoPool
      /\ UNCHANGED <<Conf_Data, pools, reload, torn, msgs>>
    BY DEF Conf_GetEx, ConfInv, DataTypeOK, QueryType
<1>2. Counted'
    BY <1>1, UsingSame DEF ConfInv, Counted
<1>3. DataTypeOK'
    BY <1>1 DEF ConfInv, DataTypeOK
<1>4. HasPool' /\ Owned' /\ VirtCopied'
    BY <1>1, OwnedSame DEF ConfInv, HasPool, VirtCopied
<1>5. Conf_Data.pool \in pools
    BY <1>1 DEF ConfInv, Owned, DataTypeOK
<1>6. ReaderKeepsPool'
    BY <1>1, <1>5 DEF ConfInv, ReaderKeepsPool
<1> QED BY <1>2, <1>3, <1>4, <1>6 DEF ConfInv

\* A query ends, with its use of the configuration.
LEMMA ReleaseKeeps ==
    ASSUME ConfInv, NEW q \in Readers, Conf_Release(q)
    PROVE  ConfInv'
<1>1. /\ query[q].pc \in {"get", "use"} /\ query' \in [Readers -> QueryType]
      /\ query'[q].pc = "idle" /\ \A p \in Readers : p # q => query'[p] = query[p]
      /\ Conf_Data'.pool = Conf_Data.pool /\ Conf_Data'.virt = Conf_Data.virt
      /\ Conf_Data' = [Conf_Data EXCEPT !.use_count = @ - 1]
      /\ Conf_Data'.use_count = Conf_Data.use_count - 1
      /\ torn' = torn \ {q} /\ UNCHANGED <<pools, reload, msgs>>
    BY DEF Conf_Release, ConfInv, DataTypeOK, QueryType, NoQuery
<1>2. Counted'
    <2>1. Using' = Using \ {q} /\ q \in Using
        BY <1>1, ThreadsAssumption DEF Using
    <2>2. Cardinality(Using') = Cardinality(Using) - 1
        BY <2>1, UsingFinite, FS_RemoveElement
    <2> QED BY <1>1, <2>2 DEF ConfInv, Counted
<1>3. DataTypeOK'
    BY <1>1, <1>2, UsingFiniteNext DEF ConfInv, DataTypeOK
<1>4. HasPool' /\ Owned' /\ VirtCopied'
    BY <1>1, OwnedSame DEF ConfInv, HasPool, VirtCopied
<1>5. ReaderKeepsPool'
    BY <1>1 DEF ConfInv, ReaderKeepsPool
<1> QED BY <1>2, <1>3, <1>4, <1>5 DEF ConfInv

\* Conf_Api_Update changes one virtual section, of which every copy made before
\* is told.
LEMMA UpdateKeeps ==
    ASSUME ConfInv, NEW v \in Virtual, Conf_Api_Update(v)
    PROVE  ConfInv'
<1>0. Holders \subseteq Threads \cup Readers
    BY DEF Holders
<1>1. /\ Conf_Data'.pool = Conf_Data.pool
      /\ SymDiff(Conf_Data.virt, Conf_Data'.virt) \subseteq {v}
      /\ Conf_Data'.use_count = Conf_Data.use_count
      /\ Conf_Data' \in [pool : Pools \cup {NoPool}, base : SUBSET Items,
                         virt : SUBSET Virtual,
                         use_count : 0..Cardinality(Threads \cup Readers)]
    <2>1. CASE Conf_Data' = [Conf_Data EXCEPT !.virt = @ \cup {v}]
        BY <2>1 DEF ConfInv, DataTypeOK, SymDiff
    <2>2. CASE Conf_Data' = [Conf_Data EXCEPT !.virt = @ \ {v}, !.base = @ \ {v}]
        BY <2>2 DEF ConfInv, DataTypeOK, SymDiff
    <2> QED BY <2>1, <2>2 DEF Conf_Api_Update
<1>2. torn \subseteq torn' /\ torn' \subseteq torn \cup Holders
    BY DEF Conf_Api_Update
<1>3. reload' = Outdated({v}) /\ UNCHANGED <<pools, query, msgs>>
    BY DEF Conf_Api_Update
<1>4. /\ reload' \in [Threads -> ReloadType]
      /\ \A u \in Threads :
            Stays(u) /\ (reload[u].pc = "swap" => {v} \subseteq reload'[u].missed)
    <2>1. {v} \in SUBSET Virtual
        OBVIOUS
    <2> QED BY <1>3, <2>1, OutdatedFacts DEF ConfInv, Stays
<1>5. DataTypeOK'
    BY <1>0, <1>1, <1>2, <1>3, <1>4 DEF ConfInv, DataTypeOK
<1>6. HasPool'
    BY <1>4 DEF ConfInv, HasPool, Stays
<1>7. Owned'
    BY <1>1, <1>3, <1>4, OwnedSame DEF ConfInv, Stays
<1>8. Counted'
    BY <1>1, <1>3, <1>4, UsingSame DEF ConfInv, Counted, Stays
<1>9. ReaderKeepsPool'
    BY <1>1, <1>2, <1>3, ReadersSame DEF ConfInv
<1>10. VirtCopied'
    <2> SUFFICES ASSUME NEW u \in Threads, reload'[u].pc = "swap",
                        reload'[u].status = "ok"
                 PROVE  SymDiff(Conf_Data'.virt, reload'[u].virt)
                            \subseteq reload'[u].missed
        BY DEF VirtCopied
    <2> QED BY <1>1, <1>4, VirtStays DEF ConfInv
<1> QED BY <1>5, <1>6, <1>7, <1>8, <1>9, <1>10 DEF ConfInv

-----------------------------------------------------------------------------
(* The service with the driver *)

\* A request that is being saved has its settings in the cache.
HasCache == hnd.pc # "idle" => m_pSbieIni # NoCache

HndType == [pc : {"idle", "save", "reload"}, set : SUBSET Reqs, backup : SUBSET Items]

\* Steps of the service alone leave the driver's configuration as it is.
LEMMA ServiceKeeps ==
    ASSUME ConfInv, UNCHANGED <<Conf_Data, pools, reload, query, torn>>,
           msgs' \subseteq Threads
    PROVE  ConfInv'
<1>1. DataTypeOK' /\ HasPool' /\ VirtCopied'
    BY DEF ConfInv, DataTypeOK, HasPool, VirtCopied
<1>2. Owned' /\ ReaderKeepsPool'
    BY OwnedSame, ReadersSame DEF ConfInv
<1>3. Counted'
    BY UsingSame DEF ConfInv, Counted
<1> QED BY <1>1, <1>2, <1>3 DEF ConfInv

\* Every step keeps ConfInv.
LEMMA ConfStep == TypeOK /\ ConfInv /\ [Next]_vars => ConfInv'
<1> SUFFICES ASSUME TypeOK, ConfInv, [Next]_vars PROVE ConfInv'
    OBVIOUS
<1>0. msgs \subseteq Threads /\ file \subseteq Items /\ reload \in [Threads -> ReloadType]
    BY DEF TypeOK, ConfTypeOK, DataTypeOK
<1>1. CASE LoadFails \/ GetSetting \/ Save \/ SaveFails
    BY <1>0, <1>1, ServiceKeeps DEF LoadFails, GetSetting, Save, SaveFails, conf
<1>2. ASSUME NEW set, NEW clear, NEW refresh, Request(set, clear, refresh)
      PROVE  ConfInv'
    BY <1>0, <1>2, ServiceKeeps DEF Request, conf
<1>3. CASE \/ \E t \in msgs : NotifyConfigReloaded(t)
           \/ \E x \in Exts : Edit(x)
    BY <1>0, <1>3, ServiceKeeps DEF NotifyConfigReloaded, Edit
<1>4. CASE Finish
    <2>1. Moved(Svc, "idle", NoPool)
        BY <1>4, NoReloadFacts, SetMoves DEF Finish, ConfInv
    <2> QED BY <1>0, <1>4, <2>1, CallKeeps DEF Finish, Ends
<1>5. ASSUME NEW t \in Threads, Conf_OpenFails(t) PROVE ConfInv'
    <2>1. "notify" \in Ends /\ "error" \in Statuses
        BY DEF Ends, Statuses
    <2>2. At("notify", "error") \in ReloadType /\ At("notify", "error").pc = "notify"
          /\ At("notify", "error").pool = NoPool
        BY <2>1, AtFacts
    <2>3. Moved(t, At("notify", "error").pc, At("notify", "error").pool)
        BY <1>5, <2>2, SetMoves DEF Conf_OpenFails, ConfInv
    <2>4. Moved(t, "notify", NoPool)
        BY <2>2, <2>3
    <2> QED BY <1>0, <1>5, <2>4, CallKeeps DEF Conf_OpenFails, Ends
<1>6. ASSUME NEW t \in Threads, Reload(t) PROVE ConfInv'
    BY <1>0, <1>5, <1>6, ReadKeeps DEF Reload
<1>7. ASSUME NEW t \in Threads, ReloadEnds(t) PROVE ConfInv'
    <2> DEFINE r == IF t = Svc THEN At("done", reload[t].status) ELSE NoReload
    <2>1. reload[t].status \in Statuses /\ "done" \in Ends
        BY <1>0 DEF ReloadType, Statuses, Ends
    <2>2. r \in ReloadType /\ r.pc \in {"done", "idle"} /\ r.pool = NoPool
        BY <2>1, AtFacts, NoReloadFacts
    <2>3. reload' = [reload EXCEPT ![t] = r] /\ reload[t].pc = "notify"
          /\ UNCHANGED <<Conf_Data, pools, query, torn>> /\ msgs' \subseteq Threads
        BY <1>0, <1>7 DEF ReloadEnds, Conf_Notify
    <2> HIDE DEF r
    <2>4. Moved(t, r.pc, r.pool)
        BY <2>2, <2>3, SetMoves DEF ConfInv
    <2>5. r.pc \in Ends /\ reload[t].pc \in Ends /\ Moved(t, r.pc, NoPool)
        BY <2>2, <2>3, <2>4 DEF Ends
    <2> QED BY <2>3, <2>5, CallKeeps
<1>8. CASE OtherCall
    BY <1>8, QueryKeeps, UpdateKeeps DEF OtherCall
<1>9. CASE ConfNext
    BY <1>9, ImportKeeps, WalkKeeps, SwapKeeps, DiscardKeeps, ResetKeeps,
       GetExKeeps, ReleaseKeeps DEF ConfNext, ReloadStep
<1>10. CASE UNCHANGED vars
    BY <1>0, <1>10, ServiceKeeps DEF vars, conf
<1> QED BY <1>1, <1>2, <1>3, <1>4, <1>6, <1>7, <1>8, <1>9, <1>10 DEF Next

\* Every step keeps the types.
LEMMA TypeStep == TypeOK /\ HasCache /\ ConfInv /\ [Next]_vars => TypeOK'
<1> SUFFICES ASSUME TypeOK, HasCache, ConfInv, [Next]_vars PROVE TypeOK'
    OBVIOUS
<1>0. DataTypeOK'
    BY ConfStep DEF ConfInv
<1>a. Reqs \subseteq Items /\ Exts \subseteq Items
    BY ItemsAssumption
<1> USE BoundAssumption DEF TypeOK, ConfTypeOK
<1> DEFINE Rest == /\ file' \subseteq Items /\ m_pSbieIni' \in (SUBSET Items) \cup {NoCache}
                   /\ hnd' \in HndType /\ acked' \subseteq Reqs /\ unseen' \subseteq Exts
                   /\ loadFaults' \in 0..MaxLoadFaults
                   /\ saveFaults' \in 0..MaxSaveFaults /\ calls' \in 0..MaxCalls
<1>b. Rest => TypeOK'
    BY <1>0 DEF HndType
<1>c. hnd \in HndType
    BY DEF HndType
<1>d. Cached \in SUBSET Items
    BY DEF Cached
<1>1. CASE LoadFails
    BY <1>1, <1>b, <1>c DEF LoadFails, conf
<1>2. CASE GetSetting
    BY <1>2, <1>b, <1>c, <1>d DEF GetSetting, conf
<1>3. ASSUME NEW set \in SUBSET Reqs, NEW clear \in SUBSET Reqs, NEW refresh,
             Request(set, clear, refresh)
      PROVE  TypeOK'
    <2>1. hnd' \in HndType
        BY <1>3, <1>c DEF Request, NoRequest, HndType
    <2>2. m_pSbieIni' \in SUBSET Items
        BY <1>3, <1>a, <1>d DEF Request
    <2> QED BY <1>3, <1>b, <2>1, <2>2 DEF Request, conf, Call
<1>4. CASE Save \/ SaveFails
    <2>1. m_pSbieIni \subseteq Items
        BY <1>4 DEF Save, SaveFails, HasCache
    <2>2. hnd' \in HndType
        <3>1. NoRequest \in HndType
            BY DEF NoRequest, HndType
        <3>2. [hnd EXCEPT !.pc = "reload", !.backup = file] \in HndType
            BY <1>c DEF HndType
        <3> QED BY <1>4, <3>1, <3>2 DEF Save, SaveFails
    <2> QED BY <1>4, <1>b, <2>1, <2>2 DEF Save, SaveFails
<1>5. CASE Finish
    <2>1. hnd' \in HndType /\ hnd.backup \subseteq Items /\ hnd.set \subseteq Reqs
        BY <1>5, <1>c DEF Finish, NoRequest, HndType
    <2> QED BY <1>5, <1>b, <2>1, BoundAssumption DEF Finish, Restore
<1>6. ASSUME NEW t \in msgs, NotifyConfigReloaded(t) PROVE TypeOK'
    BY <1>6, <1>b, <1>c DEF NotifyConfigReloaded
<1>7. ASSUME NEW x \in Exts, Edit(x) PROVE TypeOK'
    BY <1>7, <1>a, <1>b, <1>c DEF Edit, Call
<1>8. ASSUME NEW t \in Threads, Reload(t) PROVE TypeOK'
    <2>1. UNCHANGED <<file, m_pSbieIni, hnd, acked, unseen, loadFaults, saveFaults>>
          /\ (UNCHANGED calls \/ Call)
        BY <1>8 DEF Reload, Conf_Read, Conf_OpenFails
    <2> QED BY <1>b, <1>c, <2>1 DEF Call
<1>9. CASE OtherCall
    <2>1. UNCHANGED <<file, m_pSbieIni, hnd, acked, unseen, loadFaults, saveFaults>>
          /\ Call
        BY <1>9 DEF OtherCall, Conf_Api_Query, Conf_Api_Update
    <2> QED BY <1>b, <1>c, <2>1 DEF Call
<1>10. CASE /\ ConfNext \/ \E t \in Threads : ReloadEnds(t)
            /\ UNCHANGED ini
    <2>1. UNCHANGED file
        BY <1>10 DEF ConfNext, ReloadStep, ReloadEnds, Conf_Notify, Conf_Import,
                     Conf_Walk, Conf_Swap, Conf_Discard, Conf_Reset, Conf_GetEx,
                     Conf_Release
    <2> QED BY <1>10, <1>b, <1>c, <2>1 DEF ini
<1>11. CASE UNCHANGED vars
    BY <1>11, <1>b, <1>c DEF vars, conf, ini
<1> QED BY <1>1, <1>2, <1>3, <1>4, <1>5, <1>6, <1>7, <1>8, <1>9, <1>10, <1>11
        DEF Next, ReloadEnds

\* The cache is not purged while a request is in the handler.
LEMMA HasCacheStep == TypeOK /\ HasCache /\ [Next]_vars => HasCache'
<1> SUFFICES ASSUME TypeOK, HasCache, [Next]_vars PROVE HasCache'
    OBVIOUS
<1>1. CASE LoadFails \/ GetSetting
    BY <1>1 DEF LoadFails, GetSetting, HasCache
<1>2. ASSUME NEW set \in SUBSET Reqs, NEW clear \in SUBSET Reqs, NEW refresh,
             Request(set, clear, refresh)
      PROVE  HasCache'
    <2>1. Cached \in SUBSET Items
        BY DEF Cached, TypeOK, ConfTypeOK
    <2>2. m_pSbieIni' \in SUBSET Items
        BY <1>2, <2>1, ItemsAssumption DEF Request
    <2> QED BY <2>2, CacheAssumption DEF HasCache
<1>3. CASE Save \/ SaveFails \/ Finish
    BY <1>3 DEF Save, SaveFails, Finish, NoRequest, HasCache
<1>4. ASSUME NEW t \in msgs, NotifyConfigReloaded(t) PROVE HasCache'
    BY <1>4 DEF NotifyConfigReloaded, HasCache
<1>5. CASE UNCHANGED <<hnd, m_pSbieIni>>
    BY <1>5 DEF HasCache
<1> QED BY <1>1, <1>2, <1>3, <1>4, <1>5
        DEF Next, Edit, Reload, ReloadEnds, OtherCall, vars, ini

\* The invariant of the service with the driver.
IniInv == TypeOK /\ HasCache /\ ConfInv

\* It holds when the driver has read the file.
LEMMA InitIni == Init => IniInv
<1> SUFFICES ASSUME Init PROVE IniInv
    OBVIOUS
<1> USE DEF Init, ConfInit
<1>1. 1 \in Pools
    <2>1. Cardinality(Threads) \in Nat /\ Cardinality(Readers) \in Nat
        BY ThreadsAssumption, FS_CardinalityType
    <2> QED BY <2>1 DEF Pools
<1>2. Using = {}
    BY DEF Using, NoReload, NoQuery
<1>3. Counted
    BY <1>2, FS_EmptySet DEF Counted
<1>4. Conf_Data.use_count \in 0 .. Cardinality(Threads \cup Readers)
    BY <1>3, UsingFinite DEF Counted
<1>5. DataTypeOK
    BY <1>1, <1>4 DEF DataTypeOK, NoReload, NoQuery, ReloadType, QueryType
<1>6. TypeOK
    BY <1>5, BoundAssumption DEF TypeOK, ConfTypeOK, NoRequest
<1>7. HasPool /\ ReaderKeepsPool /\ VirtCopied /\ HasCache
    BY DEF HasPool, ReaderKeepsPool, VirtCopied, HasCache, NoReload, NoQuery, NoRequest
<1>8. Owned
    BY <1>1 DEF Owned, NoReload
<1> QED BY <1>3, <1>5, <1>6, <1>7, <1>8 DEF IniInv, ConfInv

\* The invariant of the driver's and the service's part together.
LEMMA IniInvariant == Spec => []IniInv
<1>1. IniInv /\ [Next]_vars => IniInv'
    BY TypeStep, HasCacheStep, ConfStep DEF IniInv
<1> QED BY <1>1, InitIni, PTL DEF Spec

\* Whatever the order of reloads, swaps, discards and resets, no memory pool of
\* the configuration is leaked and none is freed twice.
THEOREM NoPoolLeaked == Spec => []PoolsAccounted
<1>1. IniInv => PoolsAccounted
    <2> SUFFICES ASSUME IniInv PROVE PoolsAccounted
        OBVIOUS
    <2>1. \A n : n \in pools <=>
                 n \in ({Conf_Data.pool} \cup {reload[t].pool : t \in Threads})
                        \ {NoPool}
        <3>1. \A n \in Pools : n # NoPool /\ (n \in pools <=>
                 \/ Conf_Data.pool = n \/ \E t \in Threads : reload[t].pool = n)
            BY DEF IniInv, ConfInv, Owned
        <3>2. pools \subseteq Pools /\ Conf_Data.pool \in Pools \cup {NoPool}
              /\ \A t \in Threads : reload[t].pool \in Pools \cup {NoPool}
            BY DEF IniInv, ConfInv, DataTypeOK, ReloadType
        <3> QED BY <3>1, <3>2
    <2>2. pools = ({Conf_Data.pool} \cup {reload[t].pool : t \in Threads}) \ {NoPool}
        BY <2>1
    <2> QED BY <2>2 DEF IniInv, ConfInv, Owned, PoolsAccounted
<1> QED BY <1>1, IniInvariant, PTL

\* A string that a query holds stays in a pool that exists, unless an update or
\* a reset tore it: the use count keeps Conf_Swap from deleting the pool.
THEOREM StringsKept == Spec => []ReaderKeepsPool
<1>1. IniInv => ReaderKeepsPool
    BY DEF IniInv, ConfInv
<1> QED BY <1>1, IniInvariant, PTL

\* A reload that swaps carries over the virtual sections in force, but for those
\* that were set or removed after it copied them.
THEOREM VirtualCarriedOver == Spec => VirtualSurvives
<1> DEFINE A == \A t \in Threads :
                   reload[t].pc = "swap" /\ reload'[t].pc = "notify"
                      /\ reload[t].status = "ok"
                   => SymDiff(Conf_Data.virt, Conf_Data'.virt) \subseteq
                         reload[t].missed
<1>1. IniInv /\ [Next]_vars => [A]_vars
    <2> SUFFICES ASSUME IniInv, Next, NEW t \in Threads, reload[t].pc = "swap",
                        reload'[t].pc = "notify", reload[t].status = "ok"
                 PROVE  SymDiff(Conf_Data.virt, Conf_Data'.virt) \subseteq
                           reload[t].missed
        OBVIOUS
    <2>1. CASE UNCHANGED Conf_Data
        BY <2>1 DEF SymDiff
    <2>2. CASE Conf_Swap(t)
        BY <2>2 DEF Conf_Swap, IniInv, ConfInv, VirtCopied
    <2>3. ASSUME NEW u \in Threads, Conf_Swap(u) \/ Conf_Reset(u), u # t
          PROVE  reload'[t].pc = "swap"
        <3>1. SymDiff(Conf_Data.virt, reload[u].virt) \in SUBSET Virtual
              /\ Conf_Data.virt \in SUBSET Virtual
            BY DEF IniInv, ConfInv, DataTypeOK, ReloadType, SymDiff
        <3> QED BY <2>3, <3>1, OutdatedFacts DEF Conf_Swap, Conf_Reset, IniInv, ConfInv
    <2>4. ASSUME NEW u \in Threads, Conf_Import(u) \/ Conf_Walk(u)
          PROVE  SymDiff(Conf_Data.virt, Conf_Data'.virt) \subseteq reload[t].missed
        BY <2>4 DEF Conf_Import, Conf_Walk, IniInv, ConfInv, DataTypeOK, SymDiff
    <2>5. ASSUME NEW q \in Readers, Conf_Api_Query(q) \/ Conf_Release(q)
          PROVE  SymDiff(Conf_Data.virt, Conf_Data'.virt) \subseteq reload[t].missed
        BY <2>5 DEF Conf_Api_Query, Conf_Release, IniInv, ConfInv, DataTypeOK, SymDiff
    <2>6. ASSUME NEW v \in Virtual, Conf_Api_Update(v)
          PROVE  reload'[t].pc = "swap"
        <3>1. {v} \in SUBSET Virtual
            OBVIOUS
        <3> QED BY <2>6, <3>1, OutdatedFacts DEF Conf_Api_Update, IniInv, ConfInv
    <2>7. ~Conf_Reset(t)
        BY DEF Conf_Reset
    <2> QED BY <2>1, <2>2, <2>3, <2>4, <2>5, <2>6, <2>7
            DEF Next, ConfNext, ReloadStep, LoadFails, GetSetting, Save, SaveFails,
                Finish, Request, NotifyConfigReloaded, Edit, Reload, Conf_Read,
                Conf_OpenFails, ReloadEnds, Conf_Notify, OtherCall, Conf_Discard,
                Conf_GetEx, conf
<1> QED BY <1>1, IniInvariant, PTL DEF Spec, VirtualSurvives

-----------------------------------------------------------------------------
(* The cache and the file *)

\* The file, and the backup that may be copied back over it, hold nothing that
\* the cache lacks, but what requests remove and edits unknown to the service.
Covered ==
    loadFaults = 0 /\ m_pSbieIni # NoCache =>
        /\ file \ Reqs \subseteq m_pSbieIni \cup unseen
        /\ hnd.pc = "reload" => hnd.backup \ Reqs \subseteq m_pSbieIni \cup unseen

\* Every step keeps Covered.
LEMMA CoveredStep == IniInv /\ Covered /\ [Next]_vars => Covered'
<1> SUFFICES ASSUME IniInv, Covered, [Next]_vars PROVE Covered'
    OBVIOUS
<1>0. loadFaults \in Nat /\ hnd \in HndType
    BY BoundAssumption DEF IniInv, TypeOK, HndType
<1> USE DEF Covered
<1>1. CASE LoadFails
    BY <1>0, <1>1 DEF LoadFails
<1>2. CASE GetSetting
    BY <1>2 DEF GetSetting, Cached, conf
<1>3. ASSUME NEW set \in SUBSET Reqs, NEW clear \in SUBSET Reqs, NEW refresh,
             Request(set, clear, refresh)
      PROVE  Covered'
    <2>1. hnd'.pc # "reload"
        BY <1>3 DEF Request, NoRequest
    <2>2. loadFaults = 0 => file \ Reqs \subseteq Cached \cup unseen
        BY DEF Cached
    <2> QED BY <1>3, <2>1, <2>2 DEF Request, conf
<1>4. CASE Save
    <2>1. hnd'.pc = "reload" /\ hnd'.backup = file
        BY <1>0, <1>4 DEF Save, HndType
    <2> QED BY <1>4, <2>1 DEF Save
<1>5. CASE SaveFails
    <2>1. CASE hnd' = NoRequest /\ UNCHANGED file
        BY <1>5, <2>1 DEF SaveFails, NoRequest
    <2>2. CASE /\ hnd' = [hnd EXCEPT !.pc = "reload", !.backup = file]
               /\ file' \in SUBSET (file \cup m_pSbieIni)
        <3>1. hnd'.pc = "reload" /\ hnd'.backup = file
            BY <1>0, <2>2 DEF HndType
        <3> QED BY <1>5, <2>2, <3>1 DEF SaveFails
    <2> QED BY <1>5, <2>1, <2>2 DEF SaveFails
<1>6. CASE Finish
    <2>1. /\ hnd'.pc = "idle" /\ file' \subseteq file \cup hnd.backup
          /\ hnd.pc = "reload"
        BY <1>6 DEF Finish, Restore, NoRequest
    <2> QED BY <1>6, <2>1 DEF Finish
<1>7. ASSUME NEW t \in msgs, NotifyConfigReloaded(t) PROVE Covered'
    BY <1>7 DEF NotifyConfigReloaded
<1>8. ASSUME NEW x \in Exts, Edit(x) PROVE Covered'
    BY <1>8 DEF Edit
<1>9. CASE UNCHANGED <<file, m_pSbieIni, hnd, unseen, loadFaults>>
    BY <1>9
<1> QED BY <1>1, <1>2, <1>3, <1>4, <1>5, <1>6, <1>7, <1>8, <1>9
        DEF Next, ConfNext, ReloadStep, Conf_Import, Conf_Walk, Conf_Swap,
            Conf_Discard, Conf_Reset, Conf_GetEx, Conf_Release, Reload, Conf_Read,
            Conf_OpenFails, ReloadEnds, Conf_Notify, OtherCall, Conf_Api_Query,
            Conf_Api_Update, vars, conf, ini

\* Saving the cache over the file loses nothing but what requests removed and
\* edits of which the service has not been told, if the file could be read.
THEOREM CacheCoversFile == Spec => []CacheCovers
<1>1. Init => Covered
    BY DEF Init, Covered
<1>2. Covered => CacheCovers
    BY DEF Covered, CacheCovers
<1> QED BY <1>1, <1>2, CoveredStep, IniInvariant, PTL DEF Spec

\* The settings that were acknowledged are in the file, in the cache and in the
\* backup; those of the request in the handler are in the cache, and after the
\* write in the file.
Saved ==
    loadFaults = 0 /\ saveFaults = 0 =>
        /\ acked \subseteq file
        /\ m_pSbieIni # NoCache => acked \subseteq m_pSbieIni
        /\ hnd.pc # "idle" => hnd.set \subseteq m_pSbieIni
        /\ hnd.pc = "reload" => hnd.set \subseteq file /\ acked \subseteq hnd.backup

\* Every step keeps Saved.
LEMMA SavedStep == IniInv /\ Saved /\ [Next]_vars => Saved'
<1> SUFFICES ASSUME IniInv, Saved, [Next]_vars PROVE Saved'
    OBVIOUS
<1>0. loadFaults \in Nat /\ saveFaults \in Nat /\ hnd \in HndType
    BY BoundAssumption DEF IniInv, TypeOK, HndType
<1> USE DEF Saved
<1>1. CASE LoadFails
    BY <1>0, <1>1 DEF LoadFails
<1>2. CASE GetSetting
    BY <1>2 DEF GetSetting, Cached, conf
<1>3. ASSUME NEW set \in SUBSET Reqs, NEW clear \in SUBSET Reqs, NEW refresh,
             set \cap clear = {}, Request(set, clear, refresh)
      PROVE  Saved'
    <2>1. /\ hnd.pc = "idle" /\ m_pSbieIni' = (Cached \ clear) \cup set
          /\ acked' = acked \ clear /\ UNCHANGED <<file, loadFaults, saveFaults>>
        BY <1>3 DEF Request, conf
    <2>2. \/ hnd' = hnd
          \/ hnd'.pc = "save" /\ hnd'.set = set
        BY <1>3 DEF Request, NoRequest
    <2>3. loadFaults = 0 /\ saveFaults = 0 => acked \subseteq Cached
        BY DEF Cached
    <2> QED BY <2>1, <2>2, <2>3
<1>4. CASE Save
    <2>1. hnd.pc = "save" /\ hnd'.set = hnd.set /\ hnd'.backup = file
        BY <1>0, <1>4 DEF Save, HndType
    <2>2. m_pSbieIni # NoCache
        BY <2>1 DEF IniInv, HasCache
    <2> QED BY <1>4, <2>1, <2>2 DEF Save
<1>5. CASE SaveFails
    BY <1>0, <1>5 DEF SaveFails
<1>6. CASE Finish
    <2>1. /\ hnd.pc = "reload" /\ hnd'.pc = "idle"
          /\ UNCHANGED <<m_pSbieIni, loadFaults>>
          /\ \/ acked' = acked \cup hnd.set /\ file' = file
             \/ acked' = acked /\ file' \in {file, hnd.backup}
             \/ saveFaults' = saveFaults + 1
          /\ saveFaults' \in {saveFaults, saveFaults + 1}
        BY <1>6 DEF Finish, Restore, NoRequest
    <2> QED BY <1>0, <2>1
<1>7. ASSUME NEW t \in msgs, NotifyConfigReloaded(t) PROVE Saved'
    BY <1>7 DEF NotifyConfigReloaded
<1>8. ASSUME NEW x \in Exts, Edit(x) PROVE Saved'
    BY <1>8 DEF Edit
<1>9. CASE UNCHANGED <<file, m_pSbieIni, hnd, acked, loadFaults, saveFaults>>
    BY <1>9
<1> QED BY <1>1, <1>2, <1>3, <1>4, <1>5, <1>6, <1>7, <1>8, <1>9
        DEF Next, ConfNext, ReloadStep, Conf_Import, Conf_Walk, Conf_Swap,
            Conf_Discard, Conf_Reset, Conf_GetEx, Conf_Release, Reload, Conf_Read,
            Conf_OpenFails, ReloadEnds, Conf_Notify, OtherCall, Conf_Api_Query,
            Conf_Api_Update, vars, conf, ini

\* A setting whose addition was acknowledged is in the file until a request
\* removes it, through edits, reloads by others and requests whose reload fails
\* and copies the backup back, as long as files can be read and written.
THEOREM AcknowledgedIsSaved == Spec => []AckedIsSaved
<1>1. Init => Saved
    BY DEF Init, ConfInit, Saved, NoRequest
<1>2. Saved => AckedIsSaved
    BY DEF Saved, AckedIsSaved
<1> QED BY <1>1, <1>2, SavedStep, IniInvariant, PTL DEF Spec
=============================================================================
