-------------------------- MODULE HiveMountProofs --------------------------
(***************************************************************************)
(* For any number of processes, boxes and threads of the service: the      *)
(* count of a mount is the number of its users, one process at a time      *)
(* loads a hive, and a hive is not unloaded under a process that came to   *)
(* it before it was handed out.                                            *)
(***************************************************************************)
EXTENDS HiveMount, FiniteSetTheorems, TLAPS

USE BoxAssumption, ProcsAssumption, BoundAssumption

-----------------------------------------------------------------------------
(* The inductive invariant of the counts *)

\* A process that was created has a box; a message has one, and a thread that
\* unloads has a hive and an attempt left.
Placed ==
    /\ \A p \in Procs : proc[p].pc # "none" => proc[p].box \in Boxes
    /\ \A w \in Workers :
          /\ work[w].pc \in {"check", "get"} =>
                work[w].box \in Boxes /\ work[w].retries = 0
          /\ work[w].pc \in {"unload", "reopen"} =>
                work[w].hive \in Boxes /\ work[w].retries < MaxRetries

\* The count of each mount is the number of its users.
Counted == \A b \in Boxes : Key_Mounts[b].ref_count = Cardinality(Users(b))

CountInv == TypeOK /\ Placed /\ Counted

\* The places a process can be at.
ProcPlaces == {"none", "ready", "open", "query", "mounted", "failed", "run", "end",
               "leaving", "gone"}

\* What Goto changes: the place of one process.
LEMMA GotoFacts ==
    ASSUME TypeOK, NEW p \in Procs, NEW at \in ProcPlaces, Goto(p, at)
    PROVE  /\ proc' \in [Procs -> ProcType]
           /\ proc'[p].pc = at /\ proc'[p].box = proc[p].box
           /\ \A q \in Procs : q # p => proc'[q] = proc[q]
BY DEF TypeOK, ProcType, ProcPlaces, Goto

\* A process ends.
LEMMA EndFacts ==
    ASSUME TypeOK, NEW p \in Procs, proc' = [proc EXCEPT ![p] = NoProc]
    PROVE  /\ proc' \in [Procs -> ProcType] /\ proc'[p].pc = "none"
           /\ \A q \in Procs : q # p => proc'[q] = proc[q]
BY DEF TypeOK, ProcType, NoProc

\* What To changes: the place of one thread of the service.
LEMMA ToFacts ==
    ASSUME TypeOK, NEW w \in Workers, NEW at \in {"get", "release", "reopen"},
           To(w, at)
    PROVE  /\ work' \in [Workers -> WorkType] /\ work'[w].pc = at
           /\ work'[w].box = work[w].box /\ work'[w].hive = work[w].hive
           /\ work'[w].retries = work[w].retries
           /\ \A v \in Workers : v # w => work'[v] = work[v]
BY DEF TypeOK, WorkType, To

\* A thread of the service is done with its message.
LEMMA DoneFacts ==
    ASSUME TypeOK, NEW w \in Workers, work' = [work EXCEPT ![w] = NoWork]
    PROVE  /\ work' \in [Workers -> WorkType] /\ work'[w].pc = "idle"
           /\ \A v \in Workers : v # w => work'[v] = work[v]
BY DEF TypeOK, WorkType, NoWork

\* The users of a mount and the processes that load it are finitely many.
LEMMA FinitelyMany ==
    ASSUME NEW b \in Boxes
    PROVE  /\ IsFiniteSet(Users(b)) /\ IsFiniteSet(Loaders(b))
           /\ Cardinality(Users(b)) \in 0 .. Cardinality(Procs)
           /\ Cardinality(Loaders(b)) \in Nat
<1>1. Users(b) \in SUBSET Procs /\ Loaders(b) \in SUBSET Procs
    BY DEF Users, Loaders
<1>2. Cardinality(Procs) \in Nat
    BY FS_CardinalityType
<1>3. /\ IsFiniteSet(Users(b)) /\ Cardinality(Users(b)) <= Cardinality(Procs)
      /\ IsFiniteSet(Loaders(b))
    BY <1>1, FS_Subset
<1>4. Cardinality(Users(b)) \in Nat /\ Cardinality(Loaders(b)) \in Nat
    BY <1>3, FS_CardinalityType
<1> QED BY <1>2, <1>3, <1>4

\* The same in the next state.
LEMMA FinitelyManyNext ==
    ASSUME NEW b \in Boxes
    PROVE  /\ IsFiniteSet(Users(b)') /\ IsFiniteSet(Loaders(b)')
           /\ Cardinality(Users(b)') \in 0 .. Cardinality(Procs)
           /\ Cardinality(Loaders(b)') \in Nat
<1>1. Users(b)' \in SUBSET Procs /\ Loaders(b)' \in SUBSET Procs
    BY DEF Users, Loaders
<1>2. Cardinality(Procs) \in Nat
    BY FS_CardinalityType
<1>3. /\ IsFiniteSet(Users(b)') /\ Cardinality(Users(b)') <= Cardinality(Procs)
      /\ IsFiniteSet(Loaders(b)')
    BY <1>1, FS_Subset
<1>4. Cardinality(Users(b)') \in Nat /\ Cardinality(Loaders(b)') \in Nat
    BY <1>3, FS_CardinalityType
<1> QED BY <1>2, <1>3, <1>4

\* Join adds one user to the mount of the process and one to its count.
LEMMA JoinCounts ==
    ASSUME CountInv, NEW p \in Procs, proc[p].pc \in {"ready", "mounted"}, Join(p)
    PROVE  Counted'
<1> SUFFICES ASSUME NEW b \in Boxes
             PROVE  Key_Mounts'[b].ref_count = Cardinality(Users(b)')
    BY DEF Counted
<1>1. proc[p].box \in Boxes
    BY DEF CountInv, Placed
<1>2. CASE b = proc[p].box
    <2>1. Users(b)' = Users(b) \cup {p} /\ p \notin Users(b)
        BY <1>2 DEF CountInv, TypeOK, ProcType, Users, Join, Goto
    <2>2. Cardinality(Users(b)') = Cardinality(Users(b)) + 1
        BY <2>1, FinitelyMany, FS_AddElement
    <2>3. Key_Mounts'[b].ref_count = Key_Mounts[b].ref_count + 1
        BY <1>2 DEF CountInv, TypeOK, Join
    <2> QED BY <2>2, <2>3 DEF CountInv, Counted
<1>3. CASE b # proc[p].box
    <2>1. Users(b)' = Users(b)
        BY <1>3 DEF CountInv, TypeOK, ProcType, Users, Join, Goto
    <2>2. Key_Mounts'[b].ref_count = Key_Mounts[b].ref_count
        BY <1>1, <1>3 DEF CountInv, TypeOK, Join
    <2> QED BY <2>1, <2>2 DEF CountInv, Counted
<1> QED BY <1>2, <1>3

\* Key_UnmountHive takes one user from the mount and one from its count.
LEMMA UnmountCounts ==
    ASSUME CountInv, NEW p \in Procs, Key_UnmountHive(p)
    PROVE  Counted'
<1> SUFFICES ASSUME NEW b \in Boxes
             PROVE  Key_Mounts'[b].ref_count = Cardinality(Users(b)')
    BY DEF Counted
<1>1. proc[p].box \in Boxes /\ proc[p].pc = "leaving"
    BY DEF CountInv, Placed, Key_UnmountHive
<1>2. CASE b = proc[p].box
    <2>1. Users(b)' = Users(b) \ {p} /\ p \in Users(b)
        BY <1>1, <1>2 DEF CountInv, TypeOK, ProcType, Users, Key_UnmountHive, Goto
    <2>2. Cardinality(Users(b)') = Cardinality(Users(b)) - 1
        BY <2>1, FinitelyMany, FS_RemoveElement
    <2>3. Key_Mounts'[b].ref_count = Key_Mounts[b].ref_count - 1
        BY <1>2 DEF CountInv, TypeOK, Key_UnmountHive
    <2> QED BY <2>2, <2>3 DEF CountInv, Counted
<1>3. CASE b # proc[p].box
    <2>1. Users(b)' = Users(b)
        BY <1>3 DEF CountInv, TypeOK, ProcType, Users, Key_UnmountHive, Goto
    <2>2. Key_Mounts'[b].ref_count = Key_Mounts[b].ref_count
        BY <1>1, <1>3 DEF CountInv, TypeOK, Key_UnmountHive
    <2> QED BY <2>1, <2>2 DEF CountInv, Counted
<1> QED BY <1>2, <1>3

\* A step that leaves the users and the counts alone keeps Counted.
LEMMA SameCounts ==
    ASSUME CountInv,
           \A b \in Boxes : /\ Users(b)' = Users(b)
                            /\ Key_Mounts'[b].ref_count = Key_Mounts[b].ref_count
    PROVE  Counted'
BY DEF CountInv, Counted

\* A process that goes on inside or outside the places of the users changes
\* no set of users.
LEMMA GotoUsers ==
    ASSUME TypeOK, NEW p \in Procs, NEW at, Goto(p, at), NEW b,
           at \in {"run", "leaving"} <=> proc[p].pc \in {"run", "leaving"}
    PROVE  Users(b)' = Users(b)
<1>1. proc' = [proc EXCEPT ![p].pc = at]
    BY DEF Goto
<1>2. \A q \in Procs : q \in Users(b)' <=> q \in Users(b)
    BY <1>1 DEF TypeOK, ProcType, Users
<1> QED BY <1>2 DEF Users

\* Every step keeps Counted.
LEMMA CountedStep == CountInv /\ [Next]_vars => Counted'
<1> SUFFICES ASSUME CountInv, [Next]_vars PROVE Counted'
    OBVIOUS
<1> USE DEF CountInv, TypeOK
<1>1. ASSUME NEW p \in Procs, NEW b \in Boxes, Create(p, b) PROVE Counted'
    BY <1>1, SameCounts DEF Create, Users
<1>2. ASSUME NEW p \in Procs, Key_MountHive(p) PROVE Counted'
    <2>1. CASE Join(p)
        BY <1>2, <2>1, JoinCounts DEF Key_MountHive
    <2>2. CASE ~Join(p)
        <3>1. \A b \in Boxes : Users(b)' = Users(b)
            BY <1>2, <2>2, GotoUsers DEF Key_MountHive
        <3>2. \A b \in Boxes : Key_Mounts'[b].ref_count = Key_Mounts[b].ref_count
            BY <1>2, <2>2 DEF Key_MountHive
        <3> QED BY <3>1, <3>2, SameCounts
    <2> QED BY <2>1, <2>2
<1>3. ASSUME NEW p \in Procs, Key_MountHive2(p) \/ QueryHivelist(p) PROVE Counted'
    <2>1. \A b \in Boxes : Users(b)' = Users(b)
        BY <1>3, GotoUsers DEF Key_MountHive2, QueryHivelist
    <2> QED BY <1>3, <2>1, SameCounts DEF Key_MountHive2, QueryHivelist
<1>4. ASSUME NEW p \in Procs, MountDone(p) PROVE Counted'
    <2>1. CASE proc[p].pc = "mounted" /\ Join(p)
        BY <2>1, JoinCounts
    <2>2. CASE proc[p].pc = "failed"
        <3>1. \A b \in Boxes : Users(b)' = Users(b)
            BY <1>4, <2>2, GotoUsers DEF MountDone
        <3>2. \A b \in Boxes : Key_Mounts'[b].ref_count = Key_Mounts[b].ref_count
            BY <1>4, <2>2 DEF MountDone
        <3> QED BY <3>1, <3>2, SameCounts
    <2> QED BY <1>4, <2>1, <2>2 DEF MountDone
<1>5. ASSUME NEW p \in Procs, OpenKey(p) PROVE Counted'
    BY <1>5, SameCounts DEF OpenKey, Users
<1>6. ASSUME NEW p \in Procs, Process_Delete(p) \/ Vanish(p) PROVE Counted'
    <2>1. \A b \in Boxes : Users(b)' = Users(b)
        <3>1. CASE proc' = [proc EXCEPT ![p] = NoProc]
            BY <1>6, <3>1 DEF Process_Delete, Vanish, Goto, Users, NoProc
        <3>2. CASE proc[p].pc = "run" /\ Goto(p, "leaving")
            BY <3>2, GotoUsers
        <3> QED BY <1>6, <3>1, <3>2 DEF Process_Delete, Vanish
    <2> QED BY <1>6, <2>1, SameCounts DEF Process_Delete, Vanish
<1>7. ASSUME NEW p \in Procs, Key_UnmountHive(p) PROVE Counted'
    BY <1>7, UnmountCounts
<1>8. ASSUME NEW w \in Workers, WorkStep(w) PROVE Counted'
    <2>1. \A b \in Boxes : Users(b)' = Users(b)
        BY <1>8 DEF WorkStep, Receive, EnumProcess, GetUnmountHive, NtUnloadKey,
                    NtOpenKey, ReleaseBoxRoot, Users
    <2>2. \A b \in Boxes : Key_Mounts'[b].ref_count = Key_Mounts[b].ref_count
        <3>1. CASE GetUnmountHive(w)
            BY <3>1 DEF GetUnmountHive
        <3>2. CASE ~GetUnmountHive(w)
            BY <1>8, <3>2 DEF WorkStep, Receive, EnumProcess, NtUnloadKey,
                              NtOpenKey, ReleaseBoxRoot
        <3> QED BY <3>1, <3>2
    <2> QED BY <2>1, <2>2, SameCounts
<1>9. CASE UNCHANGED vars
    BY <1>9, SameCounts DEF vars, Users
<1> QED BY <1>1, <1>2, <1>3, <1>4, <1>5, <1>6, <1>7, <1>8, <1>9 DEF Next, ProcStep

\* Key_Mounts keeps its type in every step: a count stays within its bound
\* because it is the number of the users.
LEMMA MountsType == CountInv /\ [Next]_vars =>
    Key_Mounts' \in [Boxes -> [ref_count : 0 .. Cardinality(Procs),
                               flags : SUBSET {"busy", "pending"}]]
<1> SUFFICES ASSUME CountInv, [Next]_vars
             PROVE  Key_Mounts' \in [Boxes -> [ref_count : 0 .. Cardinality(Procs),
                                               flags : SUBSET {"busy", "pending"}]]
    OBVIOUS
<1> USE DEF CountInv, TypeOK
<1> DEFINE Mount == [ref_count : Int, flags : SUBSET {"busy", "pending"}]
<1>a. Cardinality(Procs) \in Nat
    BY FS_CardinalityType
<1>b. Key_Mounts \in [Boxes -> Mount]
    BY <1>a
<1>1. Key_Mounts' \in [Boxes -> Mount]
    <2> HIDE DEF TypeOK
    <2>1. ASSUME NEW p \in Procs, Key_MountHive(p) \/ MountDone(p)
          PROVE  Key_Mounts' \in [Boxes -> Mount]
        BY <2>1, <1>b DEF Key_MountHive, MountDone, Join
    <2>2. ASSUME NEW p \in Procs, Key_UnmountHive(p)
          PROVE  Key_Mounts' \in [Boxes -> Mount]
        <3> DEFINE mount == Key_Mounts[proc[p].box]
                   less == [ref_count |-> mount.ref_count - 1,
                            flags |-> IF mount.ref_count = 1
                                      THEN mount.flags \cup {"pending"}
                                      ELSE mount.flags]
        <3>1. proc[p].box \in Boxes
            BY <2>2 DEF Placed, Key_UnmountHive
        <3>2. less \in Mount
            BY <1>b, <3>1
        <3>3. Key_Mounts' = [Key_Mounts EXCEPT ![proc[p].box] = less]
            BY <2>2 DEF Key_UnmountHive
        <3> QED BY <1>b, <3>1, <3>2, <3>3
    <2>3. ASSUME NEW w \in Workers, GetUnmountHive(w)
          PROVE  Key_Mounts' \in [Boxes -> Mount]
        BY <2>3, <1>b DEF GetUnmountHive
    <2>4. CASE UNCHANGED Key_Mounts
        BY <2>4, <1>b
    <2> QED BY <2>1, <2>2, <2>3, <2>4
            DEF Next, ProcStep, WorkStep, Create, Key_MountHive2, QueryHivelist,
                OpenKey, Process_Delete, Vanish, Receive, EnumProcess,
                NtUnloadKey, NtOpenKey, ReleaseBoxRoot, vars
<1>2. \A b \in Boxes : Key_Mounts'[b].ref_count \in 0 .. Cardinality(Procs)
    BY CountedStep, FinitelyManyNext DEF Counted
<1> QED BY <1>1, <1>2

\* Every step keeps the types.
LEMMA TypeStep == CountInv /\ [Next]_vars => TypeOK'
<1> SUFFICES ASSUME CountInv, [Next]_vars PROVE TypeOK'
    OBVIOUS
<1>0. Key_Mounts' \in [Boxes -> [ref_count : 0 .. Cardinality(Procs),
                                 flags : SUBSET {"busy", "pending"}]]
    BY MountsType
<1> USE DEF CountInv
<1>1. ASSUME NEW p \in Procs, NEW b \in Boxes, Create(p, b) PROVE TypeOK'
    <2>1. proc' \in [Procs -> ProcType]
        BY <1>1 DEF Create, TypeOK, ProcType
    <2> QED BY <1>0, <1>1, <2>1 DEF Create, TypeOK
<1>2. ASSUME NEW p \in Procs, Key_MountHive(p) \/ MountDone(p) PROVE TypeOK'
    <2>1. proc' \in [Procs -> ProcType]
        BY <1>2, GotoFacts DEF Key_MountHive, MountDone, Join, ProcPlaces
    <2> QED BY <1>0, <1>2, <2>1 DEF Key_MountHive, MountDone, Join, TypeOK
<1>3. ASSUME NEW p \in Procs, Key_MountHive2(p) PROVE TypeOK'
    <2>1. proc' \in [Procs -> ProcType]
        BY <1>3, GotoFacts DEF Key_MountHive2, ProcPlaces
    <2> QED BY <1>0, <1>3, <2>1 DEF Key_MountHive2, Placed, TypeOK
<1>4. ASSUME NEW p \in Procs, QueryHivelist(p) PROVE TypeOK'
    <2>1. proc' \in [Procs -> ProcType]
        BY <1>4, GotoFacts DEF QueryHivelist, ProcPlaces
    <2> QED BY <1>0, <1>4, <2>1 DEF QueryHivelist, TypeOK
<1>5. ASSUME NEW p \in Procs, OpenKey(p) PROVE TypeOK'
    BY <1>0, <1>5 DEF OpenKey, TypeOK
<1>6. ASSUME NEW p \in Procs, Process_Delete(p) \/ Vanish(p) PROVE TypeOK'
    <2>1. proc' \in [Procs -> ProcType]
        BY <1>6, GotoFacts, EndFacts DEF Process_Delete, Vanish, ProcPlaces
    <2> QED BY <1>0, <1>6, <2>1 DEF Process_Delete, Vanish, TypeOK
<1>7. ASSUME NEW p \in Procs, Key_UnmountHive(p) PROVE TypeOK'
    <2>1. proc' \in [Procs -> ProcType]
        BY <1>7, GotoFacts DEF Key_UnmountHive, ProcPlaces
    <2>2. msgs' \in [Boxes -> Nat] /\ dropped' \in Nat
        BY <1>7 DEF Key_UnmountHive, TypeOK
    <2> QED BY <1>0, <1>7, <2>1, <2>2 DEF Key_UnmountHive, TypeOK
<1>8. ASSUME NEW w \in Workers, WorkStep(w) PROVE TypeOK'
    <2>1. ASSUME NEW b \in Boxes, Receive(w, b) PROVE TypeOK'
        <3>1. work' \in [Workers -> WorkType]
            <4>1. NoWork \in WorkType
                BY DEF NoWork, WorkType
            <4>2. [NoWork EXCEPT !.pc = "check", !.box = b] \in WorkType
                BY <4>1 DEF WorkType
            <4> QED BY <2>1, <4>2 DEF Receive, TypeOK
        <3> QED BY <1>0, <2>1, <3>1 DEF Receive, TypeOK
    <2>2. CASE EnumProcess(w) \/ ReleaseBoxRoot(w)
        <3>1. work' \in [Workers -> WorkType]
            BY <2>2, ToFacts, DoneFacts DEF EnumProcess, ReleaseBoxRoot
        <3> QED BY <1>0, <2>2, <3>1 DEF EnumProcess, ReleaseBoxRoot, TypeOK
    <2>3. CASE GetUnmountHive(w)
        <3>1. work' \in [Workers -> WorkType]
            <4>1. ASSUME NEW b \in Boxes
                  PROVE  [work EXCEPT ![w].pc = "unload", ![w].hive = b]
                            \in [Workers -> WorkType]
                BY DEF TypeOK, WorkType
            <4> QED BY <2>3, <4>1, DoneFacts DEF GetUnmountHive
        <3> QED BY <1>0, <2>3, <3>1 DEF GetUnmountHive, TypeOK
    <2>4. CASE NtUnloadKey(w)
        <3>1. work' \in [Workers -> WorkType]
            BY <2>4, ToFacts DEF NtUnloadKey
        <3> QED BY <1>0, <2>4, <3>1 DEF NtUnloadKey, TypeOK
    <2>5. CASE NtOpenKey(w)
        <3>1. work[w].retries + 1 \in 0 .. MaxRetries
            BY <2>5 DEF NtOpenKey, Placed, TypeOK, WorkType
        <3>2. work' \in [Workers -> WorkType]
            BY <2>5, <3>1, DoneFacts DEF NtOpenKey, TypeOK, WorkType
        <3> QED BY <1>0, <2>5, <3>2 DEF NtOpenKey, TypeOK
    <2> QED BY <1>8, <2>1, <2>2, <2>3, <2>4, <2>5 DEF WorkStep
<1>9. CASE UNCHANGED vars
    BY <1>9 DEF vars, TypeOK
<1> QED BY <1>1, <1>2, <1>3, <1>4, <1>5, <1>6, <1>7, <1>8, <1>9 DEF Next, ProcStep

\* Every step keeps Placed.
LEMMA PlacedStep == CountInv /\ [Next]_vars => Placed'
<1> SUFFICES ASSUME CountInv, [Next]_vars PROVE Placed'
    OBVIOUS
<1> USE DEF CountInv, Placed
<1>1. ASSUME NEW p \in Procs, NEW b \in Boxes, Create(p, b) PROVE Placed'
    BY <1>1 DEF Create, TypeOK, ProcType
<1>2. ASSUME NEW p \in Procs, NEW at \in ProcPlaces, Goto(p, at),
             proc[p].pc # "none", UNCHANGED work
      PROVE  Placed'
    BY <1>2, GotoFacts
<1>3. ASSUME NEW p \in Procs, proc' = [proc EXCEPT ![p] = NoProc], UNCHANGED work
      PROVE  Placed'
    BY <1>3, EndFacts
<1>4. ASSUME NEW p \in Procs, ProcStep(p) \/ OpenKey(p) \/ Process_Delete(p)
      PROVE  Placed'
    BY <1>2, <1>3, <1>4
       DEF ProcStep, Key_MountHive, Join, Key_MountHive2, QueryHivelist, MountDone,
           Key_UnmountHive, Vanish, OpenKey, Process_Delete, ProcPlaces
<1>5. ASSUME NEW w \in Workers, WorkStep(w) PROVE Placed'
    <2>1. ASSUME NEW b \in Boxes, Receive(w, b) PROVE Placed'
        BY <2>1 DEF Receive, NoWork, TypeOK
    <2>2. CASE work' = [work EXCEPT ![w] = NoWork] /\ UNCHANGED proc
        BY <2>2, DoneFacts
    <2>3. CASE EnumProcess(w) /\ To(w, "get")
        BY <2>3, ToFacts DEF EnumProcess
    <2>4. CASE GetUnmountHive(w)
        BY <2>2, <2>4 DEF GetUnmountHive, TypeOK, WorkType
    <2>5. CASE NtUnloadKey(w)
        BY <2>5, ToFacts DEF NtUnloadKey
    <2>6. CASE NtOpenKey(w)
        BY <2>2, <2>6 DEF NtOpenKey, TypeOK, WorkType
    <2> QED BY <1>5, <2>1, <2>2, <2>3, <2>4, <2>5, <2>6
            DEF WorkStep, EnumProcess, ReleaseBoxRoot
<1>6. CASE UNCHANGED vars
    BY <1>6 DEF vars
<1> QED BY <1>1, <1>4, <1>5, <1>6 DEF Next

\* CountInv holds initially, where no process runs.
LEMMA InitCounts == Init => CountInv
<1> SUFFICES ASSUME Init PROVE CountInv
    OBVIOUS
<1>1. Cardinality(Procs) \in Nat
    BY FS_CardinalityType
<1>2. TypeOK
    BY <1>1 DEF Init, TypeOK, ProcType, WorkType, NoProc, NoWork
<1>3. Placed
    BY DEF Init, Placed, NoProc, NoWork
<1>4. \A b \in Boxes : Users(b) = {}
    BY DEF Init, Users, NoProc
<1>5. Counted
    BY <1>4, FS_EmptySet DEF Init, Counted
<1> QED BY <1>2, <1>3, <1>5 DEF CountInv

\* CountInv is an invariant.
LEMMA CountInvariant == Spec => []CountInv
<1>1. CountInv /\ [Next]_vars => CountInv'
    BY TypeStep, PlacedStep, CountedStep DEF CountInv
<1> QED BY <1>1, InitCounts, PTL DEF Spec

\* The count that Key_MountHive and Key_UnmountHive keep for a mount is the
\* number of processes that use it, whatever fails and whoever ends.
THEOREM CountIsUsers == Spec => []RefCountIsUsers
<1>1. CountInv => RefCountIsUsers
    BY DEF CountInv, Counted, RefCountIsUsers
<1> QED BY <1>1, CountInvariant, PTL

-----------------------------------------------------------------------------
(* One process loads a hive *)

\* The busy flag of a mount decides, while other steps go on, whether a
\* process is inside Key_MountHive2 for it.
LEMMA LoaderStep == CountInv /\ OneLoader /\ [Next]_vars => OneLoader'
<1> SUFFICES ASSUME CountInv, OneLoader, [Next]_vars, NEW b \in Boxes
             PROVE  Cardinality(Loaders(b)') =
                        IF "busy" \in Key_Mounts'[b].flags THEN 1 ELSE 0
    BY DEF OneLoader
<1> DEFINE Goal == Cardinality(Loaders(b)') =
                        IF "busy" \in Key_Mounts'[b].flags THEN 1 ELSE 0
           Same == /\ Loaders(b)' = Loaders(b)
                   /\ "busy" \in Key_Mounts'[b].flags <=> "busy" \in Key_Mounts[b].flags
<1>a. Same => Goal
    BY DEF OneLoader
<1>b. "busy" \notin Key_Mounts[b].flags => Loaders(b) = {}
    BY FinitelyMany, FS_EmptySet DEF OneLoader
<1>c. \A p \in Loaders(b) : "busy" \in Key_Mounts[b].flags /\ Loaders(b) = {p}
    BY <1>b, FinitelyMany, FS_Singleton DEF OneLoader
<1>d. Loaders(b)' = {} => Cardinality(Loaders(b)') = 0
    BY FS_EmptySet
<1>e. \A p : Loaders(b)' = {p} => Cardinality(Loaders(b)') = 1
    BY FS_Singleton
<1> HIDE DEF Goal, Same
<1> USE DEF CountInv
<1>1. ASSUME NEW p \in Procs, NEW c \in Boxes, Create(p, c) PROVE Goal
    BY <1>1, <1>a DEF Create, Loaders, Same, TypeOK, ProcType
<1>2. ASSUME NEW p \in Procs, Key_MountHive(p) PROVE Goal
    <2>0. proc[p].box \in Boxes
        BY <1>2 DEF Placed, Key_MountHive
    <2>1. CASE b # proc[p].box
        <3>1. Loaders(b)' = Loaders(b)
            BY <1>2, <2>1, GotoFacts DEF Key_MountHive, Join, ProcPlaces, Loaders
        <3>2. Key_Mounts'[b] = Key_Mounts[b]
            BY <1>2, <2>0, <2>1 DEF Key_MountHive, Join, TypeOK
        <3> QED BY <3>1, <3>2, <1>a DEF Same
    <2>2. CASE b = proc[p].box
        <3>1. Loaders(b) = {} /\ "busy" \notin Key_Mounts[b].flags
            BY <1>2, <2>2, <1>b DEF Key_MountHive
        <3>2. CASE Join(p) \/ (Goto(p, "end") /\ UNCHANGED Key_Mounts)
            <4>1. Loaders(b)' = {}
                BY <3>1, <3>2, GotoFacts DEF Join, ProcPlaces, Loaders
            <4>2. "busy" \notin Key_Mounts'[b].flags
                BY <2>2, <3>1, <3>2 DEF Join, TypeOK
            <4> QED BY <4>1, <4>2, <1>d DEF Goal
        <3>3. CASE /\ Goto(p, "open")
                   /\ Key_Mounts' = [Key_Mounts EXCEPT ![proc[p].box].flags =
                                                            @ \cup {"busy"}]
            <4>1. Loaders(b)' = {p}
                BY <2>2, <3>1, <3>3, GotoFacts DEF ProcPlaces, Loaders
            <4>2. "busy" \in Key_Mounts'[b].flags
                BY <2>2, <3>3 DEF TypeOK
            <4> QED BY <4>1, <4>2, <1>e DEF Goal
        <3> QED BY <1>2, <3>2, <3>3 DEF Key_MountHive
    <2> QED BY <2>1, <2>2
<1>3. ASSUME NEW p \in Procs, Key_MountHive2(p) \/ QueryHivelist(p) PROVE Goal
    <2>1. Loaders(b)' = Loaders(b)
        BY <1>3, GotoFacts DEF Key_MountHive2, QueryHivelist, ProcPlaces, Loaders
    <2> QED BY <1>3, <2>1, <1>a DEF Key_MountHive2, QueryHivelist, Same
<1>4. ASSUME NEW p \in Procs, MountDone(p) PROVE Goal
    <2>0. proc[p].box \in Boxes
        BY <1>4 DEF Placed, MountDone
    <2>1. CASE b # proc[p].box
        <3>1. Loaders(b)' = Loaders(b)
            BY <1>4, <2>1, GotoFacts DEF MountDone, Join, ProcPlaces, Loaders
        <3>2. Key_Mounts'[b] = Key_Mounts[b]
            BY <1>4, <2>0, <2>1 DEF MountDone, Join, TypeOK
        <3> QED BY <3>1, <3>2, <1>a DEF Same
    <2>2. CASE b = proc[p].box
        <3>1. Loaders(b) = {p}
            BY <1>4, <2>2, <1>c DEF MountDone, Loaders
        <3>2. Loaders(b)' = {}
            BY <1>4, <3>1, GotoFacts DEF MountDone, Join, ProcPlaces, Loaders
        <3>3. "busy" \notin Key_Mounts'[b].flags
            BY <1>4, <2>2 DEF MountDone, Join, TypeOK
        <3> QED BY <3>2, <3>3, <1>d DEF Goal
    <2> QED BY <2>1, <2>2
<1>5. ASSUME NEW p \in Procs, OpenKey(p) \/ Process_Delete(p) \/ Vanish(p)
      PROVE  Goal
    <2>1. Loaders(b)' = Loaders(b)
        BY <1>5, GotoFacts, EndFacts
           DEF OpenKey, Process_Delete, Vanish, ProcPlaces, Loaders
    <2> QED BY <1>5, <2>1, <1>a DEF OpenKey, Process_Delete, Vanish, Same
<1>6. ASSUME NEW p \in Procs, Key_UnmountHive(p) PROVE Goal
    <2>1. Loaders(b)' = Loaders(b)
        BY <1>6, GotoFacts DEF Key_UnmountHive, ProcPlaces, Loaders
    <2>2. "busy" \in Key_Mounts'[b].flags <=> "busy" \in Key_Mounts[b].flags
        BY <1>6 DEF Key_UnmountHive, TypeOK
    <2> QED BY <2>1, <2>2, <1>a DEF Same
<1>7. ASSUME NEW w \in Workers, WorkStep(w) PROVE Goal
    <2>1. Loaders(b)' = Loaders(b)
        BY <1>7 DEF WorkStep, Receive, EnumProcess, GetUnmountHive, NtUnloadKey,
                    NtOpenKey, ReleaseBoxRoot, Loaders
    <2>2. CASE GetUnmountHive(w)
        BY <2>1, <2>2, <1>a DEF GetUnmountHive, TypeOK, Same
    <2>3. CASE UNCHANGED Key_Mounts
        BY <2>1, <2>3, <1>a DEF Same
    <2> QED BY <1>7, <2>2, <2>3 DEF WorkStep, Receive, EnumProcess, NtUnloadKey,
                                    NtOpenKey, ReleaseBoxRoot
<1>8. CASE UNCHANGED vars
    <2>1. Loaders(b)' = Loaders(b) /\ UNCHANGED Key_Mounts
        BY <1>8 DEF vars, Loaders
    <2> QED BY <2>1, <1>a DEF Same, Goal
<1> QED BY <1>1, <1>2, <1>3, <1>4, <1>5, <1>6, <1>7, <1>8 DEF Next, ProcStep, Goal

\* A mount is busy exactly while one process is inside Key_MountHive2 for it,
\* so no two processes load one hive.
THEOREM OneProcessLoads == Spec => []OneLoader
<1>1. Init => OneLoader
    <2> SUFFICES ASSUME Init PROVE OneLoader
        OBVIOUS
    <2>1. \A b \in Boxes : Loaders(b) = {}
        BY DEF Init, Loaders, NoProc
    <2> QED BY <2>1, FS_EmptySet DEF Init, OneLoader
<1> QED BY <1>1, LoaderStep, CountInvariant, PTL DEF Spec

-----------------------------------------------------------------------------
(* A hive stays under its users *)

\* A process that runs and did not come late has its hive, and no thread of
\* the service was handed it: the second half makes HiveStays inductive.
NotHandedOut ==
    \A p \in Procs : proc[p].pc = "run" /\ p \notin late =>
        /\ proc[p].box \in loaded
        /\ \A w \in Workers : work[w].pc \in {"unload", "reopen"} =>
                                 work[w].hive # proc[p].box

\* Key_Api_GetUnmountHive hands out a hive only when it has no user, and who
\* comes after that is late.
LEMMA NotHandedOutStep == CountInv /\ NotHandedOut /\ [Next]_vars => NotHandedOut'
<1> SUFFICES ASSUME CountInv, NotHandedOut, [Next]_vars,
                    NEW q \in Procs, proc'[q].pc = "run", q \notin late'
             PROVE  /\ proc'[q].box \in loaded'
                    /\ \A v \in Workers : work'[v].pc \in {"unload", "reopen"} =>
                                             work'[v].hive # proc'[q].box
    BY DEF NotHandedOut
<1> DEFINE Out(v, b) == work[v].pc \in {"unload", "reopen"} /\ work[v].hive = b
           Goal == /\ proc'[q].box \in loaded'
                   /\ \A v \in Workers : work'[v].pc \in {"unload", "reopen"} =>
                                            work'[v].hive # proc'[q].box
           Old == proc[q].pc = "run" /\ q \notin late /\ proc'[q].box = proc[q].box
<1>a. Old => /\ proc'[q].box \in loaded
             /\ \A v \in Workers : ~Out(v, proc'[q].box)
    BY DEF NotHandedOut
<1>b. Old /\ loaded \subseteq loaded' /\ work' = work => Goal
    BY <1>a
<1>c. ASSUME Old, loaded' = loaded, NEW w \in Workers,
             \A v \in Workers : v # w => work'[v] = work[v],
             \/ work'[w].pc \notin {"unload", "reopen"}
             \/ Out(w, work[w].hive) /\ work'[w].hive = work[w].hive
      PROVE  Goal
    BY <1>a, <1>c
<1> HIDE DEF Goal, Old
<1> USE DEF CountInv
<1>1. ASSUME NEW p \in Procs, Join(p), UNCHANGED <<loaded, work>> PROVE Goal
    <2>1. CASE q = p
        <3>1. proc'[q].box = proc[q].box
            BY <1>1, <2>1, GotoFacts DEF Join, ProcPlaces
        <3>2. proc[q].box \in loaded /\ ~HandedOut(proc[q].box)
            BY <1>1, <2>1 DEF Join
        <3> QED BY <1>1, <3>1, <3>2 DEF Goal, HandedOut
    <2>2. CASE q # p
        BY <1>1, <1>b, <2>2, GotoFacts DEF Join, ProcPlaces, Old
    <2> QED BY <2>1, <2>2
<1>2. ASSUME NEW p \in Procs, ProcStep(p), ~Join(p) PROVE Goal
    <2>1. Old
        BY <1>2, GotoFacts, EndFacts
           DEF ProcStep, Key_MountHive, Key_MountHive2, QueryHivelist, MountDone,
               Key_UnmountHive, Vanish, ProcPlaces, Old
    <2>2. loaded \subseteq loaded' /\ work' = work
        BY <1>2 DEF ProcStep, Key_MountHive, Key_MountHive2, QueryHivelist,
                    MountDone, Key_UnmountHive, Vanish
    <2> QED BY <1>b, <2>1, <2>2
<1>3. ASSUME NEW p \in Procs, ProcStep(p), Join(p) PROVE Goal
    <2>1. UNCHANGED <<loaded, work>>
        BY <1>3, GotoFacts, EndFacts
           DEF ProcStep, Key_MountHive, Key_MountHive2, QueryHivelist, MountDone,
               Key_UnmountHive, Vanish, Join, ProcPlaces
    <2> QED BY <1>1, <1>3, <2>1
<1>4. ASSUME NEW p \in Procs, OpenKey(p) \/ Process_Delete(p) PROVE Goal
    <2>1. Old
        BY <1>4, GotoFacts, EndFacts DEF OpenKey, Process_Delete, ProcPlaces, Old
    <2> QED BY <1>4, <1>b, <2>1 DEF OpenKey, Process_Delete
<1>5. ASSUME NEW p \in Procs, NEW b \in Boxes, Create(p, b) PROVE Goal
    BY <1>5, <1>b DEF Create, TypeOK, Old
<1>6. ASSUME NEW w \in Workers, WorkStep(w) PROVE Goal
    <2>0. Old
        BY <1>6 DEF WorkStep, Receive, EnumProcess, GetUnmountHive, NtUnloadKey,
                    NtOpenKey, ReleaseBoxRoot, Old
    <2>1. ASSUME NEW b \in Boxes, Receive(w, b) PROVE Goal
        <3>1. work'[w].pc = "check" /\ \A v \in Workers : v # w => work'[v] = work[v]
            BY <2>1 DEF Receive, NoWork, TypeOK
        <3> QED BY <1>c, <2>0, <2>1, <3>1 DEF Receive
    <2>2. CASE EnumProcess(w) \/ ReleaseBoxRoot(w)
        BY <1>c, <2>0, <2>2, ToFacts, DoneFacts DEF EnumProcess, ReleaseBoxRoot
    <2>3. CASE GetUnmountHive(w)
        <3>1. ASSUME NEW b \in Boxes, Unused(b),
                     work' = [work EXCEPT ![w].pc = "unload", ![w].hive = b]
              PROVE  Goal
            <4>1. Users(b) = {}
                BY <3>1, FinitelyMany, FS_EmptySet DEF Unused, Counted
            <4>2. proc'[q].box # b
                BY <2>0, <4>1 DEF Users, Old
            <4>3. /\ work'[w].hive = b
                  /\ \A v \in Workers : v # w => work'[v] = work[v]
                BY <3>1 DEF TypeOK, WorkType
            <4> QED BY <1>a, <2>0, <2>3, <4>2, <4>3 DEF GetUnmountHive, Goal
        <3>2. CASE work' = [work EXCEPT ![w] = NoWork]
            BY <1>c, <2>0, <2>3, <3>2, DoneFacts DEF GetUnmountHive
        <3> QED BY <2>3, <3>1, <3>2 DEF GetUnmountHive
    <2>4. CASE NtUnloadKey(w)
        <3>1. proc'[q].box # work[w].hive
            BY <1>a, <2>0, <2>4 DEF NtUnloadKey
        <3>2. proc'[q].box \in loaded'
            BY <1>a, <2>0, <2>4, <3>1 DEF NtUnloadKey
        <3>3. work'[w].hive = work[w].hive
              /\ \A v \in Workers : v # w => work'[v] = work[v]
            BY <2>4, ToFacts DEF NtUnloadKey
        <3> QED BY <1>a, <2>0, <3>1, <3>2, <3>3 DEF Goal
    <2>5. CASE NtOpenKey(w)
        <3>1. CASE work' = [work EXCEPT ![w] = NoWork]
            BY <1>c, <2>0, <2>5, <3>1, DoneFacts DEF NtOpenKey
        <3>2. CASE work' # [work EXCEPT ![w] = NoWork]
            <4>1. work'[w].hive = work[w].hive
                  /\ \A v \in Workers : v # w => work'[v] = work[v]
                BY <2>5, <3>2 DEF NtOpenKey, TypeOK, WorkType
            <4> QED BY <1>c, <2>0, <2>5, <4>1 DEF NtOpenKey
        <3> QED BY <3>1, <3>2
    <2> QED BY <1>6, <2>1, <2>2, <2>3, <2>4, <2>5 DEF WorkStep
<1>7. CASE UNCHANGED vars
    BY <1>7, <1>b DEF vars, Old, Goal
<1> QED BY <1>2, <1>3, <1>4, <1>5, <1>6, <1>7 DEF Next, Goal

\* The service never unloads the hive of a process that found it loaded and
\* not yet given to a thread, however its checks interleave with the driver.
THEOREM HiveStaysLoaded == Spec => []HiveStays
<1>1. Init => NotHandedOut
    BY DEF Init, NotHandedOut, NoProc
<1>2. NotHandedOut => HiveStays
    BY DEF NotHandedOut, HiveStays
<1> QED BY <1>1, <1>2, NotHandedOutStep, CountInvariant, PTL DEF Spec
=============================================================================
