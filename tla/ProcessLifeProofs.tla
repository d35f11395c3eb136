------------------------- MODULE ProcessLifeProofs -------------------------
(***************************************************************************)
(* For any number of process ids, boxes, creations, retries and deaths of  *)
(* the service: a child stays in the box of its creator, a process runs in *)
(* a box with the low-level code or after a timeout, an answer of the      *)
(* service is never taken for another process, an id is used again with    *)
(* nothing left in the maps, and the service ends only what the driver     *)
(* has marked.                                                             *)
(***************************************************************************)
EXTENDS ProcessLife, TLAPS

USE BoxAssumption, ActorAssumption

-----------------------------------------------------------------------------
(* The inductive invariant *)

Blocks(p) == {Process_Map[p][i] : i \in 1..Len(Process_Map[p])}

\* Creation times grow, a process has one, and so has a block but for those of
\* Process_CreateTerminated.
Aged(p) ==
    /\ os[p].ct <= created /\ (os[p].st = "free" <=> os[p].ct = 0)
    /\ \A b \in Blocks(p) : /\ b.ct <= created
                            /\ "terminated" \notin b.flags => b.ct # 0

\* Where a call of Process_NotifyProcess_Create can be, for which process.
Called(p) ==
    /\ notify[p].pc # "idle" =>
          /\ os[p].st \in {"new", "suspended", "held", "gone"}
          /\ notify[p].caller = Svc => notify[p].parent = Svc
          /\ notify[p].parent = Svc => /\ os[p].from = NoBox
                                       /\ notify[p].pc \notin {"parent", "force"}
    /\ notify[p].pc \in {"caller", "parent", "force"} => os[p].st = "new"
    /\ notify[p].pc \notin {"idle", "caller"} /\ notify[p].caller = Svc =>
          "api" \in notify[p].mode
    /\ notify[p].pc = "wait" => notify[p].tries < MaxRetries
    /\ os[p].st = "suspended" => os[p].from = NoBox

\* The creator waits for the call with its block; the child of a boxed process
\* is decided by that block, and goes on into the same box.
Created(p) ==
    notify[p].pc # "idle" =>
       /\ notify[p].caller \in Pids =>
             /\ os[notify[p].caller].st \in {"running", "held"}
             /\ notify[notify[p].caller].pc = "idle"
       /\ os[p].from # NoBox =>
             \/ /\ notify[p].pc = "caller" /\ Boxed(notify[p].caller)
                /\ Process_Find(notify[p].caller).box = os[p].from
             \/ /\ notify[p].pc \in {"create", "send", "poll", "wait"}
                /\ notify[p].box = os[p].from /\ notify[p].mode = {"child"}

\* Before Process_Create a process has no block of its own; after it, the block
\* that is found is the one that the call entered.
Early(p) == \/ notify[p].pc \in {"caller", "parent", "force", "create"}
            \/ os[p].st = "suspended" /\ notify[p].pc = "idle"
Entered(p) ==
    /\ Early(p) => \A b \in Blocks(p) : b.ct # os[p].ct
    /\ notify[p].pc \in {"send", "poll", "wait"} /\ os[p].st # "gone" =>
          /\ Found(p) /\ Process_Find(p).ct = os[p].ct
          /\ Process_Find(p).box = notify[p].box
          /\ "host" \in Process_Find(p).flags <=> "host" \in notify[p].mode

\* The properties, of one process.
Loaded(p) == \A b \in Blocks(p) :
    b.ct = os[p].ct /\ os[p].st # "free" /\ "low" \in b.flags => "low" \in os[p].marks
Runs(p) ==
    os[p].st = "running" /\ Boxed(p) /\ Process_Find(p).ct = os[p].ct =>
        os[p].marks # {} \/ "terminated" \in Process_Find(p).flags
Child(p) ==
    os[p].st = "running" /\ os[p].from # NoBox =>
        Boxed(p) /\ \/ Process_Find(p).box = os[p].from
                    \/ "terminated" \in Process_Find(p).flags
Clean(p) ==
    p \notin late =>
        /\ Len(Process_Map[p]) <= 1
        /\ Found(p) => Process_Find(p).ct \in {0, os[p].ct}
        /\ os[p].st \in {"free", "gone"} =>
              /\ Process_Map[p] = <<>> /\ Process_MapFcp[p] = NoBox
              /\ p \notin Process_MapDfp
        /\ Early(p) => Process_Map[p] = <<>>

ProcInv(p) == /\ Aged(p) /\ Called(p) /\ Created(p) /\ Entered(p)
              /\ Loaded(p) /\ Runs(p) /\ Child(p) /\ Clean(p)

\* A thread of the service that injects has the process open, so that its id is
\* not used again; when it reports a success the code is in the process.
Works(w) == w.kind \in {"inject", "complete"} =>
    /\ os[w.pid].ct = w.ct /\ os[w.pid].st # "free"
    /\ w.kind = "complete" => "low" \in os[w.pid].marks
WorkInv == \A w \in workers : Works(w)

\* A process that a message asks the service to end was marked first.
Cancels(m) == m.kind = "cancel" =>
    /\ m.ct <= created
    /\ os[m.pid].ct = m.ct => os[m.pid].st \in {"running", "held", "gone"}
    /\ os[m.pid].ct = m.ct /\ os[m.pid].st = "running" =>
          Found(m.pid) /\ "terminated" \in Process_Find(m.pid).flags
PortInv == \A m \in port : Cancels(m)

LifeInv == TypeOK /\ (\A p \in Pids : ProcInv(p)) /\ WorkInv /\ PortInv

-----------------------------------------------------------------------------
(* Lists of blocks *)

\* A block in front of a list.
LEMMA Prepended ==
    ASSUME NEW s \in Seq(BlockType), NEW b \in BlockType, NEW t, t = <<b>> \o s
    PROVE  /\ t \in Seq(BlockType) /\ t # <<>> /\ Head(t) = b
           /\ Len(t) = Len(s) + 1
           /\ \A i \in 1..Len(t) : t[i] = b \/ \E j \in 1..Len(s) : t[i] = s[j]
<1>1. t \in Seq(BlockType) /\ Len(t) = Len(s) + 1 /\ Len(s) \in Nat
    OBVIOUS
<1>2. t[1] = b /\ \A i \in 1..Len(t) : i # 1 => t[i] = s[i - 1]
    OBVIOUS
<1>3. Head(t) = b
    BY <1>1, <1>2
<1> QED BY <1>1, <1>2, <1>3

\* A list without its first block.
LEMMA Popped ==
    ASSUME NEW s \in Seq(BlockType), s # <<>>, NEW t, t = Tail(s)
    PROVE  /\ t \in Seq(BlockType) /\ Len(t) = Len(s) - 1
           /\ Len(s) <= 1 => t = <<>>
           /\ \A i \in 1..Len(t) : \E j \in 1..Len(s) : t[i] = s[j]
<1>1. t \in Seq(BlockType) /\ Len(t) = Len(s) - 1 /\ Len(s) \in Nat
    OBVIOUS
<1>2. \A i \in 1..Len(t) : t[i] = s[i + 1]
    OBVIOUS
<1> QED BY <1>1, <1>2

\* A list with another first element.
LEMMA FirstReplaced ==
    ASSUME NEW B, NEW s \in Seq(B), 1 \in 1..Len(s), NEW b \in B
    PROVE  [s EXCEPT ![1] = b] \in Seq(B) /\ Len([s EXCEPT ![1] = b]) = Len(s)
OBVIOUS

\* A list whose first block has a further flag.
WithFlag(s, flag) == [s EXCEPT ![1].flags = @ \cup {flag}]

FlagSet(s, t, flag) ==
    /\ t \in Seq(BlockType) /\ t # <<>> /\ Len(t) = Len(s)
    /\ Head(t).ct = Head(s).ct /\ Head(t).box = Head(s).box
    /\ Head(t).flags = Head(s).flags \cup {flag}
    /\ \A i \in 1..Len(t) : t[i] = Head(t) \/ \E j \in 1..Len(s) : t[i] = s[j]

\* Only the flags of that block change.
LEMMA FlaggedFirst ==
    ASSUME NEW s \in Seq(BlockType), s # <<>>,
           NEW flag \in {"terminated", "low", "initialized", "host"}
    PROVE  FlagSet(s, WithFlag(s, flag), flag)
<1> DEFINE t == WithFlag(s, flag)
<1>1. Len(s) \in Nat /\ Len(s) # 0 /\ \A i \in 1..Len(s) : s[i] \in BlockType
    OBVIOUS
<1>2. 1 \in 1..Len(s) /\ s[1] \in BlockType
    BY <1>1
<1> DEFINE b == [s[1] EXCEPT !.flags = @ \cup {flag}]
<1>3. b \in BlockType /\ b.ct = s[1].ct /\ b.box = s[1].box
      /\ b.flags = s[1].flags \cup {flag}
    BY <1>2 DEF BlockType
<1>4. t = [s EXCEPT ![1] = b]
    BY DEF WithFlag
<1> HIDE DEF b
<1>5. t \in Seq(BlockType) /\ Len(t) = Len(s)
    <2>1. b \in BlockType
        BY <1>3
    <2>2. /\ [s EXCEPT ![1] = b] \in Seq(BlockType)
          /\ Len([s EXCEPT ![1] = b]) = Len(s)
        BY <1>2, <2>1, FirstReplaced
    <2> QED BY <1>4, <2>2, Zenon
<1>6. t[1] = b /\ \A i \in 1..Len(s) : i # 1 => t[i] = s[i]
    BY <1>1, <1>2, <1>4
<1>7. Head(t) = b /\ Head(s) = s[1]
    BY <1>1, <1>5, <1>6
<1>8. FlagSet(s, t, flag)
    <2> HIDE DEF t
    <2> QED BY <1>1, <1>2, <1>3, <1>5, <1>6, <1>7 DEF FlagSet
<1> QED BY <1>8

-----------------------------------------------------------------------------
(* What the steps do to the tables *)

\* The block that is found is one of the list.
LEMMA FindFacts ==
    ASSUME TypeOK, NEW p \in Pids, Found(p)
    PROVE  Process_Find(p) \in Blocks(p) /\ Process_Find(p) \in BlockType
<1> DEFINE s == Process_Map[p]
<1>1. s \in Seq(BlockType) /\ s # <<>>
    BY DEF TypeOK, Found
<1> HIDE DEF s
<1>2. Head(s) = s[1] /\ 1 \in 1..Len(s) /\ s[1] \in BlockType
    BY <1>1
<1> QED BY <1>2 DEF s, Process_Find, Blocks

\* Blocks have their type.
LEMMA BlocksTyped ==
    ASSUME TypeOK, NEW p \in Pids
    PROVE  \A b \in Blocks(p) : b \in BlockType /\ b.ct \in Nat
<1> DEFINE s == Process_Map[p]
<1>1. s \in Seq(BlockType)
    BY DEF TypeOK
<1> HIDE DEF s
<1>2. \A i \in 1..Len(s) : s[i] \in BlockType
    BY <1>1
<1>3. \A b \in BlockType : b.ct \in Nat
    BY BoundAssumption DEF BlockType, Ct
<1> QED BY <1>2, <1>3 DEF Blocks, s

\* What is known of the blocks of p from the list alone.
SameBlocks(p) == /\ Blocks(p)' = Blocks(p) /\ Process_Find(p)' = Process_Find(p)
                 /\ Found(p)' <=> Found(p)
                 /\ Boxed(p)' <=> Boxed(p)

\* Blocks of an id and what is found for it depend on its list only.
LEMMA SameListSameBlocks ==
    ASSUME NEW p \in Pids, Process_Map'[p] = Process_Map[p]
    PROVE  SameBlocks(p)
<1>1. Blocks(p)' = Blocks(p)
    BY DEF Blocks
<1>2. Process_Find(p)' = Process_Find(p) /\ (Found(p)' <=> Found(p))
    BY DEF Process_Find, Found
<1> QED BY <1>1, <1>2 DEF Boxed, SameBlocks

\* Enter puts a block in front, and notes who came too late.
Entry(p, block) ==
    /\ Process_Map' \in [Pids -> Seq(BlockType)] /\ late' \subseteq Pids
    /\ Found(p)' /\ Process_Find(p)' = block
    /\ Boxed(p)' <=> "host" \notin block.flags
    /\ Process_Map[p] = <<>> => Len(Process_Map'[p]) = 1
    /\ \A b \in Blocks(p)' : b = block \/ b \in Blocks(p)
    /\ p \notin late' => p \notin late /\ os[p].st # "gone"
    /\ \A q \in Pids : q # p => /\ Process_Map'[q] = Process_Map[q]
                                /\ q \in late' <=> q \in late

\* A block that is entered is the one that is found.
LEMMA EnterFacts ==
    ASSUME TypeOK, NEW p \in Pids, NEW block \in BlockType, Enter(p, block)
    PROVE  Entry(p, block)
<1> DEFINE s == Process_Map[p]
           t == Process_Map'[p]
<1>1. s \in Seq(BlockType) /\ t = <<block>> \o s
    BY DEF TypeOK, Enter
<1>2. /\ t \in Seq(BlockType) /\ t # <<>> /\ Head(t) = block /\ Len(t) = Len(s) + 1
      /\ \A i \in 1..Len(t) : t[i] = block \/ \E j \in 1..Len(s) : t[i] = s[j]
    <2> HIDE DEF s, t
    <2> QED BY <1>1, Prepended
<1>3. \A b \in Blocks(p)' : b = block \/ b \in Blocks(p)
    BY <1>2 DEF Blocks
<1>4. Process_Map[p] = <<>> => Len(Process_Map'[p]) = 1
    BY <1>2
<1>5. /\ Process_Map' = [Process_Map EXCEPT ![p] = t]
      /\ \A q \in Pids : q # p => Process_Map'[q] = Process_Map[q]
    BY DEF TypeOK, Enter
<1>6. Process_Map' \in [Pids -> Seq(BlockType)]
    <2> HIDE DEF s, t
    <2> QED BY <1>2, <1>5 DEF TypeOK
<1>7. Found(p)' /\ Process_Find(p)' = block
    BY <1>2 DEF Found, Process_Find
<1>8. /\ late' \subseteq Pids /\ (p \notin late' => p \notin late /\ os[p].st # "gone")
      /\ \A q \in Pids : q # p => (q \in late' <=> q \in late)
    BY DEF Enter, TypeOK
<1> HIDE DEF s, t
<1> QED BY <1>3, <1>4, <1>5, <1>6, <1>7, <1>8 DEF Entry, Boxed

\* A further flag changes the block that is found and nothing else.
Marking(p, flag) ==
    /\ Process_Map' \in [Pids -> Seq(BlockType)]
    /\ Found(p)' <=> Found(p)
    /\ Len(Process_Map'[p]) = Len(Process_Map[p])
    /\ Process_Map[p] = <<>> => Process_Map'[p] = <<>>
    /\ \A b \in Blocks(p)' : b \in Blocks(p) \/ (Found(p) /\ b = Process_Find(p)')
    /\ Found(p) => /\ Process_Find(p)'.ct = Process_Find(p).ct
                   /\ Process_Find(p)'.box = Process_Find(p).box
                   /\ Process_Find(p)'.flags = Process_Find(p).flags \cup {flag}
                   /\ Process_Find(p) \in Blocks(p)
    /\ \A q \in Pids : q # p => Process_Map'[q] = Process_Map[q]

\* Setting a flag changes the block found for the id, if there is one, and no
\* other.
LEMMA FlaggedFacts ==
    ASSUME TypeOK, NEW p \in Pids, NEW flag \in {"terminated", "low", "initialized"},
           Process_Map' = Flagged(p, flag)
    PROVE  Marking(p, flag)
<1>1. CASE ~Found(p)
    <2>1. Process_Map' = Process_Map
        BY <1>1 DEF Flagged
    <2>2. SameBlocks(p)
        BY <2>1, SameListSameBlocks
    <2> QED BY <1>1, <2>1, <2>2 DEF Marking, SameBlocks, TypeOK
<1>2. CASE Found(p)
    <2> DEFINE s == Process_Map[p]
               t == Process_Map'[p]
    <2>1. s \in Seq(BlockType) /\ s # <<>>
        BY <1>2 DEF TypeOK, Found
    <2>2. Process_Map' = [Process_Map EXCEPT ![p][1].flags = @ \cup {flag}]
        BY <1>2 DEF Flagged
    <2>3. t = WithFlag(s, flag)
        BY <2>2 DEF TypeOK, WithFlag
    <2>4. /\ Process_Map' = [Process_Map EXCEPT ![p] = t]
          /\ \A q \in Pids : q # p => Process_Map'[q] = Process_Map[q]
        BY <2>2 DEF TypeOK
    <2>5. /\ t \in Seq(BlockType) /\ t # <<>> /\ Len(t) = Len(s)
          /\ Head(t).ct = Head(s).ct /\ Head(t).box = Head(s).box
          /\ Head(t).flags = Head(s).flags \cup {flag}
          /\ \A i \in 1..Len(t) : t[i] = Head(t) \/ \E j \in 1..Len(s) : t[i] = s[j]
        <3>1. flag \in {"terminated", "low", "initialized", "host"}
            OBVIOUS
        <3> HIDE DEF s, t
        <3>2. s \in Seq(BlockType)
            BY <2>1
        <3>3. s # <<>>
            BY <2>1
        <3>4. FlagSet(s, WithFlag(s, flag), flag)
            BY <3>1, <3>2, <3>3, FlaggedFirst, Zenon
        <3>5. FlagSet(s, t, flag)
            BY <2>3, <3>4
        <3> QED BY <3>5 DEF FlagSet
    <2>6. \A b \in Blocks(p)' : b \in Blocks(p) \/ b = Process_Find(p)'
        BY <2>5 DEF Blocks, Process_Find
    <2>7. Process_Map' \in [Pids -> Seq(BlockType)]
        <3> HIDE DEF s, t
        <3> QED BY <2>4, <2>5 DEF TypeOK
    <2>8. Found(p)'
        BY <2>5 DEF Found
    <2>9. /\ Process_Find(p)'.ct = Process_Find(p).ct
          /\ Process_Find(p)'.box = Process_Find(p).box
          /\ Process_Find(p)'.flags = Process_Find(p).flags \cup {flag}
        BY <2>5 DEF Process_Find
    <2>10. Len(Process_Map'[p]) = Len(Process_Map[p]) /\ Process_Map[p] # <<>>
        BY <2>1, <2>5
    <2> HIDE DEF s, t
    <2> QED BY <1>2, <2>4, <2>6, <2>7, <2>8, <2>9, <2>10, FindFacts DEF Marking
<1> QED BY <1>1, <1>2

\* The end of a call of Process_NotifyProcess_Create.
Ended(p) ==
    /\ os' \in [Pids -> ProcessType] /\ notify' \in [Pids -> CallType]
    /\ notify'[p].pc = "idle"
    /\ os'[p].ct = os[p].ct /\ os'[p].from = os[p].from
    /\ os[p].st \in {"held", "gone"} => os'[p].st = os[p].st
    /\ os'[p].st \in {"held", "gone", "running", "suspended"}
    /\ os'[p].st = "gone" => os[p].st = "gone"
    /\ \A q \in Pids : q # p => os'[q] = os[q] /\ notify'[q] = notify[q]

Returned(p, ok, marks) ==
    /\ Ended(p) /\ os'[p].marks = os[p].marks \cup marks
    /\ os'[p].st = "running" => ok /\ os[p].st \notin {"held", "gone"}
    /\ os'[p].st = "suspended" => /\ ok /\ notify[p].caller = Svc
                                  /\ "api" \notin notify[p].mode

\* What a return from the notification changes.
LEMMA ReturnFacts ==
    ASSUME TypeOK, NEW p \in Pids, NEW ok \in BOOLEAN,
           NEW marks \in SUBSET {"low", "timeout"}, Return(p, ok, marks)
    PROVE  Returned(p, ok, marks)
<1>1. /\ notify' = [notify EXCEPT ![p] = NoCall] /\ NoCall \in CallType
      /\ NoCall.pc = "idle"
    <2>1. 0 \in 0..MaxRetries
        BY BoundAssumption
    <2> QED BY <2>1 DEF Return, NoCall, CallType, Actors
<1>2. /\ notify' \in [Pids -> CallType] /\ notify'[p].pc = "idle"
      /\ \A q \in Pids : q # p => notify'[q] = notify[q]
    BY <1>1 DEF TypeOK
<1>3. PICK st \in {"held", "gone", "running", "suspended"} :
         /\ os' = [os EXCEPT ![p].st = st, ![p].marks = @ \cup marks]
         /\ os[p].st \in {"held", "gone"} => st = os[p].st
         /\ st = "gone" => os[p].st = "gone"
         /\ st = "running" => ok /\ os[p].st \notin {"held", "gone"}
         /\ st = "suspended" => ok /\ notify[p].caller = Svc /\ "api" \notin notify[p].mode
    <2> DEFINE T == IF os[p].st \in {"held", "gone"} THEN {os[p].st}
                    ELSE IF ~ok THEN {"held"}
                    ELSE IF notify[p].caller # Svc THEN {"running"}
                    ELSE IF svc = "dying"
                         THEN {"held"}
                    ELSE IF "api" \in notify[p].mode THEN {"running"}
                    ELSE {"running", "suspended"}
    <2>1. PICK st \in T : os' = [os EXCEPT ![p].st = st, ![p].marks = @ \cup marks]
        BY DEF Return
    <2>2. /\ st \in {"held", "gone", "running", "suspended"}
          /\ os[p].st \in {"held", "gone"} => st = os[p].st
          /\ st = "gone" => os[p].st = "gone"
          /\ st = "running" => ok /\ os[p].st \notin {"held", "gone"}
          /\ st = "suspended" => /\ ok /\ notify[p].caller = Svc
                                 /\ "api" \notin notify[p].mode
        BY <2>1
    <2> QED BY <2>1, <2>2
<1>4. os[p] \in ProcessType
    BY DEF TypeOK
<1>5. /\ os' \in [Pids -> ProcessType]
      /\ os'[p].st = st /\ os'[p].ct = os[p].ct /\ os'[p].from = os[p].from
      /\ os'[p].marks = os[p].marks \cup marks
      /\ \A q \in Pids : q # p => os'[q] = os[q]
    <2> DEFINE r == [os[p] EXCEPT !.st = st, !.marks = @ \cup marks]
    <2>1. /\ r \in ProcessType /\ r.st = st /\ r.ct = os[p].ct
          /\ r.from = os[p].from /\ r.marks = os[p].marks \cup marks
        BY <1>4 DEF ProcessType
    <2>2. os' = [os EXCEPT ![p] = r]
        BY <1>3 DEF TypeOK
    <2> HIDE DEF r
    <2>3. /\ os' \in [Pids -> ProcessType] /\ os'[p] = r
          /\ \A q \in Pids : q # p => os'[q] = os[q]
        BY <2>1, <2>2 DEF TypeOK
    <2> QED BY <2>1, <2>3
<1> QED BY <1>2, <1>3, <1>5 DEF Ended, Returned

-----------------------------------------------------------------------------
(* Steps that leave a process where it is *)

\* What p's blocks may become: the one that is found has got a flag, "low" only
\* when the code is in the process.
Soft_List(p) ==
    /\ Found(p)' <=> Found(p)
    /\ Len(Process_Map'[p]) = Len(Process_Map[p])
    /\ Process_Map[p] = <<>> => Process_Map'[p] = <<>>
    /\ Found(p) => /\ Process_Find(p)'.ct = Process_Find(p).ct
                   /\ Process_Find(p)'.box = Process_Find(p).box
                   /\ "host" \in Process_Find(p)'.flags <=> "host" \in Process_Find(p).flags
                   /\ "terminated" \in Process_Find(p).flags =>
                         "terminated" \in Process_Find(p)'.flags
    /\ \A b \in Blocks(p)' : \E a \in Blocks(p) :
          /\ b.ct = a.ct
          /\ "terminated" \in a.flags => "terminated" \in b.flags
          /\ "low" \in b.flags => \/ "low" \in a.flags
                                  \/ b.ct = os[p].ct => "low" \in os[p].marks

\* What the process and its call may become: it was ended, or has got a mark; the
\* call waits for the service as before; the service that a creator named as the
\* parent is gone.
Soft_Proc(p) ==
    /\ os'[p].ct = os[p].ct /\ os'[p].from = os[p].from
    /\ os[p].marks \subseteq os'[p].marks
    /\ \/ os'[p].st = os[p].st
       \/ os[p].st \in {"running", "suspended"} /\ os'[p].st = "held"
    /\ notify'[p].caller = notify[p].caller
    /\ \/ notify'[p].parent = notify[p].parent
       \/ notify'[p].parent # Svc
          /\ (notify[p].pc # "idle" => notify[p].caller # Svc)
    /\ notify'[p].box = notify[p].box /\ notify'[p].mode = notify[p].mode
    /\ \/ notify'[p].pc = notify[p].pc
       \/ {notify'[p].pc, notify[p].pc} \subseteq {"send", "poll", "wait"}
    /\ notify'[p].pc = "wait" =>
          notify'[p].tries < MaxRetries \/ notify'[p] = notify[p]

\* What the other maps may become.
Soft_Maps(p) ==
    /\ p \in late => p \in late'
    /\ p \notin late' /\ os'[p].st \in {"free", "gone"} =>
          /\ Process_MapFcp[p] = NoBox => Process_MapFcp'[p] = NoBox
          /\ p \notin Process_MapDfp => p \notin Process_MapDfp'

Soft(p) == Soft_List(p) /\ Soft_Proc(p) /\ Soft_Maps(p)

\* A process whose creator also stays where it is keeps the invariant.
LEMMA SoftStep ==
    ASSUME TypeOK, TypeOK', created <= created', NEW p \in Pids, ProcInv(p), Soft(p),
           notify[p].caller \in Pids /\ notify[p].pc # "idle" => Soft(notify[p].caller)
    PROVE  ProcInv(p)'
<1> DEFINE c == notify[p].caller
<1> USE DEF Soft
<1>1. /\ os[p].ct \in Nat /\ os[p].ct <= created' /\ os'[p].ct = os[p].ct
      /\ created \in Nat /\ created' \in Nat
    BY BoundAssumption DEF TypeOK, ProcessType, Ct, ProcInv, Aged, Soft_Proc
<1>2. Aged(p)'
    <2>1. \A b \in Blocks(p)' : b.ct <= created' /\ ("terminated" \notin b.flags => b.ct # 0)
        <3> SUFFICES ASSUME NEW b \in Blocks(p)'
                     PROVE  b.ct <= created' /\ ("terminated" \notin b.flags => b.ct # 0)
            OBVIOUS
        <3>1. PICK a \in Blocks(p) :
                 b.ct = a.ct /\ ("terminated" \in a.flags => "terminated" \in b.flags)
            BY DEF Soft_List
        <3>2. a.ct <= created /\ ("terminated" \notin a.flags => a.ct # 0) /\ a.ct \in Nat
            BY BlocksTyped DEF ProcInv, Aged
        <3> QED BY <1>1, <3>1, <3>2
    <2> QED BY <1>1, <2>1 DEF Aged, ProcInv, Soft_Proc
<1>3. Called(p)'
    BY DEF Called, ProcInv, Soft_Proc
<1>4. Created(p)'
    <2> SUFFICES ASSUME notify'[p].pc # "idle" PROVE Created(p)'
        BY DEF Created
    <2>1. notify[p].pc # "idle" /\ notify'[p].caller = c
        BY DEF Soft_Proc
    <2>2. c \in Pids => /\ os'[c].st \in {"running", "held"} /\ notify'[c].pc = "idle"
                        /\ Boxed(c) => Boxed(c)' /\ Process_Find(c)'.box = Process_Find(c).box
        BY <2>1 DEF Created, ProcInv, Soft_Proc, Soft_List, Boxed
    <2>3. Boxed(c) => c \in Pids
        BY DEF Boxed, Found
    <2>4. os[p].from # NoBox =>
             \/ notify[p].pc = "caller" /\ Boxed(c) /\ Process_Find(c).box = os[p].from
             \/ /\ notify[p].pc \in {"create", "send", "poll", "wait"}
                /\ notify[p].box = os[p].from /\ notify[p].mode = {"child"}
        BY <2>1 DEF Created, ProcInv
    <2>5. os'[p].from # NoBox =>
             \/ notify'[p].pc = "caller" /\ Boxed(c)' /\ Process_Find(c)'.box = os'[p].from
             \/ /\ notify'[p].pc \in {"create", "send", "poll", "wait"}
                /\ notify'[p].box = os'[p].from /\ notify'[p].mode = {"child"}
        BY <2>2, <2>3, <2>4 DEF Soft_Proc
    <2> QED BY <2>1, <2>2, <2>5 DEF Created
<1>5. Entered(p)'
    <2>1. Early(p)' => Early(p)
        BY DEF Early, Soft_Proc, ProcInv, Called
    <2>2. Early(p)' => \A b \in Blocks(p)' : b.ct # os'[p].ct
        BY <2>1 DEF Entered, ProcInv, Soft_Proc, Soft_List
    <2>3. notify'[p].pc \in {"send", "poll", "wait"} /\ os'[p].st # "gone" =>
          /\ Found(p)' /\ Process_Find(p)'.ct = os'[p].ct
          /\ Process_Find(p)'.box = notify'[p].box
          /\ "host" \in Process_Find(p)'.flags <=> "host" \in notify'[p].mode
        BY DEF Entered, ProcInv, Soft_Proc, Soft_List
    <2> QED BY <2>2, <2>3 DEF Entered
<1>6. Loaded(p)'
    BY DEF Loaded, ProcInv, Soft_Proc, Soft_List
<1>7. Runs(p)' /\ Child(p)'
    BY DEF Runs, Child, ProcInv, Soft_Proc, Soft_List, Boxed
<1>8. Clean(p)'
    BY DEF Clean, Early, ProcInv, Soft_Proc, Soft_List, Soft_Maps
<1> QED BY <1>2, <1>3, <1>4, <1>5, <1>6, <1>7, <1>8 DEF ProcInv

\* A process that a step does not touch.
Same(p) == /\ os'[p] = os[p] /\ notify'[p] = notify[p]
           /\ Process_Map'[p] = Process_Map[p] /\ Process_MapFcp'[p] = Process_MapFcp[p]
           /\ p \in late => p \in late'
           /\ p \in Process_MapDfp' => p \in Process_MapDfp

\* Such a process stays where it is.
LEMMA SameIsSoft ==
    ASSUME NEW p \in Pids, Same(p)
    PROVE  Soft(p)
<1>1. SameBlocks(p)
    BY SameListSameBlocks DEF Same
<1>2. Soft_List(p)
    BY <1>1 DEF Same, SameBlocks, Soft_List
<1>3. Soft_Proc(p) /\ Soft_Maps(p)
    BY DEF Same, Soft_Proc, Soft_Maps
<1> QED BY <1>2, <1>3 DEF Soft

\* Threads and messages that stay, stay right as long as their process stays
\* where it is.
LEMMA SoftMessages ==
    ASSUME TypeOK, TypeOK', created <= created', NEW p \in Pids, Soft(p),
           WorkInv, PortInv
    PROVE  /\ \A w \in workers \cap workers' : w.pid = p => Works(w)'
           /\ \A m \in port \cap port' : m.pid = p => Cancels(m)'
<1>1. ASSUME NEW w \in workers, w.pid = p PROVE Works(w)'
    BY <1>1 DEF WorkInv, Works, Soft, Soft_Proc
<1>2. ASSUME NEW m \in port, m.pid = p PROVE Cancels(m)'
    <2>1. m.ct \in Nat /\ created \in Nat /\ created' \in Nat
        BY BoundAssumption DEF TypeOK, Ct
    <2> QED BY <1>2, <2>1 DEF PortInv, Cancels, Soft, Soft_Proc, Soft_List
<1> QED BY <1>1, <1>2

\* A step after which every process is where it was.
LEMMA SoftLife ==
    ASSUME LifeInv, TypeOK', created <= created', \A q \in Pids : Soft(q),
           \A w \in workers' : w \in workers \/ Works(w)',
           \A m \in port' : m \in port \/ Cancels(m)'
    PROVE  LifeInv'
<1> USE DEF LifeInv
<1>1. \A p \in Pids : ProcInv(p)'
    BY SoftStep
<1>2. /\ \A w \in workers' : w.pid \in Pids
      /\ \A m \in port' : m.pid \in Pids
    BY DEF TypeOK
<1>3. \A w \in workers' : Works(w)'
    BY <1>2, SoftMessages
<1>4. \A m \in port' : Cancels(m)'
    BY <1>2, SoftMessages
<1> QED BY <1>1, <1>3, <1>4 DEF WorkInv, PortInv

\* A step that takes one process, which creates no other, further.
Further(p) ==
    /\ created <= created' /\ \A q \in Pids : q # p => Same(q)
    /\ \A q \in Pids : notify[q].pc # "idle" => notify[q].caller # p
    /\ \A w \in workers' : w \in workers /\ (w.pid = p => Works(w)')
    /\ port' = port
    /\ \A m \in port : m.pid = p /\ m.kind = "cancel" /\ os'[p].ct = m.ct
                      => os'[p].st \in {"held", "gone"}

\* A step about one process keeps the invariant when it does so for that
\* process.
LEMMA OneProcess ==
    ASSUME LifeInv, TypeOK', NEW p \in Pids, Further(p), ProcInv(p)'
    PROVE  LifeInv'
<1> USE DEF LifeInv, Further
<1>1. \A q \in Pids : q # p => Soft(q)
    BY SameIsSoft
<1>2. \A q \in Pids : q # p => ProcInv(q)'
    BY <1>1, SoftStep
<1>3. /\ \A w \in workers' : w.pid \in Pids
      /\ \A m \in port' : m.pid \in Pids /\ m.ct \in Nat
      /\ created \in Nat /\ created' \in Nat
    BY BoundAssumption DEF TypeOK, Ct
<1>4. \A w \in workers' : Works(w)'
    BY <1>1, <1>3, SoftMessages
<1>5. ASSUME NEW m \in port' PROVE Cancels(m)'
    <2>1. CASE m.kind # "cancel"
        BY <2>1 DEF Cancels
    <2>2. CASE m.kind = "cancel" /\ m.pid # p
        <3>1. m \in port
            BY <2>2
        <3> QED BY <1>1, <1>3, <2>2, <3>1, SoftMessages
    <2>3. CASE m.kind = "cancel" /\ m.pid = p
        <3>1. m \in port /\ m.ct <= created'
            BY <1>3, <2>3 DEF PortInv, Cancels
        <3> QED BY <2>3, <3>1 DEF Cancels
    <2> QED BY <2>1, <2>2, <2>3
<1> QED BY <1>2, <1>4, <1>5 DEF WorkInv, PortInv

-----------------------------------------------------------------------------
(* The steps that leave every process where it is *)

\* A mark on a block, "low" only for a process that has the code.
LEMMA MarkIsSoft ==
    ASSUME TypeOK, NEW p \in Pids, NEW flag \in {"terminated", "low", "initialized"},
           Process_Map' = Flagged(p, flag), flag = "low" => "low" \in os[p].marks,
           UNCHANGED <<os, notify, late, Process_MapDfp, Process_MapFcp>>
    PROVE  \A q \in Pids : Soft(q)
<1>1. Marking(p, flag)
    BY FlaggedFacts
<1>2. \A q \in Pids : q # p => Same(q)
    BY <1>1 DEF Marking, Same
<1>3. Soft_Proc(p) /\ Soft_Maps(p)
    BY DEF Soft_Proc, Soft_Maps
<1>4. Soft_List(p)
    <2>1. ASSUME NEW b \in Blocks(p)'
          PROVE  \E a \in Blocks(p) :
                   /\ b.ct = a.ct
                   /\ "terminated" \in a.flags => "terminated" \in b.flags
                   /\ "low" \in b.flags => \/ "low" \in a.flags
                                           \/ b.ct = os[p].ct => "low" \in os[p].marks
        <3>1. CASE b \in Blocks(p)
            BY <3>1
        <3>2. CASE Found(p) /\ b = Process_Find(p)'
            BY <1>1, <3>2 DEF Marking
        <3> QED BY <1>1, <3>1, <3>2 DEF Marking
    <2> QED BY <1>1, <2>1 DEF Marking, Soft_List
<1> QED BY <1>2, <1>3, <1>4, SameIsSoft DEF Soft

\* What becomes of a thread of the service.
LEMMA WorkerFacts ==
    ASSUME TypeOK, NEW w \in workers,
           NEW kind \in {"open", "inject", "complete", "report"}, NEW v \in To(w, kind)
    PROVE  /\ v \in [kind : {"open", "inject", "complete", "report"}, pid : Pids, ct : Ct]
           /\ v.kind = kind /\ v.pid = w.pid /\ v.ct = w.ct
BY DEF TypeOK, To

\* Process_Low_Api_InjectComplete for an error.
LEMMA StepInjectError ==
    ASSUME LifeInv, NEW w \in workers, InjectError(w)
    PROVE  LifeInv'
<1>1. TypeOK /\ w.pid \in Pids
    BY DEF LifeInv, TypeOK
<1>2. \A q \in Pids : Soft(q)
    BY <1>1, MarkIsSoft DEF InjectError
<1>3. TypeOK'
    <2>1. Process_Map' \in [Pids -> Seq(BlockType)]
        BY <1>1, FlaggedFacts DEF InjectError, Marking
    <2> QED BY <1>1, <2>1 DEF TypeOK, InjectError, Step
<1> QED BY <1>1, <1>2, <1>3, SoftLife DEF InjectError, Step, TypeOK

\* Process_Low_Api_InjectComplete for a success.
LEMMA StepInjectComplete ==
    ASSUME LifeInv, NEW w \in workers, InjectComplete(w)
    PROVE  LifeInv'
<1>1. TypeOK /\ w.pid \in Pids
    BY DEF LifeInv, TypeOK
<1>2. "low" \in os[w.pid].marks
    BY DEF LifeInv, WorkInv, Works, InjectComplete
<1>3. \A q \in Pids : Soft(q)
    BY <1>1, <1>2, MarkIsSoft DEF InjectComplete
<1>4. \A v \in workers' : v \in workers \/ v \in To(w, "report")
    BY DEF InjectComplete, Step
<1>5. TypeOK'
    <2>1. Process_Map' \in [Pids -> Seq(BlockType)]
        BY <1>1, FlaggedFacts DEF InjectComplete, Marking
    <2>2. workers' \subseteq [kind : {"open", "inject", "complete", "report"},
                               pid : Pids, ct : Ct]
        BY <1>1, <1>4, WorkerFacts DEF TypeOK
    <2> QED BY <1>1, <2>1, <2>2 DEF TypeOK, InjectComplete
<1>6. \A v \in workers' : v \in workers \/ Works(v)'
    BY <1>1, <1>4, WorkerFacts DEF Works
<1> QED BY <1>1, <1>3, <1>5, <1>6, SoftLife DEF InjectComplete, TypeOK

\* A thread of the service opens its process.
LEMMA StepOpenProcess ==
    ASSUME LifeInv, NEW w \in workers, OpenProcess(w)
    PROVE  LifeInv'
<1>1. TypeOK /\ w.pid \in Pids /\ w.ct # 0
    BY BoundAssumption DEF LifeInv, TypeOK, Ct
<1>2. \A q \in Pids : Soft(q)
    BY SameIsSoft DEF OpenProcess, lists, Same
<1>3. \A v \in workers' : \/ v \in workers \/ v \in To(w, "report")
                          \/ v \in To(w, "inject") /\ os[w.pid].ct = w.ct
    BY DEF OpenProcess, Step
<1>4. TypeOK'
    <2>1. workers' \subseteq [kind : {"open", "inject", "complete", "report"},
                               pid : Pids, ct : Ct]
        BY <1>1, <1>3, WorkerFacts DEF TypeOK
    <2> QED BY <1>1, <2>1 DEF TypeOK, OpenProcess, lists
<1>5. ASSUME NEW v \in workers' PROVE v \in workers \/ Works(v)'
    <2>1. CASE v \in To(w, "report")
        BY <1>1, <2>1, WorkerFacts DEF Works
    <2>2. CASE v \in To(w, "inject") /\ os[w.pid].ct = w.ct
        <3>1. os'[w.pid] = os[w.pid] /\ os[w.pid].st # "free"
            BY <1>1, <2>2 DEF LifeInv, ProcInv, Aged, OpenProcess
        <3> QED BY <1>1, <2>2, <3>1, WorkerFacts DEF Works
    <2> QED BY <1>3, <2>1, <2>2
<1> QED BY <1>1, <1>2, <1>4, <1>5, SoftLife DEF OpenProcess, TypeOK

\* SbieDll_InjectLow puts the code into the process.
LEMMA StepInjectLow ==
    ASSUME LifeInv, NEW w \in workers, InjectLow(w)
    PROVE  LifeInv'
<1> DEFINE p == w.pid
<1>1. TypeOK /\ p \in Pids /\ Works(w)
    BY DEF LifeInv, TypeOK, WorkInv
<1>2. /\ os' \in [Pids -> ProcessType] /\ \A q \in Pids : q # p => os'[q] = os[q]
      /\ os'[p].st = os[p].st /\ os'[p].ct = os[p].ct /\ os'[p].from = os[p].from
      /\ os[p].marks \subseteq os'[p].marks
      /\ \A v \in workers' : \/ v \in workers \/ v \in To(w, "report")
                             \/ v \in To(w, "complete") /\ "low" \in os'[p].marks
    <2>1. CASE UNCHANGED os /\ Step(w, To(w, "report"))
        BY <1>1, <2>1 DEF TypeOK, Step
    <2>2. CASE /\ os' = [os EXCEPT ![p].marks = @ \cup {"low"}]
               /\ Step(w, To(w, "complete")) \/ Step(w, To(w, "report"))
        <3> DEFINE r == [os[p] EXCEPT !.marks = @ \cup {"low"}]
        <3>1. os[p] \in ProcessType
            BY <1>1 DEF TypeOK
        <3>2. /\ r \in ProcessType /\ r.st = os[p].st /\ r.ct = os[p].ct
              /\ r.from = os[p].from /\ r.marks = os[p].marks \cup {"low"}
            BY <3>1 DEF ProcessType
        <3>3. os' = [os EXCEPT ![p] = r]
            BY <2>2
        <3> HIDE DEF r
        <3>4. /\ os' \in [Pids -> ProcessType] /\ os'[p] = r
              /\ \A q \in Pids : q # p => os'[q] = os[q]
            BY <1>1, <3>2, <3>3 DEF TypeOK
        <3> QED BY <2>2, <3>2, <3>4 DEF Step
    <2> QED BY <2>1, <2>2 DEF InjectLow
<1>3. UNCHANGED <<created, lists, notify, kills, svc, port, deaths>>
    BY DEF InjectLow
<1> HIDE DEF p
<1>4. Soft(p)
    <2>1. Soft_List(p)
        <3>1. SameBlocks(p)
            BY <1>1, <1>3, SameListSameBlocks DEF lists
        <3> QED BY <1>3, <3>1 DEF SameBlocks, Soft_List, lists
    <2> QED BY <1>2, <1>3, <2>1 DEF Soft, Soft_Proc, Soft_Maps, lists
<1>5. \A q \in Pids : Soft(q)
    BY <1>2, <1>3, <1>4, SameIsSoft DEF lists, Same
<1>6. TypeOK'
    <2>1. workers' \subseteq [kind : {"open", "inject", "complete", "report"},
                               pid : Pids, ct : Ct]
        BY <1>1, <1>2, WorkerFacts DEF TypeOK
    <2> QED BY <1>1, <1>2, <1>3, <2>1 DEF TypeOK, lists
<1>7. ASSUME NEW v \in workers' PROVE v \in workers \/ Works(v)'
    <2>1. CASE v \in To(w, "report")
        BY <1>1, <2>1, WorkerFacts DEF Works
    <2>2. CASE v \in To(w, "complete") /\ "low" \in os'[p].marks
        <3>1. os[p].ct = w.ct /\ os[p].st # "free"
            BY <1>1 DEF Works, InjectLow, p
        <3>2. v.pid = p /\ v.ct = w.ct /\ v.kind = "complete"
            BY <1>1, <2>2, WorkerFacts DEF p
        <3> QED BY <1>2, <2>2, <3>1, <3>2 DEF Works
    <2> QED BY <1>2, <2>1, <2>2
<1> QED BY <1>1, <1>3, <1>5, <1>6, <1>7, SoftLife DEF TypeOK

\* Processes that are ended, or not touched, stay where they are.
LEMMA EndIsSoft ==
    ASSUME NEW p \in Pids, UNCHANGED <<lists, notify>>, TypeOK,
           os'[p] = os[p] \/ (/\ os[p].st \in {"running", "suspended"}
                              /\ os'[p] = [os[p] EXCEPT !.st = "held"])
    PROVE  os'[p] \in ProcessType /\ Soft(p)
<1>1. os[p] \in ProcessType
    BY DEF TypeOK
<1>2. /\ os'[p] \in ProcessType /\ os'[p].ct = os[p].ct /\ os'[p].from = os[p].from
      /\ os'[p].marks = os[p].marks
      /\ \/ os'[p].st = os[p].st
         \/ os[p].st \in {"running", "suspended"} /\ os'[p].st = "held"
    BY <1>1 DEF ProcessType
<1>3. SameBlocks(p) /\ Process_Map'[p] = Process_Map[p]
    BY SameListSameBlocks DEF lists
<1>4. Soft_List(p)
    BY <1>3 DEF SameBlocks, Soft_List
<1> QED BY <1>2, <1>4 DEF Soft, Soft_Proc, Soft_Maps, lists

\* A process is ended by a thread or by the service.
LEMMA EndFacts ==
    ASSUME TypeOK, NEW p \in Pids, UNCHANGED <<lists, notify>>, End(p)
    PROVE  os' \in [Pids -> ProcessType] /\ \A q \in Pids : Soft(q)
<1>1. /\ os' = [os EXCEPT ![p] = os'[p]]
      /\ \A q \in Pids : q # p => os'[q] = os[q]
      /\ \/ os'[p] = os[p]
         \/ /\ os[p].st \in {"running", "suspended"}
            /\ os'[p] = [os[p] EXCEPT !.st = "held"]
    <2>1. os[p] \in ProcessType /\ os \in [Pids -> ProcessType]
        BY DEF TypeOK
    <2>2. CASE os[p].st \in {"running", "suspended"}
        BY <2>1, <2>2 DEF End
    <2>3. CASE os[p].st \notin {"running", "suspended"}
        <3>1. os' = [os EXCEPT ![p] = [os[p] EXCEPT !.st = os[p].st]]
            BY <2>3 DEF End
        <3>2. [os[p] EXCEPT !.st = os[p].st] = os[p]
            BY <2>1 DEF ProcessType
        <3> QED BY <2>1, <3>1, <3>2
    <2> QED BY <2>2, <2>3
<1>2. \A q \in Pids : os'[q] \in ProcessType /\ Soft(q)
    BY <1>1, EndIsSoft
<1>3. os' \in [Pids -> ProcessType]
    BY <1>1, <1>2 DEF TypeOK
<1> QED BY <1>2, <1>3

\* The thread of Process_ScheduleKill ends a process.
LEMMA StepScheduleKillProc ==
    ASSUME LifeInv, NEW p \in Pids, Process_ScheduleKillProc(p)
    PROVE  LifeInv'
<1>1. TypeOK
    BY DEF LifeInv
<1>2. os' \in [Pids -> ProcessType] /\ \A q \in Pids : Soft(q)
    BY <1>1, EndFacts DEF Process_ScheduleKillProc
<1>3. TypeOK'
    BY <1>1, <1>2 DEF TypeOK, Process_ScheduleKillProc, lists, service
<1> QED BY <1>1, <1>2, <1>3, SoftLife DEF Process_ScheduleKillProc, service, TypeOK

\* The service takes a message from the port.
LEMMA StepReceive ==
    ASSUME LifeInv, NEW m \in port, Receive(m)
    PROVE  LifeInv'
<1>1. TypeOK /\ m.pid \in Pids /\ m.ct \in Ct
    BY DEF LifeInv, TypeOK
<1>2. /\ UNCHANGED <<created, lists, notify, kills, svc, deaths>>
      /\ port' = port \ {m}
      /\ \/ UNCHANGED os /\ workers' = workers \cup {Message("open", m.pid, m.ct)}
         \/ End(m.pid) /\ UNCHANGED workers
         \/ UNCHANGED <<os, workers>>
    BY DEF Receive
<1>3. os' \in [Pids -> ProcessType] /\ \A q \in Pids : Soft(q)
    <2>1. CASE UNCHANGED os
        BY <1>1, <1>2, <2>1, SameIsSoft DEF lists, Same, TypeOK
    <2>2. CASE End(m.pid)
        BY <1>1, <1>2, <2>2, EndFacts
    <2> QED BY <1>2, <2>1, <2>2
<1>4. \A w \in workers' : \/ w \in workers
                         \/ w = Message("open", m.pid, m.ct)
    BY <1>2
<1>5. TypeOK'
    <2>1. workers' \subseteq [kind : {"open", "inject", "complete", "report"},
                               pid : Pids, ct : Ct]
        BY <1>1, <1>4 DEF TypeOK, Message
    <2> QED BY <1>1, <1>2, <1>3, <2>1 DEF TypeOK, lists
<1>6. \A w \in workers' : w \in workers \/ Works(w)'
    BY <1>4 DEF Works, Message
<1> QED BY <1>1, <1>2, <1>3, <1>5, <1>6, SoftLife DEF TypeOK

\* The service starts, is ready, dies and is gone.
LEMMA StepService ==
    ASSUME LifeInv, SvcStart \/ SvcReady \/ SvcDies \/ SvcGone
    PROVE  LifeInv'
<1>1. TypeOK
    BY DEF LifeInv
<1>2. /\ UNCHANGED <<created, lists, kills>>
      /\ workers' \subseteq workers /\ port' \subseteq port
      /\ svc' \in {"down", "starting", "ready", "dying"} /\ deaths' \in 0..MaxDeaths
    BY <1>1, BoundAssumption DEF SvcStart, SvcReady, SvcDies, SvcGone, TypeOK
<1>3. /\ os' \in [Pids -> ProcessType] /\ notify' \in [Pids -> CallType]
      /\ \A q \in Pids : Soft(q)
    <2>1. CASE UNCHANGED <<os, notify>>
        BY <1>1, <1>2, <2>1, SameIsSoft DEF lists, Same, TypeOK
    <2>2. CASE SvcDies
        <3>1. \A q \in Pids : \/ os'[q] = os[q]
                              \/ /\ os[q].st \in {"running", "suspended"}
                                 /\ os'[q] = [os[q] EXCEPT !.st = "held"]
            BY <2>2 DEF SvcDies
        <3>2. \A q \in Pids : os'[q] \in ProcessType /\ Soft(q)
            BY <1>1, <1>2, <2>2, <3>1, EndIsSoft DEF SvcDies
        <3>3. os' = [q \in Pids |-> os'[q]] /\ notify' = notify
            BY <2>2 DEF SvcDies
        <3> QED BY <1>1, <3>2, <3>3 DEF TypeOK
    <2>3. CASE SvcGone
        <3>1. \A q \in Pids : /\ notify'[q] \in CallType /\ os'[q] = os[q]
                              /\ \/ notify'[q] = notify[q]
                                 \/ notify'[q] = [notify[q] EXCEPT !.parent = Host]
            <4>1. \A n \in CallType : [n EXCEPT !.parent = Host] \in CallType
                BY DEF CallType, Actors
            <4>2. notify \in [Pids -> CallType] /\ os' = os
                BY <1>1, <2>3 DEF SvcGone, TypeOK
            <4>3. notify' = [q \in Pids |-> IF notify[q].parent = Svc
                              THEN [notify[q] EXCEPT !.parent = Host] ELSE notify[q]]
                BY <2>3 DEF SvcGone
            <4> QED BY <4>1, <4>2, <4>3
        <3>2. \A q \in Pids : Soft(q)
            <4> SUFFICES ASSUME NEW q \in Pids, notify'[q] # notify[q] PROVE Soft(q)
                BY <1>2, <2>3, SameIsSoft DEF Same, SvcGone, lists
            <4>1. /\ notify'[q] = [notify[q] EXCEPT !.parent = Host]
                  /\ notify[q] \in CallType /\ Host # Svc
                  /\ notify[q].pc # "idle" => notify[q].caller # Svc
                BY <1>1, <2>3, <3>1, ActorAssumption DEF SvcGone, TypeOK
            <4>2. /\ notify'[q].pc = notify[q].pc /\ notify'[q].caller = notify[q].caller
                  /\ notify'[q].parent = Host /\ notify'[q].box = notify[q].box
                  /\ notify'[q].mode = notify[q].mode /\ notify'[q].tries = notify[q].tries
                BY <4>1 DEF CallType
            <4>3. SameBlocks(q)
                BY <1>2, SameListSameBlocks DEF lists
            <4>4. Soft_List(q) /\ Soft_Maps(q)
                BY <1>2, <3>1, <4>3 DEF SameBlocks, Soft_List, Soft_Maps, lists
            <4>5. notify[q].pc = "wait" => notify[q].tries < MaxRetries
                BY DEF LifeInv, ProcInv, Called
            <4>6. Soft_Proc(q)
                BY <3>1, <4>1, <4>2, <4>5 DEF Soft_Proc
            <4> QED BY <4>4, <4>6 DEF Soft
        <3> QED BY <1>1, <2>3, <3>1, <3>2 DEF SvcGone, TypeOK
    <2> QED BY <2>1, <2>2, <2>3 DEF SvcStart, SvcReady
<1>4. TypeOK'
    BY <1>1, <1>2, <1>3 DEF TypeOK, lists
<1> QED BY <1>1, <1>2, <1>3, <1>4, SoftLife DEF TypeOK

\* The first image of a process: its block is prepared, or marked and reported.
LEMMA StepNotifyImage ==
    ASSUME LifeInv, NEW p \in Pids, Process_NotifyImage(p)
    PROVE  LifeInv'
<1>1. TypeOK /\ Found(p)
    BY DEF LifeInv, Process_NotifyImage
<1>2. /\ UNCHANGED <<os, created, Process_MapDfp, Process_MapFcp, late, notify, svc,
                     workers, deaths>>
      /\ kills' \subseteq Pids
      /\ \/ Process_Map' = Flagged(p, "initialized") /\ port' = port
         \/ /\ Process_Map' = Flagged(p, "terminated")
            /\ \A m \in port' : \/ m \in port
                               \/ m = Message("cancel", p, Process_Find(p).ct)
    BY <1>1 DEF Process_NotifyImage, TypeOK
<1>3. Process_Map' \in [Pids -> Seq(BlockType)] /\ \A q \in Pids : Soft(q)
    BY <1>1, <1>2, MarkIsSoft, FlaggedFacts DEF Marking
<1>4. PICK k \in Ct : k = Process_Find(p).ct /\ k <= created
    <2>1. Process_Find(p) \in Blocks(p) /\ Process_Find(p) \in BlockType
        BY <1>1, FindFacts
    <2>2. Process_Find(p).ct <= created /\ Process_Find(p).ct # 0
        BY <2>1 DEF Process_NotifyImage, LifeInv, ProcInv, Aged
    <2> QED BY <2>1, <2>2 DEF BlockType
<1>5. \A m \in port' : m \in port \/ /\ Process_Map' = Flagged(p, "terminated")
                                     /\ m = Message("cancel", p, k)
    BY <1>2, <1>4
<1>6. TypeOK'
    <2>1. port' \subseteq [kind : {"inject", "cancel"}, pid : Pids, ct : Ct]
        BY <1>1, <1>4, <1>5 DEF TypeOK, Message
    <2> QED BY <1>1, <1>2, <1>3, <2>1 DEF TypeOK
<1>7. \A m \in port' : m \in port \/ Cancels(m)'
    <2> SUFFICES ASSUME Process_Map' = Flagged(p, "terminated")
                 PROVE  Cancels(Message("cancel", p, k))'
        BY <1>5
    <2>1. Found(p)' /\ "terminated" \in Process_Find(p)'.flags
        BY <1>1, FlaggedFacts DEF Marking
    <2>2. os'[p].st = "running"
        BY <1>2 DEF Process_NotifyImage
    <2> QED BY <1>2, <1>4, <2>1, <2>2 DEF Cancels, Message
<1> QED BY <1>1, <1>2, <1>3, <1>6, <1>7, SoftLife DEF TypeOK

\* The maps of exemptions and of forced children.
LEMMA StepSession ==
    ASSUME LifeInv, NEW p \in Pids,
           \/ Session_Api_DisableForce(p)
           \/ \E box \in Boxes : Session_Api_ForceChildren(p, box)
    PROVE  LifeInv'
<1>1. TypeOK
    BY DEF LifeInv
<1>2. /\ UNCHANGED <<os, created, Process_Map, notify, kills, service>>
      /\ os[p].st \in {"free", "gone"} => p \in late'
      /\ late \subseteq late' /\ late' \subseteq Pids
      /\ \A q \in Pids : q # p => /\ Process_MapFcp'[q] = Process_MapFcp[q]
                                  /\ q \in Process_MapDfp' => q \in Process_MapDfp
      /\ Process_MapDfp' \subseteq Pids /\ Process_MapFcp' \in [Pids -> Boxes \cup {NoBox}]
    BY <1>1 DEF Session_Api_DisableForce, Session_Api_ForceChildren, TypeOK
<1>3. TypeOK'
    BY <1>1, <1>2 DEF TypeOK, service
<1>4. Soft(p)
    <2>1. Soft_List(p)
        <3>1. SameBlocks(p)
            BY <1>2, SameListSameBlocks
        <3> QED BY <1>2, <3>1 DEF SameBlocks, Soft_List
    <2> QED BY <1>2, <2>1 DEF Soft, Soft_Proc, Soft_Maps
<1>5. \A q \in Pids : Soft(q)
    BY <1>2, <1>4, SameIsSoft DEF Same
<1> QED BY <1>1, <1>2, <1>3, <1>5, SoftLife DEF TypeOK, service

\* A call goes on to another place, with box and mode as it decides.
Moved(p, pc) ==
    /\ notify' \in [Pids -> CallType]
    /\ notify'[p].pc = pc /\ notify'[p].caller = notify[p].caller
    /\ notify'[p].parent = notify[p].parent
    /\ \A q \in Pids : q # p => notify'[q] = notify[q]

\* What Goto changes: the place of one notification.
LEMMA GotoFacts ==
    ASSUME TypeOK, NEW p \in Pids, NEW pc \in {"parent", "force", "send", "poll", "wait"},
           Goto(p, pc)
    PROVE  /\ Moved(p, pc) /\ notify'[p].box = notify[p].box
           /\ notify'[p].mode = notify[p].mode /\ notify'[p].tries = notify[p].tries
<1> DEFINE r == [notify[p] EXCEPT !.pc = pc]
<1>1. notify[p] \in CallType
    BY DEF TypeOK
<1>2. /\ r \in CallType /\ r.pc = pc /\ r.caller = notify[p].caller
      /\ r.parent = notify[p].parent /\ r.box = notify[p].box /\ r.mode = notify[p].mode
      /\ r.tries = notify[p].tries
    BY <1>1 DEF CallType
<1>3. notify' = [notify EXCEPT ![p] = r]
    BY DEF Goto
<1> HIDE DEF r
<1>4. /\ notify' \in [Pids -> CallType] /\ notify'[p] = r
      /\ \A q \in Pids : q # p => notify'[q] = notify[q]
    BY <1>2, <1>3 DEF TypeOK
<1> QED BY <1>2, <1>4 DEF Moved

\* A notification goes to Process_Create with a box and a mode.
LEMMA GotoCreateFacts ==
    ASSUME TypeOK, NEW p \in Pids, NEW box \in Boxes \cup {NoBox},
           NEW mode \in SUBSET {"host", "api", "child"}, GotoCreate(p, box, mode)
    PROVE  Moved(p, "create") /\ notify'[p].box = box /\ notify'[p].mode = mode
<1> DEFINE r == [notify[p] EXCEPT !.pc = "create", !.box = box, !.mode = mode]
<1>1. notify[p] \in CallType
    BY DEF TypeOK
<1>2. /\ r \in CallType /\ r.pc = "create" /\ r.caller = notify[p].caller
      /\ r.parent = notify[p].parent /\ r.box = box /\ r.mode = mode
    BY <1>1 DEF CallType
<1>3. notify' = [notify EXCEPT ![p] = r]
    BY DEF GotoCreate, TypeOK
<1> HIDE DEF r
<1>4. /\ notify' \in [Pids -> CallType] /\ notify'[p] = r
      /\ \A q \in Pids : q # p => notify'[q] = notify[q]
    BY <1>2, <1>3 DEF TypeOK
<1> QED BY <1>2, <1>4 DEF Moved

\* The call of a process waits for the service: it sends, looks, waits.
Waits(p) ==
    /\ notify[p].pc \in {"send", "poll", "wait"} /\ UNCHANGED <<os, created, lists, kills>>
    /\ \E pc \in {"poll", "wait"} : Moved(p, pc)
    /\ notify'[p].box = notify[p].box /\ notify'[p].mode = notify[p].mode
    /\ notify'[p].pc = "wait" => notify'[p].tries < MaxRetries
    /\ UNCHANGED <<svc, workers, deaths>>
    /\ port' = port \/ port' = port \cup {Message("inject", p, os[p].ct)}

\* Sending, polling and waiting for the service keep the invariant.
LEMMA StepWaits ==
    ASSUME LifeInv, NEW p \in Pids, Waits(p)
    PROVE  LifeInv'
<1>1. TypeOK
    BY DEF LifeInv
<1>2. os[p].ct \in Ct
    BY <1>1 DEF LifeInv, ProcInv, Aged, Called, Waits, TypeOK, ProcessType
<1>3. TypeOK'
    <2>1. port' \subseteq [kind : {"inject", "cancel"}, pid : Pids, ct : Ct]
        BY <1>1, <1>2 DEF TypeOK, Waits, Message
    <2> QED BY <1>1, <2>1 DEF TypeOK, Waits, Moved, lists
<1>4. Soft(p)
    <2>1. Soft_List(p)
        <3>1. SameBlocks(p)
            BY SameListSameBlocks DEF Waits, lists
        <3> QED BY <3>1 DEF SameBlocks, Soft_List, Waits, lists
    <2> QED BY <2>1 DEF Soft, Soft_Proc, Soft_Maps, Waits, Moved, lists
<1>5. \A q \in Pids : Soft(q)
    BY <1>4, SameIsSoft DEF Same, Waits, Moved, lists
<1>6. \A m \in port' : m \in port \/ Cancels(m)'
    BY DEF Waits, Cancels, Message
<1> QED BY <1>1, <1>3, <1>5, <1>6, SoftLife DEF TypeOK, Waits

-----------------------------------------------------------------------------
(* The steps that take a process further *)

\* A process that is being created, or is gone, creates none.
LEMMA CreatesNone ==
    ASSUME LifeInv, NEW p \in Pids,
           notify[p].pc # "idle" \/ os[p].st \in {"free", "suspended", "gone"}
    PROVE  \A q \in Pids : notify[q].pc # "idle" => notify[q].caller # p
BY DEF LifeInv, ProcInv, Created

\* What holds of the creator still holds after a step that does not touch it.
LEMMA CreatorStays ==
    ASSUME LifeInv, NEW p \in Pids, notify[p].pc # "idle",
           \A q \in Pids : q # p => Same(q)
    PROVE  LET c == notify[p].caller IN
           /\ c \in Pids => /\ os'[c].st \in {"running", "held"}
                            /\ notify'[c].pc = "idle"
<1> DEFINE c == notify[p].caller
<1>1. c # p
    BY CreatesNone
<1>2. c \in Pids => os[c].st \in {"running", "held"} /\ notify[c].pc = "idle"
    BY DEF LifeInv, ProcInv, Created
<1> QED BY <1>1, <1>2 DEF Same

\* The call for p goes on among its first steps.
Decides(p) ==
    /\ notify[p].pc \in {"caller", "parent", "force"} /\ notify[p].parent # Svc
    /\ UNCHANGED <<os, created, Process_Map, Process_MapFcp, late, kills, service>>
    /\ Process_MapDfp' \subseteq Process_MapDfp \cup {p}
    /\ \E pc \in {"parent", "force", "create"} : Moved(p, pc)
    /\ os[p].from # NoBox =>
          /\ notify'[p].pc = "create" /\ notify'[p].box = os[p].from
          /\ notify'[p].mode = {"child"}

\* A decision on the box keeps the invariant: that of the creator comes first.
LEMMA StepDecides ==
    ASSUME LifeInv, NEW p \in Pids, Decides(p)
    PROVE  LifeInv'
<1> USE DEF LifeInv
<1>1. TypeOK'
    BY DEF TypeOK, Decides, Moved, service
<1>2. \A q \in Pids : q # p => Same(q)
    BY DEF Decides, Moved, Same
<1>3. \A q \in Pids : notify[q].pc # "idle" => notify[q].caller # p
    BY CreatesNone DEF Decides
<1>4. SameBlocks(p) /\ os'[p] = os[p] /\ Process_Map'[p] = Process_Map[p]
      /\ os[p].st = "new"
    BY SameListSameBlocks DEF Decides, ProcInv, Called
<1>5. ProcInv(p)'
    <2>1. Aged(p)' /\ Loaded(p)' /\ Runs(p)' /\ Child(p)'
        BY <1>4 DEF ProcInv, Aged, Loaded, Runs, Child, SameBlocks, Decides
    <2>2. Called(p)'
        BY <1>4 DEF ProcInv, Called, Decides, Moved
    <2>3. Created(p)'
        BY <1>2, <1>4, CreatorStays DEF Created, Decides, Moved
    <2>4. Entered(p)'
        BY <1>4 DEF ProcInv, Entered, Early, SameBlocks, Decides, Moved
    <2>5. Clean(p)'
        BY <1>4 DEF ProcInv, Clean, Early, SameBlocks, Decides, Moved
    <2> QED BY <2>1, <2>2, <2>3, <2>4, <2>5 DEF ProcInv
<1>6. \A m \in port : m.pid = p /\ m.kind = "cancel" => os'[p].ct # m.ct
    BY <1>4 DEF PortInv, Cancels
<1>7. \A w \in workers' : w \in workers /\ (w.pid = p => Works(w)')
    BY <1>4 DEF WorkInv, Works, Decides, service
<1>8. Further(p)
    BY <1>2, <1>3, <1>6, <1>7 DEF Further, Decides, service, TypeOK
<1> QED BY <1>1, <1>5, <1>8, OneProcess

\* The service asks for a process that it created to be put into a box.
LEMMA StepApiStart ==
    ASSUME LifeInv, NEW p \in Pids, NEW box \in Boxes, Process_Api_Start(p, box)
    PROVE  LifeInv'
<1> USE DEF LifeInv
<1> DEFINE r == [NoCall EXCEPT !.pc = "create", !.caller = Svc, !.parent = Svc,
                               !.box = box, !.mode = {"api"}]
<1>1. /\ r \in CallType /\ r.pc = "create" /\ r.caller = Svc /\ r.parent = Svc
      /\ r.mode = {"api"}
    <2>1. 0 \in 0..MaxRetries
        BY BoundAssumption
    <2> QED BY <2>1 DEF NoCall, CallType, Actors
<1>2. notify' = [notify EXCEPT ![p] = r]
    BY DEF Process_Api_Start
<1> HIDE DEF r
<1>3. /\ notify' \in [Pids -> CallType] /\ notify'[p] = r
      /\ \A q \in Pids : q # p => notify'[q] = notify[q]
    BY <1>1, <1>2 DEF TypeOK
<1>4. TypeOK'
    BY <1>3 DEF TypeOK, Process_Api_Start, lists, service
<1>5. \A q \in Pids : q # p => Same(q)
    BY <1>3 DEF Process_Api_Start, Same, lists
<1>6. \A q \in Pids : notify[q].pc # "idle" => notify[q].caller # p
    BY CreatesNone DEF Process_Api_Start
<1>7. /\ SameBlocks(p) /\ os'[p] = os[p] /\ Process_Map'[p] = Process_Map[p]
      /\ os[p].st = "suspended" /\ notify[p].pc = "idle" /\ created' = created
      /\ UNCHANGED lists
    BY SameListSameBlocks DEF Process_Api_Start, lists
<1>8. ProcInv(p)'
    <2>1. Aged(p)' /\ Loaded(p)' /\ Runs(p)' /\ Child(p)'
        BY <1>7 DEF ProcInv, Aged, Loaded, Runs, Child, SameBlocks
    <2>2. Called(p)' /\ os[p].from = NoBox
        BY <1>1, <1>3, <1>7 DEF ProcInv, Called
    <2>3. Created(p)'
        BY <1>1, <1>3, <1>7, <2>2 DEF Created
    <2>4. Entered(p)'
        BY <1>1, <1>3, <1>7 DEF ProcInv, Entered, Early, SameBlocks
    <2>5. Clean(p)'
        BY <1>1, <1>3, <1>7 DEF ProcInv, Clean, Early, SameBlocks, lists
    <2> QED BY <2>1, <2>2, <2>3, <2>4, <2>5 DEF ProcInv
<1>9. \A m \in port : m.pid = p /\ m.kind = "cancel" => os'[p].ct # m.ct
    BY <1>7 DEF PortInv, Cancels
<1>10. \A w \in workers' : w \in workers /\ (w.pid = p => Works(w)')
    BY <1>7 DEF WorkInv, Works, Process_Api_Start, service
<1>11. Further(p)
    BY <1>5, <1>6, <1>9, <1>10 DEF Further, Process_Api_Start, service, TypeOK
<1> QED BY <1>4, <1>8, <1>11, OneProcess

-----------------------------------------------------------------------------
(* The end of a call *)

\* The call for p ends; the maps change for p at most, and an exemption is added
\* only for a process that exists.
Ends(p) ==
    /\ notify[p].pc # "idle" /\ Ended(p) /\ os[p].marks \subseteq os'[p].marks
    /\ UNCHANGED <<created, Process_MapFcp, kills, service>>
    /\ \A q \in Pids : q # p => Process_Map'[q] = Process_Map[q] /\ (q \in late => q \in late')
    /\ Process_MapDfp' \subseteq Process_MapDfp \cup {p}
    /\ os[p].st = "gone" => (p \in Process_MapDfp' => p \in Process_MapDfp)
    /\ os'[p].st = "suspended" => notify[p].pc = "caller" /\ notify[p].caller = Svc

\* Such a step takes only p further.
LEMMA EndsFurther ==
    ASSUME LifeInv, NEW p \in Pids, Ends(p)
    PROVE  Further(p)
<1> USE DEF LifeInv
<1>1. \A q \in Pids : q # p => Same(q)
    BY DEF Ends, Ended, Same
<1>2. \A q \in Pids : notify[q].pc # "idle" => notify[q].caller # p
    BY CreatesNone DEF Ends
<1>3. \A w \in workers' : w \in workers /\ (w.pid = p => Works(w)')
    BY DEF WorkInv, Works, Ends, Ended, service
<1>4. os[p].st \in {"new", "suspended", "held", "gone"}
    BY DEF ProcInv, Called, Ends
<1>5. \A m \in port : m.pid = p /\ m.kind = "cancel" /\ os'[p].ct = m.ct
                       => os'[p].st \in {"held", "gone"}
    BY <1>4 DEF PortInv, Cancels, Ends, Ended
<1> QED BY <1>1, <1>2, <1>3, <1>5 DEF Further, Ends, service, TypeOK

\* The types after the end of a call.
LEMMA EndsTyped ==
    ASSUME LifeInv, NEW p \in Pids, Ends(p),
           Process_Map' \in [Pids -> Seq(BlockType)], late' \subseteq Pids
    PROVE  TypeOK'
BY DEF LifeInv, TypeOK, Ends, Ended, service

\* A call that ends with the blocks it found, at most marked.
LEMMA StepEnds ==
    ASSUME LifeInv, NEW p \in Pids, Ends(p), Soft_List(p), late' = late,
           Process_Map' \in [Pids -> Seq(BlockType)],
           os'[p].st = "running" => Runs(p)' /\ Child(p)'
    PROVE  LifeInv'
<1> USE DEF LifeInv
<1>1. TypeOK'
    BY EndsTyped DEF TypeOK
<1>2. /\ os[p].st \in {"new", "suspended", "held", "gone"} /\ os'[p].st # "free"
      /\ os'[p].ct = os[p].ct /\ os'[p].from = os[p].from /\ notify'[p].pc = "idle"
    BY DEF ProcInv, Called, Ends, Ended
<1>3. Aged(p)'
    <2>1. ASSUME NEW b \in Blocks(p)'
          PROVE  b.ct <= created' /\ ("terminated" \notin b.flags => b.ct # 0)
        <3>1. PICK a \in Blocks(p) :
                 b.ct = a.ct /\ ("terminated" \in a.flags => "terminated" \in b.flags)
            BY DEF Soft_List
        <3>2. a.ct <= created /\ ("terminated" \notin a.flags => a.ct # 0)
            BY DEF ProcInv, Aged
        <3> QED BY <3>1, <3>2 DEF Ends
    <2> QED BY <1>2, <2>1 DEF Aged, ProcInv, Ends
<1>4. Called(p)' /\ Created(p)'
    BY <1>2 DEF ProcInv, Called, Created, Ends
<1>5. Early(p)' => Early(p)
    BY <1>2 DEF Early, Ends
<1>6. Entered(p)'
    <2>1. Early(p)' => \A b \in Blocks(p)' : b.ct # os'[p].ct
        BY <1>2, <1>5 DEF ProcInv, Entered, Soft_List
    <2> QED BY <1>2, <2>1 DEF Entered
<1>7. Loaded(p)'
    BY <1>2 DEF ProcInv, Loaded, Soft_List, Ends
<1>8. Runs(p)' /\ Child(p)'
    BY DEF Runs, Child
<1>9. Clean(p)'
    BY <1>2, <1>5 DEF ProcInv, Clean, Soft_List, Ends, Ended
<1>10. ProcInv(p)'
    BY <1>3, <1>4, <1>6, <1>7, <1>8, <1>9 DEF ProcInv
<1> QED BY <1>1, <1>10, EndsFurther, OneProcess

\* What a new block in front does to the list of a process that has none of its own.
LEMMA EntryInv ==
    ASSUME LifeInv, NEW p \in Pids, NEW block \in BlockType, Entry(p, block),
           block.ct \in {0, os[p].ct}, "low" \notin block.flags,
           "terminated" \notin block.flags => block.ct # 0,
           os'[p].ct = os[p].ct, os[p].st # "free", os'[p].st # "free",
           os'[p].st = "gone" => os[p].st = "gone",
           os[p].marks \subseteq os'[p].marks, created' = created,
           Early(p), ~Early(p)'
    PROVE  Aged(p)' /\ Loaded(p)' /\ Clean(p)'
<1> USE DEF LifeInv
<1>1. block.ct <= created
    BY BoundAssumption DEF ProcInv, Aged, TypeOK
<1>2. Aged(p)'
    BY <1>1 DEF ProcInv, Aged, Entry
<1>3. Loaded(p)'
    BY DEF ProcInv, Loaded, Entry
<1>4. Clean(p)'
    <2> SUFFICES ASSUME p \notin late' PROVE Clean(p)'
        BY DEF Clean
    <2>1. Process_Map[p] = <<>> /\ os[p].st # "gone"
        BY DEF ProcInv, Clean, Entry
    <2>2. Len(Process_Map'[p]) = 1 /\ Process_Find(p)' = block
        BY <2>1 DEF Entry
    <2> QED BY <2>1, <2>2 DEF Clean
<1> QED BY <1>2, <1>3, <1>4

\* A call that ends with a block that is terminated from the start.
LEMMA StepRefused ==
    ASSUME LifeInv, NEW p \in Pids, Ends(p), Early(p), os'[p].st \in {"held", "gone"},
           NEW k \in {0, os[p].ct}, NEW box \in Boxes \cup {NoBox},
           Entry(p, Block(k, box, {"terminated"}))
    PROVE  LifeInv'
<1> USE DEF LifeInv
<1> DEFINE block == Block(k, box, {"terminated"})
<1>1. TypeOK'
    BY EndsTyped DEF Entry
<1>2. /\ os[p].st # "free" /\ os'[p].st # "free" /\ os'[p].ct = os[p].ct
      /\ os'[p].from = os[p].from /\ notify'[p].pc = "idle"
      /\ os'[p].st = "gone" => os[p].st = "gone"
      /\ created' = created /\ os[p].marks \subseteq os'[p].marks
    BY DEF ProcInv, Called, Ends, Ended
<1>3. /\ block \in BlockType /\ block.ct = k /\ block.flags = {"terminated"}
    <2>1. k \in Ct \cup {0}
        BY DEF TypeOK, ProcessType
    <2> QED BY <2>1 DEF Block, BlockType
<1> HIDE DEF block
<1>4. ~Early(p)'
    BY <1>2 DEF Early
<1>5. Entry(p, block)
    BY DEF block
<1>6. Aged(p)' /\ Loaded(p)' /\ Clean(p)'
    BY <1>2, <1>3, <1>4, <1>5, EntryInv
<1>7. Called(p)' /\ Created(p)' /\ Entered(p)' /\ Runs(p)' /\ Child(p)'
    BY <1>2, <1>4 DEF Called, Created, Entered, Runs, Child
<1>8. ProcInv(p)'
    BY <1>6, <1>7 DEF ProcInv
<1> QED BY <1>1, <1>8, EndsFurther, OneProcess

\* Process_CreateTerminated, and the refusal of the process.
LEMMA StepDeny ==
    ASSUME LifeInv, NEW p \in Pids, Deny(p), Early(p), notify[p].pc # "idle",
           UNCHANGED <<created, Process_MapFcp, kills, service>>,
           Process_MapDfp' \subseteq Process_MapDfp \cup {p},
           os[p].st = "gone" => (p \in Process_MapDfp' => p \in Process_MapDfp)
    PROVE  LifeInv'
<1> USE DEF LifeInv
<1>1. Return(p, FALSE, {})
    BY DEF Deny
<1>2. /\ Ended(p) /\ os'[p].marks = os[p].marks
      /\ os'[p].st # "running" /\ os'[p].st # "suspended"
    <2>1. Returned(p, FALSE, {})
        BY <1>1, ReturnFacts
    <2> QED BY <2>1 DEF Returned
<1>3. os'[p].st \in {"held", "gone"}
    BY <1>2 DEF Ended
<1>4. CASE Enter(p, Block(0, NoBox, {"terminated"}))
    <2>1. Block(0, NoBox, {"terminated"}) \in BlockType
        BY DEF Block, BlockType
    <2>2. Entry(p, Block(0, NoBox, {"terminated"}))
        BY <1>4, <2>1, EnterFacts
    <2>3. Ends(p)
        BY <1>2, <2>2 DEF Ends, Entry
    <2> QED BY <1>3, <2>2, <2>3, StepRefused
<1>5. CASE UNCHANGED <<Process_Map, late>>
    <2>1. Ends(p)
        BY <1>2, <1>5 DEF Ends
    <2>2. SameBlocks(p)
        BY <1>5, SameListSameBlocks
    <2>3. Soft_List(p)
        BY <1>5, <2>2 DEF SameBlocks, Soft_List
    <2> QED BY <1>3, <1>5, <2>1, <2>3, StepEnds DEF TypeOK
<1> QED BY <1>4, <1>5 DEF Deny, CreateTerminated

\* A process that needs no block: of the service, exempt, or forced nowhere.
LEMMA StepOutside ==
    ASSUME LifeInv, NEW p \in Pids, Return(p, TRUE, {}),
           notify[p].pc \in {"caller", "parent", "force"}, os[p].from = NoBox,
           UNCHANGED <<created, Process_Map, late, Process_MapFcp, kills, service>>,
           Process_MapDfp' \subseteq Process_MapDfp \cup {p}
    PROVE  LifeInv'
<1> USE DEF LifeInv
<1>1. /\ Ended(p) /\ os'[p].marks = os[p].marks
      /\ os'[p].st = "suspended" => /\ notify[p].caller = Svc
                                    /\ "api" \notin notify[p].mode
    <2>1. Returned(p, TRUE, {})
        BY ReturnFacts
    <2> QED BY <2>1 DEF Returned
<1>2. os[p].st = "new" /\ (os'[p].st = "suspended" => notify[p].pc = "caller")
    BY <1>1 DEF ProcInv, Called
<1>3. Ends(p)
    BY <1>1, <1>2 DEF Ends
<1>4. SameBlocks(p)
    BY SameListSameBlocks
<1>5. Soft_List(p)
    BY <1>4 DEF SameBlocks, Soft_List
<1>6. Child(p)'
    BY <1>1 DEF Child, Ended
<1>7. Runs(p)'
    <2>1. \A b \in Blocks(p) : b.ct # os[p].ct
        BY DEF ProcInv, Entered, Early
    <2>2. Found(p) => Process_Find(p) \in Blocks(p)
        BY FindFacts
    <2> QED BY <1>1, <1>4, <2>1, <2>2 DEF Runs, Ended, SameBlocks, Boxed
<1> QED BY <1>3, <1>5, <1>6, <1>7, StepEnds DEF TypeOK

-----------------------------------------------------------------------------
(* The steps of a call *)

\* The branch under the lock, by the block of q.
LEMMA StepDecide ==
    ASSUME LifeInv, NEW p \in Pids, NEW q, Decide(p, q),
           notify[p].pc \in {"caller", "parent"}, notify[p].parent # Svc,
           UNCHANGED <<created, kills, service>>,
           os[p].from # NoBox => Boxed(q) /\ Process_Find(q).box = os[p].from
    PROVE  LifeInv'
<1> USE DEF LifeInv
<1>1. Early(p) /\ os[p].st = "new"
    BY DEF Early, ProcInv, Called
<1>2. CASE /\ Boxed(q) /\ UNCHANGED <<Process_MapDfp, Process_MapFcp>>
           /\ GotoCreate(p, Process_Find(q).box, {"child"})
           /\ UNCHANGED <<os, Process_Map, late>>
    <2>1. Process_Find(q).box \in Boxes \cup {NoBox}
        <3>1. q \in Pids /\ Found(q)
            BY <1>2 DEF Boxed, Found
        <3>2. Process_Find(q) \in BlockType
            BY <3>1, FindFacts
        <3> QED BY <3>2 DEF BlockType
    <2>2. /\ Moved(p, "create") /\ notify'[p].box = Process_Find(q).box
          /\ notify'[p].mode = {"child"}
        BY <1>2, <2>1, GotoCreateFacts
    <2>3. Decides(p)
        BY <1>2, <2>2 DEF Decides, Moved
    <2> QED BY <2>3, StepDecides
<1>3. CASE UNCHANGED <<Process_MapDfp, Process_MapFcp>> /\ Deny(p)
    BY <1>1, <1>3, StepDeny
<1>4. CASE /\ ~Boxed(q) /\ UNCHANGED <<Process_Map, Process_MapFcp, late>>
           /\ Process_MapDfp' = Process_MapDfp \cup {p} /\ Return(p, TRUE, {})
    BY <1>4, StepOutside
<1>5. CASE /\ ~Boxed(q) /\ UNCHANGED <<Process_Map, Process_MapFcp, late>>
           /\ Process_MapDfp' = Process_MapDfp \ {p} /\ Goto(p, "force") /\ UNCHANGED os
    <2>1. Moved(p, "force")
        BY <1>5, GotoFacts
    <2>2. Decides(p)
        BY <1>5, <2>1 DEF Decides
    <2> QED BY <2>2, StepDecides
<1> QED BY <1>2, <1>3, <1>4, <1>5 DEF Decide

\* The creator's block is looked at.
LEMMA StepFindCaller ==
    ASSUME LifeInv, NEW p \in Pids, FindCaller(p)
    PROVE  LifeInv'
<1> USE DEF LifeInv
<1> DEFINE c == notify[p].caller
<1>1. /\ notify[p].pc = "caller" /\ Early(p) /\ os[p].st = "new"
      /\ UNCHANGED <<created, kills, service>>
    BY DEF FindCaller, Early, ProcInv, Called
<1>2. /\ c = Svc => notify[p].parent = Svc
      /\ notify[p].parent = Svc => os[p].from = NoBox
      /\ os[p].from # NoBox => Boxed(c) /\ Process_Find(c).box = os[p].from
    BY <1>1 DEF ProcInv, Called, Created
<1>3. CASE Deny(p) /\ UNCHANGED <<Process_MapDfp, Process_MapFcp>>
    BY <1>1, <1>3, StepDeny
<1>4. CASE notify[p].parent = Svc /\ Return(p, TRUE, {}) /\ UNCHANGED lists
    BY <1>1, <1>2, <1>4, StepOutside DEF lists
<1>5. CASE notify[p].parent # Svc /\ Decide(p, c)
    BY <1>1, <1>2, <1>5, StepDecide
<1>6. CASE /\ notify[p].parent # Svc /\ ~Boxed(c) /\ c # notify[p].parent
           /\ Goto(p, "parent") /\ UNCHANGED <<os, lists>>
    <2>1. Moved(p, "parent")
        BY <1>6, GotoFacts
    <2>2. Decides(p)
        BY <1>1, <1>2, <1>6, <2>1 DEF Decides, lists
    <2> QED BY <2>2, StepDecides
<1> QED BY <1>3, <1>4, <1>5, <1>6 DEF FindCaller

\* The block of the parent is looked at.
LEMMA StepFindParent ==
    ASSUME LifeInv, NEW p \in Pids, FindParent(p)
    PROVE  LifeInv'
<1>1. notify[p].parent # Svc /\ os[p].from = NoBox
    BY DEF LifeInv, ProcInv, Called, Created, FindParent
<1> QED BY <1>1, StepDecide DEF FindParent

\* The force rules decide.
LEMMA StepGetForcedStartBox ==
    ASSUME LifeInv, NEW p \in Pids, GetForcedStartBox(p)
    PROVE  LifeInv'
<1> USE DEF LifeInv
<1>1. /\ notify[p].pc = "force" /\ Early(p) /\ os[p].st = "new"
      /\ UNCHANGED <<created, Process_MapFcp, kills, service>>
      /\ notify[p].parent # Svc /\ os[p].from = NoBox
    BY DEF GetForcedStartBox, Early, ProcInv, Called, Created
<1>2. Process_MapDfp' \subseteq Process_MapDfp \cup {p}
    BY DEF GetForcedStartBox
<1>3. CASE Deny(p)
    BY <1>1, <1>2, <1>3, StepDeny
<1>4. ASSUME NEW box \in Boxes \cup {NoBox}, NEW mode \in {{}, {"host"}},
             GotoCreate(p, box, mode), UNCHANGED <<os, Process_Map, late>>
      PROVE  LifeInv'
    <2>1. Moved(p, "create")
        <3>1. mode \in SUBSET {"host", "api", "child"}
            OBVIOUS
        <3> QED BY <1>4, <3>1, GotoCreateFacts
    <2>2. Decides(p)
        BY <1>1, <1>2, <1>4, <2>1 DEF Decides
    <2> QED BY <2>2, StepDecides
<1>5. CASE Return(p, TRUE, {}) /\ UNCHANGED <<Process_Map, late>>
    BY <1>1, <1>2, <1>5, StepOutside
<1>6. FcpCheck(p) \in Boxes \cup {NoBox}
    BY DEF FcpCheck, TypeOK
<1>7. \/ Deny(p)
      \/ \E box \in Boxes \cup {NoBox}, mode \in {{}, {"host"}} :
            GotoCreate(p, box, mode) /\ UNCHANGED <<os, Process_Map, late>>
      \/ Return(p, TRUE, {}) /\ UNCHANGED <<Process_Map, late>>
    BY <1>6 DEF GetForcedStartBox
<1> QED BY <1>3, <1>4, <1>5, <1>7

\* Process_Create enters the block.
LEMMA StepCreate ==
    ASSUME LifeInv, NEW p \in Pids, Process_Create(p)
    PROVE  LifeInv'
<1> USE DEF LifeInv
<1> DEFINE box == notify[p].box
           flags == notify[p].mode \cap {"host"}
           block == Block(os[p].ct, box, flags)
<1>1. /\ notify[p].pc = "create" /\ Early(p)
      /\ UNCHANGED <<created, Process_MapDfp, Process_MapFcp, kills, service>>
      /\ os[p].st \in {"new", "suspended", "held", "gone"}
    BY DEF Process_Create, Early, ProcInv, Called
<1>2. /\ notify[p] \in CallType /\ os[p] \in ProcessType
      /\ box \in Boxes \cup {NoBox} /\ os[p].ct \in Ct \cup {0} /\ os[p].ct # 0
    BY <1>1 DEF TypeOK, CallType, ProcessType, ProcInv, Aged
<1>3. CASE Deny(p)
    BY <1>1, <1>3, StepDeny
<1>4. CASE /\ Enter(p, Block(os[p].ct, box, {"terminated"})) /\ Return(p, FALSE, {})
    <2>1. Block(os[p].ct, box, {"terminated"}) \in BlockType
        BY <1>2 DEF Block, BlockType
    <2>2. Entry(p, Block(os[p].ct, box, {"terminated"}))
        BY <1>4, <2>1, EnterFacts
    <2>3. Returned(p, FALSE, {})
        BY <1>4, ReturnFacts
    <2>4. os'[p].st \in {"held", "gone"} /\ Ended(p) /\ os'[p].marks = os[p].marks
        BY <2>3 DEF Returned, Ended
    <2>5. Ends(p)
        BY <1>1, <2>2, <2>4 DEF Ends, Entry
    <2> QED BY <1>1, <1>2, <2>2, <2>4, <2>5, StepRefused
<1>5. CASE Enter(p, block) /\ Goto(p, "send") /\ UNCHANGED os
    <2>1. /\ block \in BlockType /\ block.ct = os[p].ct /\ block.box = box
          /\ block.flags \subseteq {"host"}
          /\ "host" \in block.flags <=> "host" \in notify[p].mode
        BY <1>2 DEF Block, BlockType
    <2> HIDE DEF block
    <2>2. Entry(p, block)
        BY <1>5, <2>1, EnterFacts
    <2>3. /\ Moved(p, "send") /\ notify'[p].box = box
          /\ notify'[p].mode = notify[p].mode
        BY <1>5, GotoFacts
    <2>4. TypeOK'
        BY <1>1, <1>5, <2>2, <2>3 DEF TypeOK, Entry, Moved, service
    <2>5. \A q \in Pids : q # p => Same(q)
        BY <1>1, <1>5, <2>2, <2>3 DEF Entry, Moved, Same
    <2>6. \A q \in Pids : notify[q].pc # "idle" => notify[q].caller # p
        BY <1>1, CreatesNone
    <2>7. Further(p)
        <3>1. \A w \in workers' : w \in workers /\ (w.pid = p => Works(w)')
            BY <1>1, <1>5 DEF WorkInv, Works, service
        <3>2. \A m \in port : m.pid = p /\ m.kind = "cancel" /\ os'[p].ct = m.ct
                               => os'[p].st \in {"held", "gone"}
            BY <1>1, <1>5 DEF PortInv, Cancels
        <3> QED BY <1>1, <2>5, <2>6, <3>1, <3>2 DEF Further, service, TypeOK
    <2>8. ~Early(p)'
        BY <2>3 DEF Early, Moved
    <2>9. Aged(p)' /\ Loaded(p)' /\ Clean(p)'
        BY <1>1, <1>2, <1>5, <2>1, <2>2, <2>8, EntryInv
    <2>10. Called(p)' /\ Runs(p)' /\ Child(p)'
        BY <1>1, <1>5, <2>3 DEF ProcInv, Called, Runs, Child, Moved
    <2>11. Created(p)'
        BY <1>1, <1>5, <2>3, <2>5, CreatorStays DEF ProcInv, Created, Moved
    <2>12. Entered(p)'
        BY <1>5, <2>1, <2>2, <2>3, <2>8 DEF Entered, Entry, Moved
    <2>13. ProcInv(p)'
        BY <2>9, <2>10, <2>11, <2>12 DEF ProcInv
    <2> QED BY <2>4, <2>7, <2>13, OneProcess
<1> QED BY <1>3, <1>4, <1>5 DEF Process_Create

\* The call ends after the block was entered; a process that will run has the code
\* or a mark, or is not in a box.
LEMMA StepAfterCreate ==
    ASSUME LifeInv, NEW p \in Pids, notify[p].pc \in {"send", "poll"},
           NEW ok \in BOOLEAN, NEW marks \in SUBSET {"low", "timeout"}, Return(p, ok, marks),
           UNCHANGED <<created, Process_MapDfp, Process_MapFcp, late, kills, service>>,
           Process_Map' = Process_Map \/ (Process_Map' = Flagged(p, "terminated") /\ ~ok),
           ok => \/ "host" \in notify[p].mode \/ "timeout" \in marks \/ Answered(p)
    PROVE  LifeInv'
<1> USE DEF LifeInv
<1>1. Returned(p, ok, marks)
    BY ReturnFacts
<1>2. Soft_List(p) /\ Process_Map' \in [Pids -> Seq(BlockType)]
      /\ \A q \in Pids : q # p => Process_Map'[q] = Process_Map[q]
    <2>1. CASE Process_Map' = Process_Map
        <3>1. SameBlocks(p)
            BY <2>1, SameListSameBlocks
        <3> QED BY <2>1, <3>1 DEF SameBlocks, Soft_List, TypeOK
    <2>2. CASE Process_Map' = Flagged(p, "terminated")
        <3>1. Marking(p, "terminated")
            BY <2>2, FlaggedFacts
        <3>2. ASSUME NEW b \in Blocks(p)'
              PROVE  \E a \in Blocks(p) :
                       /\ b.ct = a.ct
                       /\ "terminated" \in a.flags => "terminated" \in b.flags
                       /\ "low" \in b.flags => "low" \in a.flags
            <4>1. CASE b \in Blocks(p)
                BY <4>1
            <4>2. CASE Found(p) /\ b = Process_Find(p)'
                BY <3>1, <4>2 DEF Marking
            <4> QED BY <3>1, <4>1, <4>2 DEF Marking
        <3>3. Soft_List(p)
            BY <3>1, <3>2 DEF Soft_List, Marking
        <3> QED BY <3>1, <3>3 DEF Marking
    <2> QED BY <2>1, <2>2
<1>3. Ended(p) /\ os'[p].marks = os[p].marks \cup marks
      /\ os'[p].st # "suspended"
    BY <1>1 DEF Returned, ProcInv, Called
<1>4. Ends(p)
    BY <1>2, <1>3 DEF Ends
<1>5. ASSUME os'[p].st = "running" PROVE Runs(p)' /\ Child(p)'
    <2>1. ok /\ os[p].st # "gone" /\ Process_Map' = Process_Map
        BY <1>1, <1>5 DEF Returned
    <2>2. SameBlocks(p) /\ os'[p].ct = os[p].ct /\ os'[p].from = os[p].from
        BY <1>3, <2>1, SameListSameBlocks DEF Ended
    <2>3. /\ Found(p) /\ Process_Find(p).ct = os[p].ct
          /\ Process_Find(p).box = notify[p].box
          /\ "host" \in Process_Find(p).flags <=> "host" \in notify[p].mode
        BY <2>1 DEF ProcInv, Entered
    <2>4. Child(p)'
        <3>1. os[p].from # NoBox => /\ notify[p].box = os[p].from
                                    /\ "host" \notin notify[p].mode
            BY DEF ProcInv, Created
        <3> QED BY <2>2, <2>3, <3>1 DEF Child, SameBlocks, Boxed
    <2>5. Runs(p)'
        <3>1. Process_Find(p) \in Blocks(p)
            BY <2>3, FindFacts
        <3>2. os[p].st # "free"
            BY DEF ProcInv, Called
        <3>3. "low" \in Process_Find(p).flags => "low" \in os[p].marks
            BY <2>3, <3>1, <3>2 DEF ProcInv, Loaded
        <3>4. \/ "host" \in Process_Find(p).flags \/ "timeout" \in os'[p].marks
              \/ "terminated" \in Process_Find(p).flags \/ "low" \in os'[p].marks
            BY <1>3, <2>1, <2>3, <3>3 DEF Answered
        <3> QED BY <2>2, <3>4 DEF Runs, SameBlocks, Boxed
    <2> QED BY <2>4, <2>5
<1> QED BY <1>2, <1>4, <1>5, StepEnds

\* The message is sent, or cannot be.
LEMMA StepSendInject ==
    ASSUME LifeInv, NEW p \in Pids, SendInject(p)
    PROVE  LifeInv'
<1>1. /\ notify[p].pc = "send" /\ TypeOK
      /\ UNCHANGED <<created, Process_MapDfp, Process_MapFcp, late, kills, svc,
                     workers, deaths>>
    BY DEF SendInject, LifeInv
<1>2. CASE /\ port' = port \cup {Message("inject", p, os[p].ct)}
           /\ Goto(p, "poll") /\ UNCHANGED <<os, Process_Map>>
    <2>1. /\ Moved(p, "poll") /\ notify'[p].box = notify[p].box
          /\ notify'[p].mode = notify[p].mode
        BY <1>1, <1>2, GotoFacts
    <2>2. Waits(p)
        BY <1>1, <1>2, <2>1 DEF Waits, Moved, lists
    <2> QED BY <2>2, StepWaits
<1>3. CASE /\ "host" \in notify[p].mode
           /\ Return(p, TRUE, {}) /\ UNCHANGED <<Process_Map, port>>
    BY <1>1, <1>3, StepAfterCreate DEF service
<1>4. CASE /\ Process_Map' = Flagged(p, "terminated")
           /\ Return(p, FALSE, {}) /\ UNCHANGED port
    BY <1>1, <1>4, StepAfterCreate DEF service
<1> QED BY <1>2, <1>3, <1>4 DEF SendInject

\* The call looks for the answer.
LEMMA StepPoll ==
    ASSUME LifeInv, NEW p \in Pids, Poll(p)
    PROVE  LifeInv'
<1>1. /\ notify[p].pc = "poll" /\ TypeOK
      /\ UNCHANGED <<created, lists, kills, service>>
    BY DEF Poll, LifeInv
<1>2. CASE Return(p, TRUE, {"timeout"})
    BY <1>1, <1>2, StepAfterCreate DEF lists
<1>3. CASE Answered(p) /\ Return(p, TRUE, {})
    BY <1>1, <1>3, StepAfterCreate DEF lists
<1>4. CASE notify[p].tries < MaxRetries /\ Goto(p, "wait") /\ UNCHANGED os
    <2>1. /\ Moved(p, "wait") /\ notify'[p].box = notify[p].box
          /\ notify'[p].mode = notify[p].mode /\ notify'[p].tries = notify[p].tries
        BY <1>1, <1>4, GotoFacts
    <2>2. Waits(p)
        BY <1>1, <1>4, <2>1 DEF Waits, lists, service
    <2> QED BY <2>2, StepWaits
<1> QED BY <1>2, <1>3, <1>4 DEF Poll

\* A wait ends.
LEMMA StepWait ==
    ASSUME LifeInv, NEW p \in Pids, Wait(p)
    PROVE  LifeInv'
<1> DEFINE r == [notify[p] EXCEPT !.pc = "poll", !.tries = @ + 1]
<1>1. /\ notify[p].pc = "wait" /\ TypeOK /\ notify[p] \in CallType
      /\ UNCHANGED <<os, created, lists, kills, service>>
      /\ notify[p].tries < MaxRetries
    BY DEF Wait, LifeInv, TypeOK, ProcInv, Called
<1>2. notify[p].tries + 1 \in 0..MaxRetries
    BY <1>1, BoundAssumption DEF CallType
<1>3. /\ r \in CallType /\ r.pc = "poll" /\ r.caller = notify[p].caller
      /\ r.parent = notify[p].parent /\ r.box = notify[p].box /\ r.mode = notify[p].mode
    BY <1>1, <1>2 DEF CallType
<1>4. notify' = [notify EXCEPT ![p] = r]
    BY <1>1 DEF Wait, TypeOK
<1> HIDE DEF r
<1>5. /\ notify' \in [Pids -> CallType] /\ notify'[p] = r
      /\ \A q \in Pids : q # p => notify'[q] = notify[q]
    BY <1>1, <1>3, <1>4 DEF TypeOK
<1>6. Moved(p, "poll")
    BY <1>3, <1>5 DEF Moved
<1>7. Waits(p)
    BY <1>1, <1>3, <1>5, <1>6 DEF Waits, service
<1> QED BY <1>7, StepWaits

-----------------------------------------------------------------------------
(* Creation, exit and the last reference *)

\* Process_NotifyProcess_Delete.
LEMMA StepExit ==
    ASSUME LifeInv, NEW p \in Pids, Exit(p)
    PROVE  LifeInv'
<1> USE DEF LifeInv
<1>1. /\ UNCHANGED <<created, notify, kills, service, late>>
      /\ os[p].st \in {"suspended", "running", "held"}
      /\ \A q \in Pids : notify[q].pc # "idle" => notify[q].caller # p
    BY DEF Exit
<1>2. /\ os' \in [Pids -> ProcessType] /\ \A q \in Pids : q # p => os'[q] = os[q]
      /\ os'[p].st = "gone" /\ os'[p].ct = os[p].ct /\ os'[p].from = os[p].from
      /\ os'[p].marks = os[p].marks
    <2> DEFINE r == [os[p] EXCEPT !.st = "gone"]
    <2>1. /\ r \in ProcessType /\ r.st = "gone" /\ r.ct = os[p].ct
          /\ r.from = os[p].from /\ r.marks = os[p].marks
        <3>1. os[p] \in ProcessType
            BY DEF TypeOK
        <3> QED BY <3>1 DEF ProcessType
    <2>2. os' = [os EXCEPT ![p] = r]
        BY DEF Exit
    <2> HIDE DEF r
    <2> QED BY <2>1, <2>2 DEF TypeOK
<1>3. /\ Process_Map' \in [Pids -> Seq(BlockType)]
      /\ \A q \in Pids : q # p => Process_Map'[q] = Process_Map[q]
      /\ \A b \in Blocks(p)' : b \in Blocks(p)
      /\ Len(Process_Map[p]) <= 1 => Process_Map'[p] = <<>>
    <2> DEFINE s == Process_Map[p]
               t == Process_Map'[p]
    <2>1. s \in Seq(BlockType)
        BY DEF TypeOK
    <2>2. CASE Found(p)
        <3>1. /\ t = Tail(s) /\ Process_Map' = [Process_Map EXCEPT ![p] = t]
              /\ \A q \in Pids : q # p => Process_Map'[q] = Process_Map[q]
            BY <2>2 DEF Exit, TypeOK
        <3>2. s # <<>>
            BY <2>2 DEF Found
        <3>3. /\ t \in Seq(BlockType) /\ (Len(s) <= 1 => t = <<>>)
              /\ \A i \in 1..Len(t) : \E j \in 1..Len(s) : t[i] = s[j]
            <4> HIDE DEF s, t
            <4> QED BY <2>1, <3>1, <3>2, Popped
        <3>4. \A b \in Blocks(p)' : b \in Blocks(p)
            BY <3>3 DEF Blocks
        <3>5. Process_Map' \in [Pids -> Seq(BlockType)]
            <4> HIDE DEF s, t
            <4> QED BY <3>1, <3>3 DEF TypeOK
        <3> QED BY <3>1, <3>3, <3>4, <3>5
    <2>3. CASE ~Found(p)
        <3>1. Process_Map' = Process_Map /\ s = <<>>
            BY <2>3 DEF Exit, Found
        <3> QED BY <3>1 DEF Blocks, TypeOK
    <2> QED BY <2>2, <2>3
<1>4. /\ Process_MapFcp' \in [Pids -> Boxes \cup {NoBox}] /\ Process_MapFcp'[p] = NoBox
      /\ \A q \in Pids : q # p => Process_MapFcp'[q] = Process_MapFcp[q]
      /\ Process_MapDfp' = Process_MapDfp \ {p}
    BY DEF Exit, TypeOK
<1>5. TypeOK'
    BY <1>1, <1>2, <1>3, <1>4 DEF TypeOK, service
<1>6. \A q \in Pids : q # p => Same(q)
    BY <1>1, <1>2, <1>3, <1>4 DEF Same
<1>7. ProcInv(p)'
    <2>1. Aged(p)' /\ Loaded(p)'
        BY <1>1, <1>2, <1>3 DEF ProcInv, Aged, Loaded
    <2>2. Called(p)' /\ Runs(p)' /\ Child(p)'
        BY <1>1, <1>2 DEF ProcInv, Called, Runs, Child
    <2>3. Created(p)'
        <3> SUFFICES ASSUME notify[p].pc # "idle" PROVE Created(p)'
            BY <1>1 DEF Created
        <3>1. notify[p].pc # "caller"
            BY <1>1 DEF ProcInv, Called
        <3> QED BY <1>1, <1>2, <1>6, <3>1, CreatorStays DEF ProcInv, Created
    <2>4. Entered(p)'
        BY <1>1, <1>2, <1>3 DEF ProcInv, Entered, Early
    <2>5. Clean(p)'
        <3> SUFFICES ASSUME p \notin late' PROVE Clean(p)'
            BY DEF Clean
        <3>1. Process_Map'[p] = <<>>
            BY <1>1, <1>3 DEF ProcInv, Clean
        <3> QED BY <1>1, <1>4, <3>1 DEF Clean, Found
    <2> QED BY <2>1, <2>2, <2>3, <2>4, <2>5 DEF ProcInv
<1>8. \A w \in workers' : w \in workers /\ (w.pid = p => Works(w)')
    BY <1>1, <1>2 DEF WorkInv, Works, service
<1>9. Further(p)
    BY <1>1, <1>2, <1>6, <1>8 DEF Further, service, TypeOK
<1> QED BY <1>5, <1>7, <1>9, OneProcess

\* The last reference to a process goes.
LEMMA StepReap ==
    ASSUME LifeInv, NEW p \in Pids, Reap(p)
    PROVE  LifeInv'
<1> USE DEF LifeInv
<1>1. /\ UNCHANGED <<created, lists, notify, kills, service>>
      /\ os[p].st = "gone" /\ notify[p].pc = "idle"
      /\ \A w \in workers : w.pid = p => w.kind = "open" \/ w.ct # os[p].ct
    BY DEF Reap
<1>2. /\ os' \in [Pids -> ProcessType] /\ \A q \in Pids : q # p => os'[q] = os[q]
      /\ os'[p].st = "free" /\ os'[p].ct = 0 /\ os'[p].from = NoBox
    <2>1. /\ NoProcess \in ProcessType /\ NoProcess.st = "free" /\ NoProcess.ct = 0
          /\ NoProcess.from = NoBox
        BY DEF NoProcess, ProcessType
    <2>2. os' = [os EXCEPT ![p] = NoProcess]
        BY DEF Reap
    <2> QED BY <2>1, <2>2 DEF TypeOK
<1>3. SameBlocks(p)
    BY <1>1, SameListSameBlocks DEF lists
<1>4. TypeOK'
    BY <1>1, <1>2 DEF TypeOK, lists, service
<1>5. \A q \in Pids : q # p => Same(q)
    BY <1>1, <1>2 DEF Same, lists
<1>6. \A q \in Pids : notify[q].pc # "idle" => notify[q].caller # p
    BY <1>1, CreatesNone
<1>7. ProcInv(p)'
    <2>1. Aged(p)' /\ Loaded(p)'
        <3>1. 0 <= created /\ created' = created
            BY <1>1, BoundAssumption DEF TypeOK
        <3> QED BY <1>1, <1>2, <1>3, <3>1 DEF ProcInv, Aged, Loaded, SameBlocks
    <2>2. Called(p)' /\ Created(p)' /\ Runs(p)' /\ Child(p)' /\ Entered(p)'
        BY <1>1, <1>2 DEF Called, Created, Runs, Child, Entered, Early
    <2>3. Clean(p)'
        BY <1>1, <1>2, <1>3 DEF ProcInv, Clean, SameBlocks, lists, Found
    <2> QED BY <2>1, <2>2, <2>3 DEF ProcInv
<1>8. \A w \in workers' : w \in workers /\ (w.pid = p => Works(w)')
    BY <1>1 DEF WorkInv, Works, service
<1>9. \A m \in port : m.ct # 0
    BY BoundAssumption DEF TypeOK, Ct
<1>10. Further(p)
    BY <1>1, <1>2, <1>5, <1>6, <1>8, <1>9 DEF Further, service, TypeOK
<1> QED BY <1>4, <1>7, <1>10, OneProcess

\* A process is created, and Windows calls the driver.
LEMMA StepCreateProcess ==
    ASSUME LifeInv, NEW c \in Actors, NEW q \in Actors, NEW p \in Pids,
           CreateProcess(c, q, p)
    PROVE  LifeInv'
<1> USE DEF LifeInv
<1>1. /\ UNCHANGED <<lists, kills, service>> /\ created' = created + 1
      /\ created < MaxCreate /\ os[p].st = "free" /\ (c = Svc => q = Svc)
      /\ c \in Pids => os[c].st = "running"
    BY DEF CreateProcess, Actors
<1>2. created \in Nat /\ created + 1 \in Ct /\ created' \in 0..MaxCreate
    BY <1>1, BoundAssumption DEF TypeOK, Ct
<1> DEFINE from == IF Boxed(c) /\ q # Svc THEN Process_Find(c).box ELSE NoBox
           r == [st |-> "new", ct |-> created + 1, marks |-> {}, from |-> from]
           n == [NoCall EXCEPT !.pc = "caller", !.caller = c, !.parent = q]
<1>3. from \in Boxes \cup {NoBox}
    <2> SUFFICES ASSUME Boxed(c) PROVE from \in Boxes \cup {NoBox}
        OBVIOUS
    <2>1. c \in Pids /\ Found(c)
        BY DEF Boxed, Found
    <2>2. Process_Find(c) \in BlockType
        BY <2>1, FindFacts
    <2> QED BY <2>2 DEF BlockType
<1>4. os' = [os EXCEPT ![p] = r] /\ notify' = [notify EXCEPT ![p] = n]
    BY DEF CreateProcess
<1>5. /\ from # NoBox => Boxed(c) /\ Process_Find(c).box = from /\ q # Svc
      /\ Boxed(c) => c \in Pids
    BY DEF Boxed, Found
<1> HIDE DEF from
<1>6. r \in ProcessType /\ r.st = "new" /\ r.ct = created + 1 /\ r.from = from
    BY <1>2, <1>3 DEF ProcessType
<1>7. n \in CallType /\ n.pc = "caller" /\ n.caller = c /\ n.parent = q
    <2>1. 0 \in 0..MaxRetries
        BY BoundAssumption
    <2> QED BY <2>1 DEF NoCall, CallType
<1> HIDE DEF r, n
<1>8. /\ os' \in [Pids -> ProcessType] /\ os'[p] = r
      /\ notify' \in [Pids -> CallType] /\ notify'[p] = n
      /\ \A z \in Pids : z # p => os'[z] = os[z] /\ notify'[z] = notify[z]
    BY <1>4, <1>6, <1>7 DEF TypeOK
<1>9. TypeOK'
    BY <1>1, <1>2, <1>8 DEF TypeOK, lists, service
<1>10. \A z \in Pids : z # p => Same(z)
    BY <1>1, <1>8 DEF Same, lists
<1>11. \A z \in Pids : notify[z].pc # "idle" => notify[z].caller # p
    BY <1>1, CreatesNone
<1>12. /\ SameBlocks(p) /\ Process_Map'[p] = Process_Map[p]
       /\ \A b \in Blocks(p) : b.ct <= created /\ b.ct # created + 1
    <2>1. \A b \in Blocks(p) : b.ct <= created /\ b.ct \in Nat
        BY BlocksTyped DEF ProcInv, Aged
    <2> QED BY <1>1, <1>2, <2>1, SameListSameBlocks DEF lists
<1>13. c \in Pids => /\ c # p /\ os'[c].st = "running" /\ notify'[c].pc = "idle"
                     /\ SameBlocks(c)
    <2>1. c \in Pids => c # p /\ notify[c].pc = "idle"
        BY <1>1 DEF ProcInv, Called
    <2> QED BY <1>1, <1>8, <2>1, SameListSameBlocks DEF lists
<1>14. ProcInv(p)'
    <2>1. Aged(p)'
        <3>1. \A b \in Blocks(p)' : b.ct <= created'
            <4>1. \A b \in Blocks(p) : b.ct <= created /\ b.ct \in Nat
                BY <1>12, BlocksTyped
            <4> QED BY <1>1, <1>2, <1>12, <4>1 DEF SameBlocks
        <3>2. os'[p].ct <= created' /\ os'[p].ct # 0 /\ os'[p].st = "new"
            BY <1>1, <1>2, <1>6, <1>8
        <3> QED BY <1>12, <3>1, <3>2 DEF ProcInv, Aged, SameBlocks
    <2>2. Loaded(p)' /\ Runs(p)' /\ Child(p)'
        BY <1>6, <1>8, <1>12 DEF Loaded, Runs, Child, SameBlocks
    <2>3. Called(p)'
        <3>1. q = Svc => from = NoBox
            BY <1>5
        <3> QED BY <1>1, <1>6, <1>7, <1>8, <3>1 DEF Called
    <2>4. Created(p)'
        <3>1. from # NoBox => Boxed(c)' /\ Process_Find(c)'.box = from
            BY <1>5, <1>13 DEF SameBlocks
        <3> QED BY <1>6, <1>7, <1>8, <1>13, <3>1 DEF Created
    <2>5. Entered(p)'
        BY <1>6, <1>7, <1>8, <1>12 DEF Entered, SameBlocks
    <2>6. Clean(p)'
        BY <1>1, <1>6, <1>8, <1>12 DEF ProcInv, Clean, SameBlocks, lists, Found
    <2> QED BY <2>1, <2>2, <2>3, <2>4, <2>5, <2>6 DEF ProcInv
<1>15. \A w \in workers' : w \in workers /\ (w.pid = p => Works(w)')
    BY <1>1 DEF WorkInv, Works, service
<1>16. \A m \in port : m.pid = p /\ m.kind = "cancel" => os'[p].ct # m.ct
    <2>1. \A m \in port : m.kind = "cancel" => m.ct <= created /\ m.ct \in Nat
        BY BoundAssumption DEF PortInv, Cancels, TypeOK, Ct
    <2> QED BY <1>2, <1>6, <1>8, <2>1
<1>17. Further(p)
    BY <1>1, <1>2, <1>10, <1>11, <1>15, <1>16 DEF Further, service
<1> QED BY <1>9, <1>14, <1>17, OneProcess

-----------------------------------------------------------------------------
(* The theorems *)

\* Nothing is created, listed or running at the start.
LEMMA InitLife == Init => LifeInv
<1> SUFFICES ASSUME Init PROVE LifeInv
    OBVIOUS
<1>1. /\ NoProcess \in ProcessType /\ NoProcess.st = "free" /\ NoProcess.ct = 0
      /\ NoProcess.from = NoBox
    BY DEF NoProcess, ProcessType
<1>2. NoCall \in CallType /\ NoCall.pc = "idle"
    <2>1. 0 \in 0..MaxRetries
        BY BoundAssumption
    <2> QED BY <2>1 DEF NoCall, CallType, Actors
<1>3. TypeOK
    <2>1. 0 \in 0..MaxCreate /\ 0 \in 0..MaxDeaths
        BY BoundAssumption
    <2>2. <<>> \in Seq(BlockType)
        OBVIOUS
    <2>3. os \in [Pids -> ProcessType] /\ notify \in [Pids -> CallType]
          /\ Process_Map \in [Pids -> Seq(BlockType)]
        BY <1>1, <1>2, <2>2 DEF Init
    <2> QED BY <2>1, <2>3 DEF TypeOK, Init
<1>4. ASSUME NEW p \in Pids PROVE ProcInv(p)
    <2>1. Process_Map[p] = <<>> /\ os[p] = NoProcess /\ notify[p] = NoCall
          /\ Process_MapFcp[p] = NoBox /\ p \notin Process_MapDfp /\ created = 0
        BY DEF Init
    <2>2. Blocks(p) = {} /\ ~Found(p) /\ Len(Process_Map[p]) = 0
        BY <2>1 DEF Blocks, Found
    <2>3. Aged(p) /\ Called(p) /\ Created(p) /\ Entered(p)
        BY <1>1, <1>2, <2>1, <2>2 DEF Aged, Called, Created, Entered
    <2>4. Loaded(p) /\ Runs(p) /\ Child(p) /\ Clean(p)
        BY <1>1, <1>2, <2>1, <2>2 DEF Loaded, Runs, Child, Clean
    <2> QED BY <2>3, <2>4 DEF ProcInv
<1> QED BY <1>3, <1>4 DEF LifeInv, WorkInv, PortInv, Init

\* Every step keeps the invariant.
LEMMA NextLife == LifeInv /\ [Next]_vars => LifeInv'
<1> SUFFICES ASSUME LifeInv, [Next]_vars PROVE LifeInv'
    OBVIOUS
<1>1. CASE UNCHANGED vars
    <2>1. \A q \in Pids : Soft(q)
        BY <1>1, SameIsSoft DEF vars, lists, Same
    <2>2. TypeOK'
        BY <1>1 DEF LifeInv, TypeOK, vars, lists, service
    <2> QED BY <1>1, <2>1, <2>2, SoftLife DEF LifeInv, TypeOK, vars, service
<1>2. ASSUME NEW p \in Pids, NEW c \in Actors, NEW q \in Actors, CreateProcess(c, q, p)
      PROVE  LifeInv'
    BY <1>2, StepCreateProcess
<1>3. ASSUME NEW p \in Pids, CreateStep(p) PROVE LifeInv'
    BY <1>3, StepFindCaller, StepFindParent, StepGetForcedStartBox, StepCreate,
       StepSendInject, StepPoll, StepWait DEF CreateStep
<1>4. ASSUME NEW p \in Pids,
             \/ Exit(p) \/ Reap(p) \/ Session_Api_DisableForce(p)
             \/ Process_NotifyImage(p) \/ Process_ScheduleKillProc(p)
      PROVE  LifeInv'
    BY <1>4, StepExit, StepReap, StepSession, StepNotifyImage, StepScheduleKillProc
<1>5. ASSUME NEW p \in Pids, NEW box \in Boxes,
             Process_Api_Start(p, box) \/ Session_Api_ForceChildren(p, box)
      PROVE  LifeInv'
    BY <1>5, StepApiStart, StepSession
<1>6. CASE SvcStart \/ SvcReady \/ SvcDies \/ SvcGone
    BY <1>6, StepService
<1>7. CASE \E m \in port : Receive(m)
    BY <1>7, StepReceive
<1>8. ASSUME NEW w \in workers,
             \/ OpenProcess(w) \/ InjectLow(w) \/ InjectComplete(w) \/ InjectError(w)
      PROVE  LifeInv'
    BY <1>8, StepOpenProcess, StepInjectLow, StepInjectComplete, StepInjectError
<1> QED BY <1>1, <1>2, <1>3, <1>4, <1>5, <1>6, <1>7, <1>8 DEF Next

\* The inductive invariant holds.
LEMMA LifeInvariant == Spec => []LifeInv
BY InitLife, NextLife, PTL DEF Spec

\* A block that says the low-level code is loaded tells the truth: an answer of
\* the service, which carries an id, is never taken for another process than the
\* one that was injected (Process_Low_Api_InjectComplete).
THEOREM AnswerIsForTheProcess == Spec => []LoadedIsInjected
<1>1. LifeInv => LoadedIsInjected
    BY FindFacts DEF LifeInv, ProcInv, Loaded, LoadedIsInjected
<1> QED BY <1>1, LifeInvariant, PTL

\* A process runs in a box only with the low-level code, marked terminated, or
\* after Process_Low_Inject had waited in vain.
THEOREM BareOnlyAfterTimeout == Spec => []RunsInjectedOrTimedOut
<1>1. LifeInv => RunsInjectedOrTimedOut
    BY DEF LifeInv, ProcInv, Runs, RunsInjectedOrTimedOut
<1> QED BY <1>1, LifeInvariant, PTL

\* The child of a boxed process runs in the box of its creator, whatever parent
\* the creator named (Process_NotifyProcess_Create).
THEOREM ChildIsBoxed == Spec => []ChildStaysInBox
<1>1. LifeInv => ChildStaysInBox
    BY DEF LifeInv, ProcInv, Child, ChildStaysInBox
<1> QED BY <1>1, LifeInvariant, PTL

\* An id is used again with nothing left in the three maps, unless an entry was
\* made for a process that had exited (Process_NotifyProcess_Delete).
THEOREM IdIsClean == Spec => []NothingInherited
<1>1. LifeInv => NothingInherited
    BY DEF LifeInv, ProcInv, Clean, NothingInherited
<1> QED BY <1>1, LifeInvariant, PTL

\* DriverAssist::CancelProcess ends only a process that the driver had marked.
THEOREM CancelIsMarked == Spec => CancelHitsMarked
<1> DEFINE A == \A m \in port : Receive(m) => \A p \in Pids :
                   os'[p] # os[p] => /\ Found(p)
                                     /\ "terminated" \in Process_Find(p).flags
<1>1. LifeInv => A
    <2> SUFFICES ASSUME LifeInv, NEW m \in port, Receive(m), NEW p \in Pids,
                        os'[p] # os[p]
                 PROVE  Found(p) /\ "terminated" \in Process_Find(p).flags
        BY DEF A
    <2>1. m.kind = "cancel" /\ os[m.pid].ct = m.ct /\ End(m.pid) /\ m.pid \in Pids
        BY DEF Receive, LifeInv, TypeOK
    <2>2. p = m.pid
        BY <2>1 DEF End, LifeInv, TypeOK
    <2>3. os[p].st \in {"running", "suspended"}
        <3> SUFFICES ASSUME os[p].st \notin {"running", "suspended"} PROVE FALSE
            OBVIOUS
        <3>1. os'[p] = [os[p] EXCEPT !.st = os[p].st] /\ os[p] \in ProcessType
            BY <2>1, <2>2 DEF End, LifeInv, TypeOK
        <3> QED BY <3>1 DEF ProcessType
    <2>4. Cancels(m)
        BY DEF LifeInv, PortInv
    <2> QED BY <2>1, <2>2, <2>3, <2>4 DEF Cancels
<1>2. LifeInv /\ [Next]_vars => [A]_vars
    BY <1>1
<1> QED BY <1>2, LifeInvariant, PTL DEF CancelHitsMarked, Spec
=============================================================================
