------------------------------ MODULE LogProofs ------------------------------
(***************************************************************************)
(* Proofs about the two users of log_buff.c.                               *)
(*                                                                         *)
(* SessionMonitor: sessions have the leader that runs in them, the count   *)
(* of monitor logs is right, a monitor log is a bounded queue, and a read  *)
(* removes what it returns.  DriverLog: the message log is a bounded queue *)
(* that drops its oldest entries, a reader gets the oldest message that it *)
(* has not seen, and no text but that message's.                           *)
(***************************************************************************)
EXTENDS DriverLog, SessionMonitor, LogBufferProofs, FiniteSetTheorems

USE BufferSizeAssumption, SeqModAssumption, SessionIdsAssumption

-----------------------------------------------------------------------------
(* A monitor log *)

\* What a call makes of a log that stays open.
LogMoves(lb, new) == \/ new = lb \/ new = Counted(lb)
                     \/ Grown(lb, new, FALSE) \/ Shrunk(lb, new)

\* A ring is not the mark of none.
LEMMA LogIsLog == /\ \A x : LogOK(x) => x # NoLog
                  /\ LogOK(log_buffer_init)
<1>1. ASSUME NEW x, LogOK(x), x = NoLog PROVE FALSE
    <2>1. x \in Ring
        BY <1>1 DEF LogOK
    <2>2. DOMAIN x = {"seq_counter", "buffer_used", "buffer_start", "buffer_data"}
        BY <2>1 DEF Ring
    <2>3. DOMAIN x = {"none"}
        BY <1>1 DEF NoLog
    <2>4. "none" \in {"seq_counter", "buffer_used", "buffer_start", "buffer_data"}
        BY <2>2, <2>3, Zenon
    <2> QED BY <2>4
<1> QED BY <1>1, InitOK

\* A log stays a log.
LEMMA MovesOK == ASSUME NEW lb, LogOK(lb), NEW new, LogMoves(lb, new) PROVE LogOK(new)
<1>1. lb \in Ring
    BY DEF LogOK
<1>2. Counted(lb) = new => LogOK(new)
    BY CountedOK
<1>3. Grown(lb, new, FALSE) => LogOK(new)
    BY <1>1, GrownOK
<1>4. Shrunk(lb, new) => LogOK(new)
    BY <1>1, ShrunkOK
<1> QED BY <1>2, <1>3, <1>4 DEF LogMoves

\* The data of an entry fills it.
LEMMA EntryDataIs ==
    ASSUME NEW c \in Nat, NEW len \in Nat, NEW size, size = HeaderLen + len
    PROVE  size \in Nat /\ IsBytes(EntryData(c, len), size)
<1>1. size \in Nat /\ HeaderLen + len = size
    BY DEF HeaderLen, TimeLen, FieldLen
<1>2. PICK b : b = EntryData(c, len)
    OBVIOUS
<1>3. b \in [1 .. size -> Cells]
    BY <1>1, <1>2 DEF EntryData, Cells
<1>4. b \in Seq(Cells) /\ Len(b) = size
    BY <1>1, <1>3
<1> QED BY <1>1, <1>2, <1>4 DEF IsBytes

\* Session_MonitorPutEx adds an entry or uses a number up, or does nothing for
\* an entry that is larger than the log.
PutLog(lb, len) ==
    LET pushed == push_entry(lb, HeaderLen + len, FALSE)
    IN  IF pushed.ptr = NULL THEN pushed.lb
        ELSE push_bytes(pushed.lb, pushed.ptr, EntryData(pushed.lb.seq_counter, len))
\* So a put moves the log.
LEMMA PutMoves ==
    ASSUME NEW lb, LogOK(lb), NEW len \in Nat PROVE LogMoves(lb, PutLog(lb, len))
<1>1. PICK n, off, num : lb \in Ring /\ Chain(lb, n, off, num)
    BY DEF LogOK
<1>2. PICK size, can : size = HeaderLen + len /\ can = FALSE
    OBVIOUS
<1>3. PICK c \in Nat : c = (lb.seq_counter + 1) % SeqMod
    <2>1. lb.seq_counter \in 0 .. SeqMod - 1
        BY <1>1 DEF Ring
    <2>2. (lb.seq_counter + 1) % SeqMod \in 0 .. SeqMod - 1
        BY <2>1
    <2>3. (lb.seq_counter + 1) % SeqMod \in Nat
        BY <2>2
    <2> QED BY <2>3
<1>4. PICK bytes : bytes = EntryData(c, len)
    OBVIOUS
<1>5. size \in Nat /\ IsBytes(bytes, size)
    BY <1>2, <1>3, <1>4, EntryDataIs
<1>6. PICK r : r = push_entry(lb, size, can)
    OBVIOUS
<1>7. PICK new : new = push_bytes(r.lb, r.ptr, bytes)
    OBVIOUS
<1>8. \/ r = [lb |-> lb, ptr |-> NULL] /\ TotalSize(size) > BufferSize
      \/ r = [lb |-> Counted(lb), ptr |-> NULL] /\ ~can
      \/ /\ r.ptr # NULL /\ r.lb.seq_counter = (lb.seq_counter + 1) % SeqMod
         /\ \E k, o, m : /\ IsAdded(lb, n, off, num, bytes, new, k, o, m)
                         /\ ~can => k = 0
    <2>1. can \in BOOLEAN
        BY <1>2
    <2> QED BY <1>1, <1>5, <1>6, <1>7, <2>1, Pushed
<1>9. PutLog(lb, len) = IF r.ptr = NULL THEN r.lb
                        ELSE push_bytes(r.lb, r.ptr, EntryData(r.lb.seq_counter, len))
    BY <1>2, <1>6 DEF PutLog
<1>10. CASE r = [lb |-> lb, ptr |-> NULL]
    BY <1>9, <1>10 DEF LogMoves
<1>11. CASE r = [lb |-> Counted(lb), ptr |-> NULL]
    BY <1>9, <1>11 DEF LogMoves
<1>12. CASE /\ r.ptr # NULL /\ r.lb.seq_counter = (lb.seq_counter + 1) % SeqMod
            /\ \E k, o, m : /\ IsAdded(lb, n, off, num, bytes, new, k, o, m)
                            /\ ~can => k = 0
    <2>1. PutLog(lb, len) = new
        BY <1>3, <1>4, <1>7, <1>9, <1>12
    <2>2. Grown(lb, new, FALSE)
        BY <1>1, <1>2, <1>12 DEF Grown
    <2> QED BY <2>1, <2>2 DEF LogMoves
<1> QED BY <1>8, <1>10, <1>11, <1>12

\* The oldest entry is taken by pop_entry.
LEMMA PopMoves ==
    ASSUME NEW lb, LogOK(lb), lb.buffer_used > 0
    PROVE  \E n, off, num : IsPopped(lb, n, off, num, pop_entry(lb), 1)
<1>1. PICK n, off, num : lb \in Ring /\ Chain(lb, n, off, num)
    BY DEF LogOK
<1>2. n \in Nat /\ (n = 0 => lb.buffer_used = 0)
    BY <1>1 DEF Chain
<1>3. n > 0 /\ 1 \in 0 .. n
    BY <1>2
<1>4. PICK left : left = LeftOf(off, n)
    OBVIOUS
<1>5. pop_entry(lb) = PopTo(lb, left[1])
    BY <1>1, <1>3, <1>4, PopEntryIs
<1> QED BY <1>1, <1>3, <1>4, <1>5 DEF IsPopped

\* The data of the entries i + 1 to m of a chain.
DataFrom(lb, off, i, m) == [j \in 1 .. m - i |-> Data(lb, off[i + j - 1], off[i + j])]

\* The loop of Session_Api_MonitorGet2, as a function of what is left, and the
\* body of its definition.
TakeSize(lb, left) == get_field(lb, lb.buffer_start + (lb.buffer_used - left))
TakeData(lb, left) ==
    get_bytes(lb, After(lb.buffer_start + (lb.buffer_used - left), 2 * FieldLen), TakeSize(lb, left))
TakeStop(lb, left, room) ==
    left = 0 \/ TotalSize(TakeSize(lb, left)) > left \/ TooSmall(room, TakeSize(lb, left))
TakeMore(lb, left, rest) == [left |-> rest.left, data |-> << TakeData(lb, left) >> \o rest.data]
TakeBody(lb, max, take, left) ==
    [room \in 0 .. max |->
        IF TakeStop(lb, left, room) THEN [left |-> left, data |-> << >>]
        ELSE TakeMore(lb, left, take[left - TotalSize(TakeSize(lb, left))]
                                    [RoomLeft(room, TakeSize(lb, left))])]
IsTake(take, lb, max, k) == take = [left \in 0 .. k - 1 |-> TakeBody(lb, max, take, left)]

\* The loop at a place depends on what lies below that place.
LEMMA TakeSame ==
    ASSUME NEW lb \in Ring, NEW max, NEW f, NEW g, NEW left \in 0 .. lb.buffer_used,
           \A x \in 0 .. left - 1 : f[x] = g[x]
    PROVE  TakeBody(lb, max, f, left) = TakeBody(lb, max, g, left)
<1>1. PICK size : size = TakeSize(lb, left)
    OBVIOUS
<1>2. size \in Nat \cup {-1}
    <2>1. PICK p \in Int : p = lb.buffer_start + (lb.buffer_used - left)
        BY DEF Ring
    <2> QED BY <1>1, <2>1, FieldIn DEF TakeSize
<1>3. TotalSize(size) \in Nat /\ TotalSize(size) > 0
    BY <1>2 DEF TotalSize, FieldLen
<1>4. ASSUME NEW room, ~TakeStop(lb, left, room)
      PROVE  f[left - TotalSize(size)] = g[left - TotalSize(size)]
    <2>1. PICK t : t = TotalSize(size)
        OBVIOUS
    <2>2. t \in Nat /\ t > 0 /\ left \in Nat /\ ~(t > left)
        BY <1>1, <1>3, <1>4, <2>1 DEF TakeStop, Ring
    <2>3. left - t \in 0 .. left - 1
        BY <2>2
    <2> QED BY <2>1, <2>3
<1> QED BY <1>1, <1>4, Zenon DEF TakeBody

\* So the loop is what its definition says.
LEMMA TakeExists ==
    ASSUME NEW lb \in Ring, NEW max
    PROVE  \E f : f = [left \in 0 .. lb.buffer_used |-> TakeBody(lb, max, f, left)]
<1>1. PICK u \in Nat : u = lb.buffer_used
    BY DEF Ring
<1>2. PICK Good : Good = {k \in Nat : k <= u + 1 => \E f : IsTake(f, lb, max, k)}
    OBVIOUS
<1>3. 0 \in Good
    <2>1. IsTake([x \in {} |-> 0], lb, max, 0)
        BY DEF IsTake
    <2> QED BY <1>2, <2>1
<1>4. ASSUME NEW k \in Good PROVE k + 1 \in Good
    <2>1. k \in Nat
        BY <1>2
    <2>2. ASSUME k + 1 <= u + 1 PROVE \E f : IsTake(f, lb, max, k + 1)
        <3>1. PICK f : IsTake(f, lb, max, k)
            BY <1>1, <1>2, <2>1, <2>2
        <3>2. PICK g : g = [left \in 0 .. k |-> TakeBody(lb, max, f, left)]
            OBVIOUS
        <3>3. \A x \in 0 .. k - 1 : g[x] = f[x]
            <4>1. \A x \in 0 .. k - 1 : f[x] = TakeBody(lb, max, f, x)
                BY <3>1, Zenon DEF IsTake
            <4>2. \A x \in 0 .. k - 1 : x \in 0 .. k
                BY <2>1
            <4> QED BY <3>2, <4>1, <4>2, Zenon
        <3>4. ASSUME NEW left \in 0 .. k
              PROVE  TakeBody(lb, max, f, left) = TakeBody(lb, max, g, left)
            <4>1. left \in 0 .. lb.buffer_used /\ \A x \in 0 .. left - 1 : x \in 0 .. k - 1
                BY <1>1, <2>1, <2>2
            <4> QED BY <3>3, <4>1, TakeSame
        <3>5. g = [left \in 0 .. k |-> TakeBody(lb, max, g, left)]
            BY <3>2, <3>4, Zenon
        <3>6. 0 .. (k + 1) - 1 = 0 .. k
            BY <2>1
        <3>7. IsTake(g, lb, max, k + 1)
            BY <3>5, <3>6, Zenon DEF IsTake
        <3> QED BY <3>7
    <2> QED BY <1>2, <2>1, <2>2
<1>5. u + 1 \in Good
    <2>1. Good \in SUBSET Nat
        BY <1>2
    <2> QED BY <1>1, <1>3, <1>4, <2>1, NatInd
<1>6. PICK f : IsTake(f, lb, max, u + 1)
    BY <1>1, <1>2, <1>5
<1>7. u + 1 - 1 = lb.buffer_used
    BY <1>1
<1> QED BY <1>6, <1>7 DEF IsTake

\* Get2Data is that loop from the oldest entry on.
TakeOf(lb, max) ==
    LET take[left \in 0 .. lb.buffer_used] ==
            LET p     == lb.buffer_start + (lb.buffer_used - left)
                size  == get_field(lb, p)
                data  == get_bytes(lb, After(p, 2 * FieldLen), size)
            IN  [room \in 0 .. max |->
                    IF left = 0 \/ TotalSize(size) > left \/ TooSmall(room, size)
                    THEN [left |-> left, data |-> << >>]
                    ELSE LET rest == take[left - TotalSize(size)][RoomLeft(room, size)]
                         IN  [left |-> rest.left, data |-> << data >> \o rest.data]]
    IN  take
\* The loop ends, for each turn takes an entry.
LEMMA TakeIs ==
    ASSUME NEW lb \in Ring, NEW max
    PROVE  /\ Get2Data(lb, max) = TakeOf(lb, max)[lb.buffer_used][max]
           /\ \A left \in 0 .. lb.buffer_used :
                 TakeOf(lb, max)[left] = TakeBody(lb, max, TakeOf(lb, max), left)
<1>1. \E f : f = [left \in 0 .. lb.buffer_used |-> TakeBody(lb, max, f, left)]
    BY TakeExists
<1>2. TakeOf(lb, max) = [left \in 0 .. lb.buffer_used |-> TakeBody(lb, max, TakeOf(lb, max), left)]
    BY <1>1, Zenon DEF TakeOf, TakeBody, TakeStop, TakeMore, TakeSize, TakeData
<1>3. Get2Data(lb, max) = TakeOf(lb, max)[lb.buffer_used][max]
    BY DEF Get2Data, TakeOf
<1>4. PICK f : f = TakeOf(lb, max)
    OBVIOUS
<1>5. \A left \in 0 .. lb.buffer_used : f[left] = TakeBody(lb, max, f, left)
    BY <1>2, <1>4, Zenon
<1> QED BY <1>3, <1>4, <1>5, Zenon

\* What the loop has found, from the i-th entry on, when it stops at the t-th.
Taken(lb, off, n, i, t) == [left |-> LeftOf(off, n)[t], data |-> DataFrom(lb, off, i, t)]

\* One entry more in front.
LEMMA DataMore ==
    ASSUME NEW lb, NEW off, NEW k \in Nat \ {0}, NEW t \in Nat, k <= t
    PROVE  << Data(lb, off[k - 1], off[k]) >> \o DataFrom(lb, off, k, t) = DataFrom(lb, off, k - 1, t)
<1>1. PICK x, s, n, d : /\ x = Data(lb, off[k - 1], off[k]) /\ s = DataFrom(lb, off, k, t) /\ n = t - k
                        /\ d = << x >> \o s
    OBVIOUS
<1>2. n \in Nat /\ n + 1 = t - (k - 1)
    BY <1>1
<1>3. s = [j \in 1 .. n |-> Data(lb, off[k + j - 1], off[k + j])]
    BY <1>1 DEF DataFrom
<1>4. s = [j \in 1 .. n |-> s[j]]
    BY <1>3
<1>5. d = [j \in 1 .. n + 1 |-> IF j = 1 THEN x ELSE s[j - 1]]
    BY <1>1, <1>2, <1>4, InFront
<1>6. ASSUME NEW j \in 1 .. n + 1
      PROVE  (IF j = 1 THEN x ELSE s[j - 1]) = Data(lb, off[(k - 1) + j - 1], off[(k - 1) + j])
    <2>1. CASE j = 1
        <3>1. (k - 1) + j - 1 = k - 1 /\ (k - 1) + j = k
            BY <2>1
        <3> QED BY <1>1, <2>1, <3>1
    <2>2. CASE j # 1
        <3>1. j - 1 \in 1 .. n /\ (k - 1) + j - 1 = k + (j - 1) - 1 /\ (k - 1) + j = k + (j - 1)
            BY <1>2, <2>2
        <3> QED BY <1>3, <2>2, <3>1
    <2> QED BY <2>1, <2>2
<1>7. d = [j \in 1 .. t - (k - 1) |-> Data(lb, off[(k - 1) + j - 1], off[(k - 1) + j])]
    BY <1>2, <1>5, <1>6
<1> QED BY <1>1, <1>7 DEF DataFrom

\* What is read where the k-th entry is the oldest left.
LEMMA TakeRead ==
    ASSUME NEW lb \in Ring, NEW n, NEW off, NEW num, Chain(lb, n, off, num), NEW k \in 1 .. n,
           NEW left, left = LeftOf(off, n)
    PROVE  /\ TakeSize(lb, left[k - 1]) \in Nat
           /\ TotalSize(TakeSize(lb, left[k - 1])) = left[k - 1] - left[k]
           /\ TakeData(lb, left[k - 1]) = Data(lb, off[k - 1], off[k])
<1>1. PICK a, b, x : a = off[k - 1] /\ b = off[k] /\ x = left[k - 1]
    OBVIOUS
<1>2. a \in 0 .. BufferSize /\ b \in 0 .. BufferSize /\ At(off, k - 1, a) /\ At(off, k, b)
    BY <1>1, ChainBounds DEF At
<1>3. k - 1 \in 0 .. n /\ lb.buffer_used \in Nat
    BY DEF Chain, Ring
<1>4. lb.buffer_used - x = a
    BY <1>1, <1>2, <1>3, LeftIn
<1>5. PICK p : p = lb.buffer_start + a
    OBVIOUS
<1>6. Points(lb, p, a)
    BY <1>2, <1>5, StartPoints
<1>7. /\ a + 6 <= b /\ get_field(lb, p) = b - a - 6 /\ TotalSize(get_field(lb, p)) = b - a
      /\ get_bytes(lb, After(p, 2 * FieldLen), b - a - 6) = Data(lb, a, b)
    BY <1>2, <1>6, ChainRead
<1>8. TakeSize(lb, x) = b - a - 6 /\ TotalSize(TakeSize(lb, x)) = b - a
    BY <1>4, <1>5, <1>7 DEF TakeSize
<1>9. TakeData(lb, x) = Data(lb, a, b)
    BY <1>4, <1>5, <1>7, <1>8 DEF TakeData
<1>10. b - a = left[k - 1] - left[k]
    BY <1>1, LeftIn
<1>11. TakeSize(lb, x) \in Nat
    BY <1>2, <1>7, <1>8
<1> QED BY <1>1, <1>8, <1>9, <1>10, <1>11

\* Room that is left is room of the buffer.
LEMMA RoomLeftIn ==
    ASSUME NEW max \in Nat, NEW room \in 0 .. max, NEW size \in Nat, ~TooSmall(room, size)
    PROVE  RoomLeft(room, size) \in 0 .. max
BY DEF RoomLeft, TooSmall, FieldLen

\* Session_Api_MonitorGet2 takes whole entries, the oldest first.
LEMMA Get2Is ==
    ASSUME NEW lb, LogOK(lb), NEW max \in Nat
    PROVE  \E n, off, num, t :
              /\ Chain(lb, n, off, num) /\ t \in 0 .. n
              /\ Get2Data(lb, max) = [left |-> LeftOf(off, n)[t], data |-> DataFrom(lb, off, 0, t)]
<1>1. PICK n, off, num : lb \in Ring /\ Chain(lb, n, off, num)
    BY DEF LogOK
<1>2. PICK left, f : left = LeftOf(off, n) /\ f = TakeOf(lb, max)
    OBVIOUS
<1>3. /\ n \in Nat /\ left \in [0 .. n -> 0 .. BufferSize]
      /\ left[0] = lb.buffer_used /\ left[n] = 0
      /\ \A k \in 1 .. n : /\ left[k] + 6 <= left[k - 1]
                           /\ left[k - 1] - left[k] = off[k] - off[k - 1]
      /\ \A k \in 0 .. n : left[k] = lb.buffer_used - off[k] /\ left[k] <= lb.buffer_used
    <2>1. left = LeftOf(off, n)
        BY <1>2
    <2> QED BY <1>1, <2>1, LeftIn
<1>4. ASSUME NEW i \in 0 .. n, NEW room \in 0 .. max
      PROVE  f[left[i]][room] =
                IF TakeStop(lb, left[i], room) THEN [left |-> left[i], data |-> << >>]
                ELSE TakeMore(lb, left[i], f[left[i] - TotalSize(TakeSize(lb, left[i]))]
                                            [RoomLeft(room, TakeSize(lb, left[i]))])
    <2>1. PICK x : x = left[i]
        OBVIOUS
    <2>2. x \in 0 .. lb.buffer_used
        BY <1>3, <2>1
    <2>3. f[x] = TakeBody(lb, max, f, x)
        BY <1>1, <1>2, <2>2, TakeIs
    <2> QED BY <2>1, <2>3, Zenon DEF TakeBody
<1>5. ASSUME NEW i \in 0 .. n, NEW room \in 0 .. max, TakeStop(lb, left[i], room)
      PROVE  f[left[i]][room] = Taken(lb, off, n, i, i)
    <2>1. DataFrom(lb, off, i, i) = << >>
        <3>1. i - i = 0
            OBVIOUS
        <3>2. 1 .. i - i = {}
            BY <3>1
        <3> QED BY <3>2 DEF DataFrom
    <2> QED BY <1>2, <1>4, <1>5, <2>1 DEF Taken
<1>6. PICK G : G = {j \in Nat : j <= n => \A room \in 0 .. max : \E t \in n - j .. n :
                                            f[left[n - j]][room] = Taken(lb, off, n, n - j, t)}
    OBVIOUS
<1>7. 0 \in G
    <2>1. n - 0 = n /\ n \in 0 .. n /\ n \in n .. n
        BY <1>3
    <2>2. \A room : TakeStop(lb, left[n], room)
        BY <1>3 DEF TakeStop
    <2>3. \A room \in 0 .. max : f[left[n]][room] = Taken(lb, off, n, n, n)
        BY <1>5, <2>1, <2>2
    <2> QED BY <1>6, <2>1, <2>3
<1>8. ASSUME NEW j \in G PROVE j + 1 \in G
    <2>1. j \in Nat
        BY <1>6
    <2>2. ASSUME j + 1 <= n, NEW room \in 0 .. max
          PROVE  \E t \in n - (j + 1) .. n : f[left[n - (j + 1)]][room] = Taken(lb, off, n, n - (j + 1), t)
        <3>1. PICK k, i : k = n - j /\ i = n - (j + 1)
            OBVIOUS
        <3>2. k \in 1 .. n /\ i = k - 1 /\ i \in 0 .. n /\ i \in i .. n /\ k \in Nat \ {0} /\ j <= n
            BY <1>3, <2>1, <2>2, <3>1
        <3>3. CASE TakeStop(lb, left[i], room)
            BY <1>5, <3>1, <3>2, <3>3
        <3>4. CASE ~TakeStop(lb, left[i], room)
            <4>1. PICK size : size = TakeSize(lb, left[i])
                OBVIOUS
            <4>2. /\ size \in Nat /\ TotalSize(size) = left[i] - left[k]
                  /\ TakeData(lb, left[i]) = Data(lb, off[i], off[k])
                <5>1. left = LeftOf(off, n)
                    BY <1>2
                <5>2. /\ TakeSize(lb, left[k - 1]) \in Nat
                      /\ TotalSize(TakeSize(lb, left[k - 1])) = left[k - 1] - left[k]
                      /\ TakeData(lb, left[k - 1]) = Data(lb, off[k - 1], off[k])
                    BY <1>1, <3>2, <5>1, TakeRead
                <5> QED BY <3>2, <4>1, <5>2
            <4>3. left[i] - TotalSize(size) = left[k]
                BY <1>3, <3>2, <4>2
            <4>4. PICK room2 : room2 = RoomLeft(room, size)
                OBVIOUS
            <4>5. room2 \in 0 .. max
                <5>1. ~TooSmall(room, size)
                    BY <3>4, <4>1 DEF TakeStop
                <5> QED BY <4>2, <4>4, <5>1, RoomLeftIn
            <4>6. PICK t \in k .. n : f[left[k]][room2] = Taken(lb, off, n, k, t)
                BY <1>6, <3>1, <3>2, <4>5
            <4>7. f[left[i]][room] = TakeMore(lb, left[i], Taken(lb, off, n, k, t))
                <5>1. f[left[i]][room] =
                         IF TakeStop(lb, left[i], room) THEN [left |-> left[i], data |-> << >>]
                         ELSE TakeMore(lb, left[i], f[left[i] - TotalSize(TakeSize(lb, left[i]))]
                                                     [RoomLeft(room, TakeSize(lb, left[i]))])
                    BY <1>4, <3>2
                <5> QED BY <3>4, <4>1, <4>3, <4>4, <4>6, <5>1, Zenon
            <4>8. TakeMore(lb, left[i], Taken(lb, off, n, k, t))
                     = [left |-> LeftOf(off, n)[t], data |-> << Data(lb, off[i], off[k]) >> \o DataFrom(lb, off, k, t)]
                BY <4>2, Zenon DEF TakeMore, Taken
            <4>9. << Data(lb, off[k - 1], off[k]) >> \o DataFrom(lb, off, k, t) = DataFrom(lb, off, k - 1, t)
                <5>1. t \in Nat /\ k <= t
                    BY <3>2
                <5> QED BY <3>2, <5>1, DataMore
            <4>10. << Data(lb, off[i], off[k]) >> \o DataFrom(lb, off, k, t) = DataFrom(lb, off, i, t)
                BY <3>2, <4>9, Zenon
            <4>11. f[left[i]][room] = Taken(lb, off, n, i, t)
                BY <4>7, <4>8, <4>10, Zenon DEF Taken
            <4>12. t \in i .. n
                BY <3>2
            <4> QED BY <3>1, <4>11, <4>12
        <3> QED BY <3>3, <3>4
    <2>3. j + 1 \in Nat
        BY <2>1
    <2> QED BY <1>6, <2>2, <2>3
<1>9. n \in G
    <2>1. G \in SUBSET Nat
        BY <1>6
    <2> QED BY <1>3, <1>7, <1>8, <2>1, NatInd
<1>10. max \in 0 .. max /\ n - n = 0 /\ n <= n
    BY <1>3
<1>11. PICK t \in 0 .. n : f[left[0]][max] = Taken(lb, off, n, 0, t)
    BY <1>6, <1>9, <1>10
<1>12. Get2Data(lb, max) = Taken(lb, off, n, 0, t)
    BY <1>1, <1>2, <1>3, <1>11, TakeIs
<1> QED BY <1>1, <1>11, <1>12 DEF Taken

-----------------------------------------------------------------------------
(* Sessions *)

SessionFields == {"session_id", "leader_pid", "monitor_log", "monitor_overflow"}

\* A SESSION, and a list of n of them.
SessionOK(s) ==
    /\ DOMAIN s = SessionFields
    /\ s.session_id \in SessionIds /\ s.leader_pid \in Pids
    /\ s.monitor_overflow \in BOOLEAN
    /\ HasLog(s) => LogOK(s.monitor_log)
IsList(l, n) == /\ n \in Nat /\ l = [i \in 1 .. n |-> l[i]]
                /\ \A i \in 1 .. n : SessionOK(l[i])

\* Every process runs in at most one session, Session_List is a list.
Shaped == /\ running \in [Pids -> SessionIds \cup {NotRunning}]
          /\ \E n : IsList(Session_List, n)

\* The sessions that are monitored: as session ids are not repeated, there are
\* as many as there are logs.
Monitored == {Session_List[i].session_id :
                 i \in {j \in DOMAIN Session_List : HasLog(Session_List[j])}}
LogsCounted == IsFiniteSet(Monitored) /\ Session_MonitorCount = Cardinality(Monitored)

SessionInv == Shaped /\ LeaderRunsInSession /\ LogsCounted

\* A SESSION whose log is changed.
LEMMA SetLogOK ==
    ASSUME NEW s, SessionOK(s), NEW x, x = NoLog \/ LogOK(x),
           NEW d, d = [s EXCEPT !.monitor_log = x]
    PROVE  /\ SessionOK(d) /\ d.session_id = s.session_id /\ d.leader_pid = s.leader_pid
           /\ (HasLog(d) <=> x # NoLog) /\ d.monitor_log = x
<1>1. DOMAIN d = DOMAIN s /\ d.monitor_log = x /\ d.monitor_overflow = s.monitor_overflow
    BY DEF SessionOK, SessionFields
<1>2. d.session_id = s.session_id /\ d.leader_pid = s.leader_pid
    BY DEF SessionOK, SessionFields
<1> QED BY <1>1, <1>2 DEF SessionOK, HasLog

\* Setting monitor_overflow changes nothing else of a SESSION.
LEMMA SetOverflowOK ==
    ASSUME NEW s, SessionOK(s), NEW x \in BOOLEAN, NEW d, d = [s EXCEPT !.monitor_overflow = x]
    PROVE  /\ SessionOK(d) /\ d.session_id = s.session_id /\ d.leader_pid = s.leader_pid
           /\ (HasLog(d) <=> HasLog(s)) /\ d.monitor_log = s.monitor_log
<1>1. DOMAIN d = DOMAIN s /\ d.monitor_log = s.monitor_log /\ d.monitor_overflow = x
    BY DEF SessionOK, SessionFields
<1>2. d.session_id = s.session_id /\ d.leader_pid = s.leader_pid
    BY DEF SessionOK, SessionFields
<1> QED BY <1>1, <1>2 DEF SessionOK, HasLog

-----------------------------------------------------------------------------
(* Changes of the list *)

\* The list is a sequence.
LEMMA ListIsSeq ==
    ASSUME NEW l, NEW n, IsList(l, n)
    PROVE  Len(l) = n /\ DOMAIN l = 1 .. n /\ l \in Seq({l[i] : i \in 1 .. n})
<1>1. PICK S : S = {l[i] : i \in 1 .. n}
    OBVIOUS
<1>2. n \in Nat /\ l \in [1 .. n -> S]
    BY <1>1 DEF IsList
<1>3. DOMAIN l = 1 .. n /\ Len(l) = n /\ l \in Seq(S)
    BY <1>2
<1> QED BY <1>1, <1>3

\* The list of a state, and what is known of it.
Listed(n) ==
    /\ IsList(Session_List, n) /\ DOMAIN Session_List = 1 .. n /\ Len(Session_List) = n
    /\ \A i \in 1 .. n : SessionOK(Session_List[i])

\* Session_List has a length.
LEMMA TheList == ASSUME Shaped PROVE \E n \in Nat : Listed(n)
<1>1. PICK n : IsList(Session_List, n)
    BY DEF Shaped
<1> QED BY <1>1, ListIsSeq DEF Listed, IsList

\* The log of session id in a list l.
LogIn(l, id) ==
    LET open == {i \in {j \in DOMAIN l : l[j].session_id = id} : HasLog(l[i])}
    IN  IF open = {} THEN log_buffer_init ELSE l[Min(open)].monitor_log

\* LogOf is about Session_List, before and after a step.
LEMMA LogOfIs == ASSUME NEW id PROVE /\ LogOf(id) = LogIn(Session_List, id)
                                     /\ LogOf(id)' = LogIn(Session_List', id)
BY DEF LogOf, LogIn, Index

\* A list with one SESSION per id.
OneEach(l, n) == /\ IsList(l, n)
                 /\ \A i, j \in 1 .. n : l[i].session_id = l[j].session_id => i = j

\* Its log is that of the SESSION.
LEMMA LogInAt ==
    ASSUME NEW l, NEW n, OneEach(l, n), NEW i \in 1 .. n
    PROVE  LogIn(l, l[i].session_id) = IF HasLog(l[i]) THEN l[i].monitor_log ELSE log_buffer_init
<1>1. DOMAIN l = 1 .. n
    BY ListIsSeq DEF OneEach
<1>2. PICK open : open = {j \in {k \in DOMAIN l : l[k].session_id = l[i].session_id} : HasLog(l[j])}
    OBVIOUS
<1>3. LogIn(l, l[i].session_id) = IF open = {} THEN log_buffer_init ELSE l[Min(open)].monitor_log
    BY <1>2 DEF LogIn
<1>4. open = IF HasLog(l[i]) THEN {i} ELSE {}
    BY <1>1, <1>2 DEF OneEach
<1>5. Min({i}) = i
    BY DEF Min
<1> QED BY <1>3, <1>4, <1>5

\* No SESSION, no log.
LEMMA LogInNone ==
    ASSUME NEW l, NEW n, OneEach(l, n), NEW id, \A i \in 1 .. n : l[i].session_id # id
    PROVE  LogIn(l, id) = log_buffer_init
<1>1. DOMAIN l = 1 .. n
    BY ListIsSeq DEF OneEach
<1> QED BY <1>1 DEF LogIn

\* The same log is in two lists if they have the same SESSION, or if it has
\* no log.
LEMMA LogInSame ==
    ASSUME NEW l, NEW n, OneEach(l, n), NEW d, NEW k, OneEach(d, k), NEW id,
           \A i \in 1 .. n : l[i].session_id = id =>
              \E j \in 1 .. k : d[j].session_id = id /\ d[j].monitor_log = l[i].monitor_log,
           \A j \in 1 .. k : d[j].session_id = id /\ HasLog(d[j]) =>
              \E i \in 1 .. n : l[i].session_id = id
    PROVE  LogIn(d, id) = LogIn(l, id)
<1>1. ASSUME NEW i \in 1 .. n, l[i].session_id = id PROVE LogIn(d, id) = LogIn(l, id)
    <2>1. PICK j \in 1 .. k : d[j].session_id = id /\ d[j].monitor_log = l[i].monitor_log
        BY <1>1
    <2>2. LogIn(l, id) = IF HasLog(l[i]) THEN l[i].monitor_log ELSE log_buffer_init
        BY <1>1, LogInAt
    <2>3. LogIn(d, id) = IF HasLog(d[j]) THEN d[j].monitor_log ELSE log_buffer_init
        BY <2>1, LogInAt
    <2> QED BY <2>1, <2>2, <2>3 DEF HasLog
<1>2. ASSUME \A i \in 1 .. n : l[i].session_id # id PROVE LogIn(d, id) = LogIn(l, id)
    <2>1. LogIn(l, id) = log_buffer_init
        BY <1>2, LogInNone
    <2>2. \A j \in 1 .. k : d[j].session_id = id => ~HasLog(d[j])
        BY <1>2
    <2>3. LogIn(d, id) = log_buffer_init
        <3>1. DOMAIN d = 1 .. k
            BY ListIsSeq DEF OneEach
        <3> QED BY <2>2, <3>1 DEF LogIn
    <2> QED BY <2>1, <2>3
<1> QED BY <1>1, <1>2

\* Session_List is such a list.
LEMMA TheOneEach ==
    ASSUME NEW n, SessionInv, Listed(n) PROVE OneEach(Session_List, n)
BY DEF SessionInv, LeaderRunsInSession, Listed, OneEach

\* The logs of the sessions, from one state to the next.
LogsMove == \A id : LogOf(id)' = log_buffer_init \/ LogMoves(LogOf(id), LogOf(id)')

\* One SESSION changes, but neither its id nor its leader.
LEMMA SessionChanged ==
    ASSUME SessionInv, NEW n \in Nat, Listed(n), NEW i \in 1 .. n, NEW s, SessionOK(s),
           Session_List' = [Session_List EXCEPT ![i] = s], running' = running,
           s.session_id = Session_List[i].session_id, s.leader_pid = Session_List[i].leader_pid
    PROVE  /\ Shaped' /\ LeaderRunsInSession'
           /\ Monitored' = IF HasLog(s) THEN Monitored \cup {s.session_id}
                                        ELSE Monitored \ {s.session_id}
           /\ s.session_id \in Monitored <=> HasLog(Session_List[i])
<1>1. /\ DOMAIN Session_List' = 1 .. n
      /\ \A j \in 1 .. n : Session_List'[j] = IF j = i THEN s ELSE Session_List[j]
    BY DEF Listed
<1>2. IsList(Session_List, n)'
    BY <1>1 DEF Listed, IsList
<1>3. Shaped'
    BY <1>2 DEF Shaped, SessionInv
<1>4. \A j \in 1 .. n : /\ Session_List'[j].session_id = Session_List[j].session_id
                        /\ Session_List'[j].leader_pid = Session_List[j].leader_pid
    BY <1>1
<1>5. LeaderRunsInSession'
    BY <1>1, <1>4 DEF LeaderRunsInSession, SessionInv, Listed
<1>6. \A j \in 1 .. n : j # i => Session_List[j].session_id # s.session_id
    BY DEF LeaderRunsInSession, SessionInv, Listed
<1>7. s.session_id \in Monitored <=> HasLog(Session_List[i])
    BY <1>6 DEF Monitored, Listed
<1>8. Monitored' = {Session_List'[j].session_id : j \in {k \in 1 .. n : HasLog(Session_List'[k])}}
    BY <1>1 DEF Monitored
<1>9. \A x : x \in Monitored' <=> \E j \in 1 .. n : HasLog(Session_List'[j]) /\ x = Session_List'[j].session_id
    BY <1>8
<1>10. \A x : x \in Monitored <=> \E j \in 1 .. n : HasLog(Session_List[j]) /\ x = Session_List[j].session_id
    BY DEF Monitored, Listed
<1>11. \A x : x # s.session_id => (x \in Monitored' <=> x \in Monitored)
    BY <1>1, <1>4, <1>9, <1>10
<1>12. s.session_id \in Monitored' <=> HasLog(s)
    BY <1>1, <1>6, <1>9
<1> QED BY <1>3, <1>5, <1>7, <1>11, <1>12

\* The logs of the others stay the same.
LEMMA LogChanged ==
    ASSUME SessionInv, NEW n \in Nat, Listed(n), NEW i \in 1 .. n, NEW s, SessionOK(s),
           Session_List' = [Session_List EXCEPT ![i] = s], running' = running,
           s.session_id = Session_List[i].session_id, s.leader_pid = Session_List[i].leader_pid,
           NEW id
    PROVE  /\ id # s.session_id => LogOf(id)' = LogOf(id)
           /\ id = s.session_id =>
                 /\ LogOf(id) = (IF HasLog(Session_List[i]) THEN Session_List[i].monitor_log
                                 ELSE log_buffer_init)
                 /\ LogOf(id)' = IF HasLog(s) THEN s.monitor_log ELSE log_buffer_init
<1>1. PICK l, d : l = Session_List /\ d = Session_List'
    OBVIOUS
<1>2. OneEach(l, n)
    BY <1>1, TheOneEach
<1>3. /\ DOMAIN d = 1 .. n /\ d = [j \in 1 .. n |-> d[j]]
      /\ \A j \in 1 .. n : d[j] = IF j = i THEN s ELSE l[j]
    BY <1>1 DEF Listed, IsList
<1>4. \A j \in 1 .. n : SessionOK(d[j]) /\ d[j].session_id = l[j].session_id
    BY <1>1, <1>3 DEF Listed
<1>5. OneEach(d, n)
    BY <1>2, <1>3, <1>4 DEF OneEach, IsList
<1>6. LogOf(id) = LogIn(l, id) /\ LogOf(id)' = LogIn(d, id)
    BY <1>1, LogOfIs
<1>7. CASE id # s.session_id
    <2>1. \A j \in 1 .. n : l[j].session_id = id => d[j] = l[j]
        BY <1>1, <1>3, <1>7
    <2>2. LogIn(d, id) = LogIn(l, id)
        BY <1>2, <1>4, <1>5, <2>1, LogInSame
    <2> QED BY <1>6, <1>7, <2>2
<1>8. CASE id = s.session_id
    <2>1. d[i] = s /\ l[i].session_id = id /\ d[i].session_id = id
        BY <1>1, <1>3, <1>8
    <2>2. LogIn(l, id) = IF HasLog(l[i]) THEN l[i].monitor_log ELSE log_buffer_init
        BY <1>2, <2>1, LogInAt
    <2>3. LogIn(d, id) = IF HasLog(d[i]) THEN d[i].monitor_log ELSE log_buffer_init
        BY <1>5, <2>1, LogInAt
    <2> QED BY <1>1, <1>6, <1>8, <2>1, <2>2, <2>3
<1> QED BY <1>7, <1>8

\* A log is opened, closed, or stays what it is, and is counted so.
LEMMA LogSwitched ==
    ASSUME SessionInv, NEW n \in Nat, Listed(n), NEW i \in 1 .. n, NEW s, SessionOK(s),
           Session_List' = [Session_List EXCEPT ![i] = s], running' = running,
           s.session_id = Session_List[i].session_id, s.leader_pid = Session_List[i].leader_pid,
           \/ HasLog(s) /\ ~HasLog(Session_List[i]) /\ Session_MonitorCount' = Session_MonitorCount + 1
           \/ ~HasLog(s) /\ HasLog(Session_List[i]) /\ Session_MonitorCount' = Session_MonitorCount - 1
           \/ (HasLog(s) <=> HasLog(Session_List[i])) /\ Session_MonitorCount' = Session_MonitorCount,
           HasLog(s) => \/ s.monitor_log = log_buffer_init
                        \/ HasLog(Session_List[i]) /\ LogMoves(Session_List[i].monitor_log, s.monitor_log)
    PROVE  SessionInv' /\ LogsMove
<1>1. /\ Shaped' /\ LeaderRunsInSession'
      /\ Monitored' = IF HasLog(s) THEN Monitored \cup {s.session_id}
                                   ELSE Monitored \ {s.session_id}
      /\ s.session_id \in Monitored <=> HasLog(Session_List[i])
    BY SessionChanged
<1>2. IsFiniteSet(Monitored) /\ Session_MonitorCount = Cardinality(Monitored)
    BY DEF SessionInv, LogsCounted
<1>3. /\ IsFiniteSet(Monitored \cup {s.session_id}) /\ IsFiniteSet(Monitored \ {s.session_id})
      /\ s.session_id \notin Monitored =>
            Cardinality(Monitored \cup {s.session_id}) = Cardinality(Monitored) + 1
      /\ s.session_id \in Monitored =>
            Cardinality(Monitored \ {s.session_id}) = Cardinality(Monitored) - 1
    BY <1>2, FS_AddElement, FS_RemoveElement
<1>4. /\ s.session_id \in Monitored => Monitored \cup {s.session_id} = Monitored
      /\ s.session_id \notin Monitored => Monitored \ {s.session_id} = Monitored
    OBVIOUS
<1>5. LogsCounted'
    BY <1>1, <1>2, <1>3, <1>4 DEF LogsCounted
<1>6. ASSUME NEW id PROVE LogOf(id)' = log_buffer_init \/ LogMoves(LogOf(id), LogOf(id)')
    <2>1. /\ id # s.session_id => LogOf(id)' = LogOf(id)
          /\ id = s.session_id =>
                /\ LogOf(id) = (IF HasLog(Session_List[i]) THEN Session_List[i].monitor_log
                                ELSE log_buffer_init)
                /\ LogOf(id)' = IF HasLog(s) THEN s.monitor_log ELSE log_buffer_init
        BY LogChanged
    <2>2. LogOf(id)' = LogOf(id) => LogMoves(LogOf(id), LogOf(id)')
        BY DEF LogMoves
    <2> QED BY <2>1, <2>2
<1>7. LogsMove
    BY <1>6 DEF LogsMove
<1> QED BY <1>1, <1>5, <1>7 DEF SessionInv

-----------------------------------------------------------------------------
(* The steps *)

\* The position of the SESSION that a call of a process is about.
LEMMA IndexIn ==
    ASSUME NEW n, Listed(n), NEW id, NEW i \in Index(id)
    PROVE  i \in 1 .. n /\ SessionOK(Session_List[i]) /\ Session_List[i].session_id = id
BY DEF Index, Listed

\* A call that replaces the log of a SESSION.
LEMMA LogReplaced ==
    ASSUME SessionInv, NEW n \in Nat, Listed(n), NEW i \in 1 .. n, NEW x,
           Session_List' = [Session_List EXCEPT ![i].monitor_log = x], running' = running,
           \/ /\ x = log_buffer_init /\ ~HasLog(Session_List[i])
              /\ Session_MonitorCount' = Session_MonitorCount + 1
           \/ /\ x = NoLog /\ HasLog(Session_List[i])
              /\ Session_MonitorCount' = Session_MonitorCount - 1
           \/ /\ HasLog(Session_List[i]) /\ LogMoves(Session_List[i].monitor_log, x)
              /\ Session_MonitorCount' = Session_MonitorCount
    PROVE  SessionInv' /\ LogsMove
<1>1. PICK s : s = [Session_List[i] EXCEPT !.monitor_log = x]
    OBVIOUS
<1>2. SessionOK(Session_List[i])
    BY DEF Listed
<1>5. /\ x = NoLog \/ LogOK(x)
      /\ x # NoLog => \/ x = log_buffer_init
                      \/ HasLog(Session_List[i]) /\ LogMoves(Session_List[i].monitor_log, x)
    <2>1. HasLog(Session_List[i]) => LogOK(Session_List[i].monitor_log)
        BY <1>2 DEF SessionOK
    <2> QED BY <2>1, MovesOK, LogIsLog
<1>3. /\ SessionOK(s) /\ s.session_id = Session_List[i].session_id
      /\ s.leader_pid = Session_List[i].leader_pid /\ (HasLog(s) <=> x # NoLog)
      /\ s.monitor_log = x
    BY <1>1, <1>2, <1>5, SetLogOK
<1>4. Session_List' = [Session_List EXCEPT ![i] = s]
    BY <1>1
<1>6. /\ LogOK(log_buffer_init) /\ log_buffer_init # NoLog
      /\ HasLog(Session_List[i]) /\ LogMoves(Session_List[i].monitor_log, x) => x # NoLog
    <2>1. HasLog(Session_List[i]) => LogOK(Session_List[i].monitor_log)
        BY <1>2 DEF SessionOK
    <2> QED BY <2>1, MovesOK, LogIsLog
<1>7. HasLog(s) => \/ s.monitor_log = log_buffer_init
                   \/ HasLog(Session_List[i]) /\ LogMoves(Session_List[i].monitor_log, s.monitor_log)
    BY <1>3, <1>5
<1>8. \/ HasLog(s) /\ ~HasLog(Session_List[i]) /\ Session_MonitorCount' = Session_MonitorCount + 1
      \/ ~HasLog(s) /\ HasLog(Session_List[i]) /\ Session_MonitorCount' = Session_MonitorCount - 1
      \/ (HasLog(s) <=> HasLog(Session_List[i])) /\ Session_MonitorCount' = Session_MonitorCount
    BY <1>3, <1>6
<1> QED BY <1>3, <1>4, <1>7, <1>8, LogSwitched

\* Session_MonitorPutEx leaves the session with its log.
LEMMA PutKeepsLog ==
    ASSUME NEW s, SessionOK(s), HasLog(s), NEW len \in Nat, NEW d, d = PutInto(s, len)
    PROVE  /\ SessionOK(d) /\ d.session_id = s.session_id /\ d.leader_pid = s.leader_pid
           /\ HasLog(d) /\ LogMoves(s.monitor_log, d.monitor_log)
<1>1. PICK pushed : pushed = push_entry(s.monitor_log, HeaderLen + len, FALSE)
    OBVIOUS
<1>2. PICK x : x = PutLog(s.monitor_log, len)
    OBVIOUS
<1>3. LogOK(s.monitor_log)
    BY DEF SessionOK
<1>4. LogMoves(s.monitor_log, x) /\ LogOK(x) /\ x # NoLog
    BY <1>2, <1>3, PutMoves, MovesOK, LogIsLog
<1>5. PICK e : e = [s EXCEPT !.monitor_log = x]
    OBVIOUS
<1>6. /\ SessionOK(e) /\ e.session_id = s.session_id /\ e.leader_pid = s.leader_pid
      /\ HasLog(e) /\ e.monitor_log = x
    BY <1>4, <1>5, SetLogOK
<1>7. CASE pushed.ptr = NULL
    <2>1. x = pushed.lb
        BY <1>1, <1>2, <1>7 DEF PutLog
    <2>2. d = [e EXCEPT !.monitor_overflow = TRUE]
        BY <1>1, <1>5, <1>7, <2>1 DEF PutInto
    <2>3. /\ SessionOK(d) /\ d.session_id = e.session_id /\ d.leader_pid = e.leader_pid
          /\ HasLog(d) /\ d.monitor_log = e.monitor_log
        BY <1>6, <2>2, SetOverflowOK
    <2> QED BY <1>4, <1>6, <2>3
<1>8. CASE pushed.ptr # NULL
    <2>1. x = push_bytes(pushed.lb, pushed.ptr, EntryData(pushed.lb.seq_counter, len))
        BY <1>1, <1>2, <1>8 DEF PutLog
    <2>2. d = e
        BY <1>1, <1>5, <1>8, <2>1 DEF PutInto
    <2> QED BY <1>4, <1>6, <2>2
<1> QED BY <1>7, <1>8

\* A process becomes the leader of a session that has none.
LEMMA StepSetLeader ==
    ASSUME SessionInv, NEW p \in Pids, SetLeader(p) PROVE SessionInv' /\ LogsMove
<1>1. PICK n \in Nat : Listed(n)
    BY TheList DEF SessionInv
<1>2. PICK s : s = [session_id |-> running[p], leader_pid |-> p,
                    monitor_log |-> NoLog, monitor_overflow |-> FALSE]
    OBVIOUS
<1>3. running[p] \in SessionIds
    BY DEF SetLeader, Live, SessionInv, Shaped
<1>4. /\ s.session_id = running[p] /\ s.leader_pid = p /\ ~HasLog(s) /\ s.monitor_overflow = FALSE
      /\ DOMAIN s = SessionFields
    BY <1>2 DEF HasLog, SessionFields
<1>5. SessionOK(s)
    BY <1>3, <1>4 DEF SessionOK
<1>6. /\ Session_List' = Append(Session_List, s) /\ running' = running
      /\ Session_MonitorCount' = Session_MonitorCount
    BY <1>2 DEF SetLeader
<1>7. /\ Session_List' = [j \in 1 .. n + 1 |-> Session_List'[j]]
      /\ DOMAIN Session_List' = 1 .. n + 1
      /\ \A j \in 1 .. n : Session_List'[j] = Session_List[j]
      /\ Session_List'[n + 1] = s
    <2>1. PICK S : Session_List \in Seq(S) /\ s \in S
        <3>1. PICK T : T = {Session_List[i] : i \in 1 .. n} \cup {s}
            OBVIOUS
        <3>2. Session_List \in [1 .. n -> T]
            BY <1>1, <3>1 DEF Listed, IsList
        <3>3. Session_List \in Seq(T)
            BY <3>2
        <3>4. s \in T
            BY <3>1
        <3> QED BY <3>3, <3>4
    <2>2. Len(Session_List) = n
        BY <1>1 DEF Listed
    <2>3. PICK d : d = Append(Session_List, s)
        OBVIOUS
    <2>4. /\ d \in Seq(S) /\ Len(d) = n + 1 /\ d[n + 1] = s
          /\ \A j \in 1 .. n : d[j] = Session_List[j]
        BY <2>1, <2>2, <2>3, AppendProperties
    <2>5. DOMAIN d = 1 .. n + 1 /\ d = [j \in 1 .. n + 1 |-> d[j]]
        BY <2>4
    <2> QED BY <1>6, <2>3, <2>4, <2>5
<1>8. \A j \in 1 .. n + 1 : j \in 1 .. n \/ j = n + 1
    OBVIOUS
<1>9. IsList(Session_List, n + 1)'
    BY <1>1, <1>5, <1>7, <1>8 DEF Listed, IsList
<1>10. \A j \in 1 .. n : Session_List[j].session_id # running[p]
    BY <1>1 DEF SetLeader, Index, Listed
<1>11. LeaderRunsInSession'
    BY <1>1, <1>4, <1>6, <1>7, <1>8, <1>10 DEF LeaderRunsInSession, SessionInv, Listed
<1>12. Monitored' = Monitored
    <2>1. {j \in DOMAIN Session_List' : HasLog(Session_List'[j])}
             = {j \in DOMAIN Session_List : HasLog(Session_List[j])}
        BY <1>1, <1>4, <1>7, <1>8 DEF Listed
    <2>2. \A j \in {k \in DOMAIN Session_List : HasLog(Session_List[k])} :
             Session_List'[j] = Session_List[j]
        BY <1>1, <1>7 DEF Listed
    <2> QED BY <2>1, <2>2 DEF Monitored
<1>13. SessionInv'
    BY <1>6, <1>9, <1>11, <1>12 DEF SessionInv, Shaped, LogsCounted
<1>14. ASSUME NEW id PROVE LogOf(id)' = LogOf(id)
    <2>1. PICK l, d, k : l = Session_List /\ d = Session_List' /\ k = n + 1
        OBVIOUS
    <2>2. OneEach(l, n)
        BY <1>1, <2>1, TheOneEach
    <2>3. OneEach(d, k)
        <3>1. IsList(d, k) /\ DOMAIN d = 1 .. k
            BY <1>7, <1>9, <2>1
        <3>2. \A i, j \in 1 .. k : d[i].session_id = d[j].session_id => i = j
            BY <1>11, <2>1, <3>1 DEF LeaderRunsInSession
        <3> QED BY <3>1, <3>2 DEF OneEach
    <2>4. \A i \in 1 .. n : i \in 1 .. k /\ d[i] = l[i]
        BY <1>7, <2>1
    <2>5. \A j \in 1 .. k : HasLog(d[j]) => j \in 1 .. n
        BY <1>4, <1>7, <1>8, <2>1
    <2>6. LogIn(d, id) = LogIn(l, id)
        BY <2>2, <2>3, <2>4, <2>5, LogInSame
    <2> QED BY <2>1, <2>6, LogOfIs
<1>15. LogsMove
    BY <1>14 DEF LogsMove, LogMoves
<1> QED BY <1>13, <1>15

\* A process ends, and its session is freed with it: it leads at most one.
LEMMA StepProcessExits ==
    ASSUME SessionInv, NEW p \in Pids, ProcessExits(p) PROVE SessionInv' /\ LogsMove
<1>1. PICK n \in Nat : Listed(n)
    BY TheList DEF SessionInv
<1>2. /\ running' \in [Pids -> SessionIds \cup {NotRunning}]
      /\ \A u \in Pids : u # p => running'[u] = running[u]
    BY DEF ProcessExits, SessionInv, Shaped
<1>3. \A i \in 1 .. n : Session_List[i].leader_pid \in Pids
    BY <1>1 DEF Listed, SessionOK
<1>4. \A i, j \in CancelledBy(p) : i = j
    BY <1>1 DEF CancelledBy, LeaderRunsInSession, SessionInv, Listed
<1>5. CASE CancelledBy(p) = {}
    <2>1. Session_List' = Session_List /\ Session_MonitorCount' = Session_MonitorCount
        BY <1>5 DEF ProcessExits, Session_Cancel
    <2>2. \A i \in 1 .. n : Session_List[i].leader_pid # p
        BY <1>1, <1>5 DEF CancelledBy, Listed
    <2>3. LeaderRunsInSession'
        BY <1>1, <1>2, <1>3, <2>1, <2>2 DEF LeaderRunsInSession, SessionInv, Listed
    <2>4. Shaped'
        BY <1>2, <2>1 DEF SessionInv, Shaped
    <2>5. SessionInv'
        BY <2>1, <2>3, <2>4 DEF SessionInv, LogsCounted, Monitored
    <2>6. \A id : LogOf(id)' = LogOf(id)
        BY <2>1, LogOfIs
    <2> QED BY <2>5, <2>6 DEF LogsMove, LogMoves
<1>6. ASSUME NEW i \in CancelledBy(p) PROVE SessionInv' /\ LogsMove
    <2>1. CancelledBy(p) = {i} /\ i \in 1 .. n /\ Session_List[i].leader_pid = p
        BY <1>1, <1>4, <1>6 DEF CancelledBy, Listed
    <2>2. Min(CancelledBy(p)) = i
        BY <2>1 DEF Min
    <2>3. /\ Session_List' = WithoutSession(i)
          /\ Session_MonitorCount' = IF HasLog(Session_List[i]) THEN Session_MonitorCount - 1
                                                               ELSE Session_MonitorCount
        BY <2>1, <2>2 DEF ProcessExits, Session_Cancel
    <2>4. PICK Old : Old = [j \in 1 .. n - 1 |-> IF j < i THEN j ELSE j + 1]
        OBVIOUS
    <2>5. /\ DOMAIN Session_List' = 1 .. n - 1 /\ n - 1 \in Nat
          /\ Session_List' = [j \in 1 .. n - 1 |-> Session_List'[j]]
          /\ \A j \in 1 .. n - 1 : Session_List'[j] = Session_List[Old[j]]
        BY <1>1, <2>1, <2>3, <2>4 DEF WithoutSession, Listed
    <2>6. /\ \A j \in 1 .. n - 1 : Old[j] \in 1 .. n /\ Old[j] # i
          /\ \A j, k \in 1 .. n - 1 : Old[j] = Old[k] => j = k
          /\ \A k \in 1 .. n : k # i => \E j \in 1 .. n - 1 : Old[j] = k
        <3>1. \A j \in 1 .. n - 1 : Old[j] = IF j < i THEN j ELSE j + 1
            BY <2>4
        <3>2. /\ \A j \in 1 .. n - 1 : Old[j] \in 1 .. n /\ Old[j] # i
              /\ \A j, k \in 1 .. n - 1 : Old[j] = Old[k] => j = k
            BY <2>1, <3>1
        <3>3. ASSUME NEW k \in 1 .. n, k # i PROVE \E j \in 1 .. n - 1 : Old[j] = k
            <4>1. CASE k < i
                <5>1. k \in 1 .. n - 1 /\ Old[k] = k
                    BY <2>1, <3>1, <4>1
                <5> QED BY <5>1
            <4>2. CASE k > i
                <5>1. k - 1 \in 1 .. n - 1 /\ Old[k - 1] = k
                    BY <2>1, <3>1, <4>2
                <5> QED BY <5>1
            <4> QED BY <2>1, <3>3, <4>1, <4>2
        <3> QED BY <3>2, <3>3
    <2>7. IsList(Session_List, n - 1)'
        BY <1>1, <2>5, <2>6 DEF IsList, Listed
    <2>8. \A k \in 1 .. n : k # i => /\ Session_List[k].leader_pid # p
                                     /\ Session_List[k].session_id # Session_List[i].session_id
        BY <1>1, <2>1 DEF CancelledBy, LeaderRunsInSession, SessionInv, Listed
    <2>9. LeaderRunsInSession'
        <3>1. ASSUME NEW j \in 1 .. n - 1
              PROVE  running'[Session_List'[j].leader_pid] = Session_List'[j].session_id
            <4>1. PICK k \in 1 .. n : k = Old[j] /\ k # i /\ Session_List'[j] = Session_List[k]
                BY <2>5, <2>6
            <4> QED BY <1>1, <1>2, <1>3, <2>8, <4>1 DEF LeaderRunsInSession, SessionInv, Listed
        <3>2. ASSUME NEW j \in 1 .. n - 1, NEW k \in 1 .. n - 1,
                     Session_List'[j].session_id = Session_List'[k].session_id
              PROVE  j = k
            BY <1>1, <2>5, <2>6, <3>2 DEF LeaderRunsInSession, SessionInv, Listed
        <3> QED BY <2>5, <3>1, <3>2 DEF LeaderRunsInSession
    <2>10. PICK id : id = Session_List[i].session_id
        OBVIOUS
    <2>11. Monitored' = Monitored \ {id} /\ (id \in Monitored <=> HasLog(Session_List[i]))
        <3>1. \A x : x \in Monitored <=>
                 \E k \in 1 .. n : HasLog(Session_List[k]) /\ x = Session_List[k].session_id
            BY <1>1 DEF Monitored, Listed
        <3>2. \A x : x \in Monitored' <=>
                 \E j \in 1 .. n - 1 : HasLog(Session_List'[j]) /\ x = Session_List'[j].session_id
            BY <2>5 DEF Monitored
        <3>3. id \in Monitored <=> HasLog(Session_List[i])
            BY <2>1, <2>8, <2>10, <3>1
        <3>4. \A x : x \in Monitored' => x \in Monitored /\ x # id
            BY <2>5, <2>6, <2>8, <2>10, <3>1, <3>2
        <3>5. ASSUME NEW x \in Monitored, x # id PROVE x \in Monitored'
            <4>1. PICK k \in 1 .. n : HasLog(Session_List[k]) /\ x = Session_List[k].session_id
                BY <3>1
            <4>2. PICK j \in 1 .. n - 1 : Old[j] = k
                BY <2>6, <2>10, <3>5, <4>1
            <4> QED BY <2>5, <3>2, <4>1, <4>2
        <3> QED BY <3>3, <3>4, <3>5
    <2>12. LogsCounted'
        <3>1. IsFiniteSet(Monitored) /\ Session_MonitorCount = Cardinality(Monitored)
            BY DEF SessionInv, LogsCounted
        <3>2. /\ IsFiniteSet(Monitored \ {id})
              /\ Cardinality(Monitored \ {id}) = IF id \in Monitored THEN Cardinality(Monitored) - 1
                                                                    ELSE Cardinality(Monitored)
            BY <3>1, FS_RemoveElement
        <3> QED BY <2>3, <2>11, <3>1, <3>2 DEF LogsCounted
    <2>13. SessionInv'
        BY <1>2, <2>7, <2>9, <2>12 DEF SessionInv, Shaped
    <2>14. ASSUME NEW x PROVE LogOf(x)' = LogOf(x) \/ LogOf(x)' = log_buffer_init
        <3>1. PICK l, d, m : l = Session_List /\ d = Session_List' /\ m = n - 1
            OBVIOUS
        <3>2. OneEach(l, n)
            BY <1>1, <3>1, TheOneEach
        <3>3. OneEach(d, m)
            <4>1. IsList(d, m) /\ DOMAIN d = 1 .. m
                BY <2>5, <2>7, <3>1
            <4>2. \A j, k \in 1 .. m : d[j].session_id = d[k].session_id => j = k
                BY <2>9, <3>1, <4>1 DEF LeaderRunsInSession
            <4> QED BY <4>1, <4>2 DEF OneEach
        <3>4. /\ \A j \in 1 .. m : Old[j] \in 1 .. n /\ d[j] = l[Old[j]] /\ Old[j] # i
              /\ \A k \in 1 .. n : k # i => \E j \in 1 .. m : Old[j] = k
            BY <2>5, <2>6, <3>1
        <3>5. CASE x = id
            <4>1. \A j \in 1 .. m : d[j].session_id # x
                BY <2>8, <2>10, <3>1, <3>4, <3>5
            <4>2. LogIn(d, x) = log_buffer_init
                BY <3>3, <4>1, LogInNone
            <4> QED BY <3>1, <4>2, LogOfIs
        <3>6. CASE x # id
            <4>1. ASSUME NEW k \in 1 .. n, l[k].session_id = x
                  PROVE  \E j \in 1 .. m : d[j].session_id = x /\ d[j].monitor_log = l[k].monitor_log
                <5>1. k # i
                    BY <2>10, <3>1, <3>6, <4>1
                <5>2. PICK j \in 1 .. m : Old[j] = k
                    BY <3>4, <5>1
                <5> QED BY <3>4, <4>1, <5>2
            <4>2. \A j \in 1 .. m : d[j].session_id = x /\ HasLog(d[j]) =>
                     \E k \in 1 .. n : l[k].session_id = x
                BY <3>4
            <4>3. LogIn(d, x) = LogIn(l, x)
                BY <3>2, <3>3, <4>1, <4>2, LogInSame
            <4> QED BY <3>1, <4>3, LogOfIs
        <3> QED BY <3>5, <3>6
    <2>15. LogsMove
        BY <2>14 DEF LogsMove, LogMoves
    <2> QED BY <2>13, <2>15
<1> QED BY <1>5, <1>6

\* Nothing happens to the list.
LEMMA LogsStay == ASSUME Session_List' = Session_List PROVE LogsMove
<1>1. \A id : LogOf(id)' = LogOf(id)
    BY LogOfIs
<1> QED BY <1>1 DEF LogsMove, LogMoves

\* A reader takes entries from the log of its session.
Replaces(p, i, x) ==
    /\ i \in Index(running[p]) /\ HasLog(Session_List[i])
    /\ Shrunk(Session_List[i].monitor_log, x)
    /\ Session_List' = [Session_List EXCEPT ![i].monitor_log = x]

\* MonitorGetEx takes one, and returns as many.
LEMMA GetExTakes ==
    ASSUME NEW n, Listed(n), NEW p, NEW max, MonitorGetEx(p, max)
    PROVE  \E i, x, k, off, num :
              /\ Replaces(p, i, x) /\ IsPopped(Session_List[i].monitor_log, k, off, num, x, 1)
              /\ out'.session = running[p] /\ out'.call = "GetEx" /\ Len(out'.data) = 1
<1>1. PICK i \in Index(running[p]) :
         /\ HasLog(Session_List[i]) /\ Session_List[i].monitor_log.buffer_used > 0
         /\ \E got1 : out' = Result("GetEx", running[p],
                                   IF got1.fits THEN "SUCCESS" ELSE "BUFFER_TOO_SMALL", << got1.data >>)
         /\ Session_List' = [Session_List EXCEPT ![i].monitor_log = pop_entry(Session_List[i].monitor_log)]
    BY DEF MonitorGetEx
<1>2. LogOK(Session_List[i].monitor_log)
    BY <1>1, IndexIn DEF SessionOK
<1>3. PICK x : x = pop_entry(Session_List[i].monitor_log)
    OBVIOUS
<1>4. PICK k, off, num : IsPopped(Session_List[i].monitor_log, k, off, num, x, 1)
    BY <1>1, <1>2, <1>3, PopMoves
<1>5. out'.session = running[p] /\ out'.call = "GetEx" /\ Len(out'.data) = 1
    BY <1>1 DEF Result
<1>6. Replaces(p, i, x)
    BY <1>1, <1>3, <1>4 DEF Replaces, Shrunk
<1> QED BY <1>4, <1>5, <1>6

\* MonitorGet2 takes some, and returns the data of those.
LEMMA Get2Takes ==
    ASSUME NEW n, Listed(n), NEW p, NEW max \in BufferLens, MonitorGet2(p, max)
    PROVE  \E i, x, k, off, num, t :
              /\ Replaces(p, i, x) /\ IsPopped(Session_List[i].monitor_log, k, off, num, x, t)
              /\ out'.session = running[p] /\ out'.call = "Get2"
              /\ out'.data = DataFrom(Session_List[i].monitor_log, off, 0, t)
<1>1. PICK i, got2 :
         /\ i \in Index(running[p]) /\ HasLog(Session_List[i]) /\ Session_List[i].monitor_log.buffer_used > 0
         /\ got2 = Get2Data(Session_List[i].monitor_log, max)
         /\ out' = Result("Get2", running[p], IF got2.left = 0 THEN "SUCCESS" ELSE "MORE_ENTRIES", got2.data)
         /\ Session_List' = [Session_List EXCEPT ![i].monitor_log =
                                PopTo(Session_List[i].monitor_log, got2.left)]
    BY DEF MonitorGet2
<1>2. LogOK(Session_List[i].monitor_log)
    BY <1>1, IndexIn DEF SessionOK
<1>3. PICK lb, x : lb = Session_List[i].monitor_log /\ x = PopTo(lb, got2.left)
    OBVIOUS
<1>4. max \in Nat
    BY LensAssumption
<1>5. PICK k, off, num, t :
         /\ Chain(lb, k, off, num) /\ t \in 0 .. k
         /\ Get2Data(lb, max) = [left |-> LeftOf(off, k)[t], data |-> DataFrom(lb, off, 0, t)]
    <2>1. LogOK(lb)
        BY <1>2, <1>3
    <2> QED BY <1>4, <2>1, Get2Is
<1>6. got2.left = LeftOf(off, k)[t] /\ got2.data = DataFrom(lb, off, 0, t)
    BY <1>1, <1>3, <1>5
<1>7. IsPopped(lb, k, off, num, x, t)
    BY <1>3, <1>5, <1>6 DEF IsPopped
<1>8. out'.session = running[p] /\ out'.call = "Get2" /\ out'.data = DataFrom(lb, off, 0, t)
    BY <1>1, <1>6 DEF Result
<1>9. Replaces(p, i, x)
    BY <1>1, <1>3, <1>7 DEF Replaces, Shrunk
<1> QED BY <1>3, <1>7, <1>8, <1>9

\* Every step keeps the leaders and the count.
LEMMA SessionStep == SessionInv /\ [MonitorNext]_monitorVars => SessionInv' /\ LogsMove
<1> SUFFICES ASSUME SessionInv, [MonitorNext]_monitorVars PROVE SessionInv' /\ LogsMove
    OBVIOUS
<1>n. PICK n \in Nat : Listed(n)
    BY TheList DEF SessionInv
<1>1. ASSUME NEW p \in Pids, NEW id \in SessionIds, ProcessStarts(p, id) PROVE SessionInv' /\ LogsMove
    <2>1. /\ Session_List' = Session_List /\ Session_MonitorCount' = Session_MonitorCount
          /\ running' \in [Pids -> SessionIds \cup {NotRunning}]
          /\ \A u \in Pids : running[u] # NotRunning => running'[u] = running[u]
        BY <1>1 DEF ProcessStarts, SessionInv, Shaped
    <2>2. \A i \in 1 .. n : /\ Session_List[i].leader_pid \in Pids
                            /\ Session_List[i].session_id # NotRunning
        BY <1>n DEF Listed, SessionOK, NotRunning
    <2>3. LeaderRunsInSession'
        BY <1>n, <2>1, <2>2 DEF LeaderRunsInSession, SessionInv, Listed
    <2>4. SessionInv'
        BY <2>1, <2>3 DEF SessionInv, Shaped, LogsCounted, Monitored
    <2> QED BY <2>1, <2>4, LogsStay
<1>2. ASSUME NEW p \in Pids, EnableMonitor(p) PROVE SessionInv' /\ LogsMove
    <2>1. PICK i \in Index(running[p]) :
             /\ ~HasLog(Session_List[i])
             /\ Session_List' = [Session_List EXCEPT ![i].monitor_log = log_buffer_init]
             /\ Session_MonitorCount' = Session_MonitorCount + 1
        BY <1>2 DEF EnableMonitor
    <2>2. i \in 1 .. n /\ running' = running
        BY <1>n, <1>2, IndexIn DEF EnableMonitor
    <2> QED BY <1>n, <2>1, <2>2, LogReplaced
<1>3. ASSUME NEW p \in Pids, DisableMonitor(p) PROVE SessionInv' /\ LogsMove
    <2>1. PICK i \in Index(running[p]) :
             /\ HasLog(Session_List[i])
             /\ Session_List' = [Session_List EXCEPT ![i].monitor_log = NoLog]
             /\ Session_MonitorCount' = Session_MonitorCount - 1
        BY <1>3 DEF DisableMonitor
    <2>2. i \in 1 .. n /\ running' = running
        BY <1>n, <1>3, IndexIn DEF DisableMonitor
    <2> QED BY <1>n, <2>1, <2>2, LogReplaced
<1>4. ASSUME NEW p \in Pids, NEW len \in DataLens, MonitorPut(p, len) PROVE SessionInv' /\ LogsMove
    <2>1. PICK i \in Index(running[p]) :
             /\ HasLog(Session_List[i])
             /\ \E s \in {PutInto(Session_List[i], len)} :
                   Session_List' = [Session_List EXCEPT ![i] = s]
        BY <1>4 DEF MonitorPut
    <2>2. i \in 1 .. n /\ running' = running /\ Session_MonitorCount' = Session_MonitorCount
        BY <1>n, <1>4, IndexIn DEF MonitorPut
    <2>3. PICK s : s = PutInto(Session_List[i], len) /\ Session_List' = [Session_List EXCEPT ![i] = s]
        BY <2>1
    <2>4. /\ SessionOK(s) /\ s.session_id = Session_List[i].session_id
          /\ s.leader_pid = Session_List[i].leader_pid /\ HasLog(s)
          /\ LogMoves(Session_List[i].monitor_log, s.monitor_log)
        <3>1. len \in Nat
            BY LensAssumption
        <3> QED BY <1>n, <2>1, <2>2, <2>3, <3>1, PutKeepsLog DEF Listed
    <2> QED BY <1>n, <2>1, <2>2, <2>3, <2>4, LogSwitched
<1>5. ASSUME NEW p \in Pids, NEW call, GetNothing(p, call) PROVE SessionInv' /\ LogsMove
    <2>1. running' = running /\ Session_MonitorCount' = Session_MonitorCount
        BY <1>5 DEF GetNothing
    <2>2. CASE Session_List' = Session_List
        <3>1. SessionInv'
            BY <2>1, <2>2 DEF SessionInv, Shaped, LeaderRunsInSession, LogsCounted, Monitored
        <3> QED BY <2>2, <3>1, LogsStay
    <2>3. ASSUME NEW i \in Index(running[p]),
                 Session_List' = [Session_List EXCEPT ![i].monitor_overflow = FALSE]
          PROVE  SessionInv' /\ LogsMove
        <3>1. i \in 1 .. n /\ SessionOK(Session_List[i])
            BY <1>n, IndexIn
        <3>2. PICK s : s = [Session_List[i] EXCEPT !.monitor_overflow = FALSE]
            OBVIOUS
        <3>3. /\ SessionOK(s) /\ s.session_id = Session_List[i].session_id
              /\ s.leader_pid = Session_List[i].leader_pid /\ (HasLog(s) <=> HasLog(Session_List[i]))
              /\ s.monitor_log = Session_List[i].monitor_log
            BY <3>1, <3>2, SetOverflowOK
        <3>4. Session_List' = [Session_List EXCEPT ![i] = s]
            BY <2>3, <3>2
        <3>5. HasLog(s) => HasLog(Session_List[i]) /\ LogMoves(Session_List[i].monitor_log, s.monitor_log)
            BY <3>3 DEF LogMoves
        <3> QED BY <1>n, <2>1, <3>1, <3>3, <3>4, <3>5, LogSwitched
    <2> QED BY <1>5, <2>2, <2>3 DEF GetNothing
<1>6. ASSUME NEW p \in Pids, NEW max \in BufferLens, MonitorGetEx(p, max) \/ MonitorGet2(p, max)
      PROVE  SessionInv' /\ LogsMove
    <2>1. running' = running /\ Session_MonitorCount' = Session_MonitorCount
        BY <1>6 DEF MonitorGetEx, MonitorGet2
    <2>2. PICK i, x : Replaces(p, i, x)
        BY <1>n, <1>6, GetExTakes, Get2Takes
    <2>3. i \in 1 .. n /\ HasLog(Session_List[i]) /\ LogMoves(Session_List[i].monitor_log, x)
        BY <1>n, <2>2, IndexIn DEF Replaces, LogMoves
    <2> QED BY <1>n, <2>1, <2>2, <2>3, LogReplaced DEF Replaces
<1>7. CASE UNCHANGED monitorVars
    <2>1. SessionInv' /\ Session_List' = Session_List
        BY <1>7 DEF monitorVars, SessionInv, Shaped, LeaderRunsInSession, LogsCounted, Monitored
    <2> QED BY <2>1, LogsStay
<1> QED BY <1>1, <1>2, <1>3, <1>4, <1>5, <1>6, <1>7, StepSetLeader, StepProcessExits DEF MonitorNext

\* The invariant holds at first.
LEMMA SessionInit == MonitorInit => SessionInv
<1> SUFFICES ASSUME MonitorInit PROVE SessionInv
    OBVIOUS
<1>1. IsList(Session_List, 0) /\ DOMAIN Session_List = {}
    BY DEF MonitorInit, IsList
<1>2. Shaped
    BY <1>1 DEF MonitorInit, Shaped
<1>3. LeaderRunsInSession
    BY <1>1 DEF LeaderRunsInSession
<1>4. Monitored = {}
    BY <1>1 DEF Monitored
<1>5. LogsCounted
    BY <1>4, FS_EmptySet DEF MonitorInit, LogsCounted
<1> QED BY <1>2, <1>3, <1>5 DEF SessionInv

-----------------------------------------------------------------------------
(* The theorems *)

\* A SESSION is led by a live process that runs in that very session, and there
\* is one per session id, for any number of processes, sessions and starts:
\* Session_Cancel, which stops at the first SESSION it finds, leaves none to a
\* process id that is given to somebody else.
THEOREM LeadersRun == MonitorSpec => []LeaderRunsInSession
<1>1. SessionInv => LeaderRunsInSession
    BY DEF SessionInv
<1> QED BY <1>1, SessionInit, SessionStep, PTL DEF MonitorSpec

\* There are as many monitored sessions as logs.
LEMMA MonitoredIsLogs == SessionInv => CountIsLogs
<1> SUFFICES ASSUME SessionInv PROVE CountIsLogs
    OBVIOUS
<1>1. PICK n \in Nat : Listed(n)
    BY TheList DEF SessionInv
<1>2. PICK I : I = {i \in DOMAIN Session_List : HasLog(Session_List[i])}
    OBVIOUS
<1>3. IsFiniteSet(I)
    <2>1. IsFiniteSet(1 .. n)
        BY FS_Interval
    <2>2. I \subseteq 1 .. n
        BY <1>1, <1>2 DEF Listed
    <2> QED BY <2>1, <2>2, FS_Subset
<1>4. PICK f : f = [i \in I |-> Session_List[i].session_id]
    OBVIOUS
<1>5. \A i \in I : f[i] \in Monitored
    BY <1>2, <1>4 DEF Monitored
<1>6. f \in Injection(I, Monitored)
    <2>1. f \in [I -> Monitored]
        BY <1>4, <1>5
    <2>2. \A i, j \in I : f[i] = f[j] => i = j
        BY <1>2, <1>4 DEF LeaderRunsInSession, SessionInv
    <2> QED BY <2>1, <2>2 DEF Injection, IsInjective
<1>7. f \in Surjection(I, Monitored)
    BY <1>2, <1>4, <1>5 DEF Surjection, Monitored
<1>8. ExistsBijection(I, Monitored)
    BY <1>6, <1>7 DEF ExistsBijection, Bijection
<1>9. Cardinality(I) = Cardinality(Monitored)
    BY <1>3, <1>8, FS_Bijection
<1> QED BY <1>2, <1>9 DEF CountIsLogs, SessionInv, LogsCounted

\* Session_MonitorCount is the number of monitor logs, so logging is neither
\* skipped while a session is monitored nor tried when none is, however leaders
\* come, go and leave their logs behind; and every log lies inside its ring.
THEOREM CountOfLogs == MonitorSpec => []MonitorCountIsLogs
<1>1. SessionInv => MonitorTypeOK
    <2> SUFFICES ASSUME SessionInv PROVE MonitorTypeOK
        OBVIOUS
    <2>1. PICK n \in Nat : Listed(n)
        BY TheList DEF SessionInv
    <2>2. ASSUME NEW i \in DOMAIN Session_List
          PROVE  /\ Session_List[i].session_id \in SessionIds
                 /\ Session_List[i].monitor_overflow \in BOOLEAN
                 /\ HasLog(Session_List[i]) =>
                       /\ Session_List[i].monitor_log.buffer_used \in 0 .. BufferSize
                       /\ Session_List[i].monitor_log.buffer_start \in 0 .. BufferSize - 1
        <3>1. SessionOK(Session_List[i])
            BY <2>1, <2>2 DEF Listed
        <3>2. HasLog(Session_List[i]) => Session_List[i].monitor_log \in Ring
            BY <3>1 DEF SessionOK, LogOK
        <3>3. HasLog(Session_List[i]) =>
                       /\ Session_List[i].monitor_log.buffer_used \in 0 .. BufferSize
                       /\ Session_List[i].monitor_log.buffer_start \in 0 .. BufferSize - 1
            BY <3>2 DEF Ring
        <3> QED BY <3>1, <3>3 DEF SessionOK
    <2>3. Session_MonitorCount \in Int
        BY FS_CardinalityType DEF SessionInv, LogsCounted
    <2> QED BY <2>2, <2>3 DEF SessionInv, Shaped, MonitorTypeOK
<1>2. SessionInv => MonitorCountIsLogs
    BY <1>1, MonitoredIsLogs DEF MonitorCountIsLogs
<1> QED BY <1>2, SessionInit, SessionStep, PTL DEF MonitorSpec

-----------------------------------------------------------------------------
(* A monitor log is a bounded queue *)

\* The log of any session is a ring of whole entries, whether it is open or not.
LEMMA LogOfOK == ASSUME SessionInv, NEW id PROVE LogOK(LogOf(id))
<1>1. PICK n \in Nat : Listed(n)
    BY TheList DEF SessionInv
<1>2. PICK l : l = Session_List
    OBVIOUS
<1>3. OneEach(l, n)
    BY <1>1, <1>2, TheOneEach
<1>4. LogOf(id) = LogIn(l, id)
    BY <1>2, LogOfIs
<1>5. CASE \A i \in 1 .. n : l[i].session_id # id
    BY <1>3, <1>4, <1>5, LogInNone, InitOK
<1>6. ASSUME NEW i \in 1 .. n, l[i].session_id = id PROVE LogOK(LogOf(id))
    <2>1. LogIn(l, id) = IF HasLog(l[i]) THEN l[i].monitor_log ELSE log_buffer_init
        BY <1>3, <1>6, LogInAt
    <2>2. HasLog(l[i]) => LogOK(l[i].monitor_log)
        BY <1>1, <1>2 DEF Listed, SessionOK
    <2> QED BY <1>4, <2>1, <2>2, InitOK
<1> QED BY <1>5, <1>6

\* The room of a bounded queue's entries.
LEMMA MonitorRoom == ASSUME NEW s PROVE MonitorBL!Room(s) = RoomOf(s)
BY DEF MonitorBL!Room, RoomOf

\* A step of the driver is a step of the queue.
LEMMA MonitorMoves ==
    ASSUME SessionInv, [MonitorNext]_monitorVars
    PROVE  [MonitorBL!Next]_<<Entries(LogOf(OneSession)), LogOf(OneSession).seq_counter>>
<1>1. PICK lb, new, old, ents : /\ lb = LogOf(OneSession) /\ new = LogOf(OneSession)'
                                /\ old = Entries(lb) /\ ents = Entries(new)
    OBVIOUS
<1>2. LogOK(lb) /\ lb \in Ring
    BY <1>1, LogOfOK DEF LogOK
<1>3. new = log_buffer_init \/ LogMoves(lb, new)
    BY <1>1, SessionStep DEF LogsMove
<1>4. CASE new = lb
    BY <1>1, <1>4
<1>5. CASE new = log_buffer_init
    <2>1. ents = << >> /\ new.seq_counter = 0
        BY <1>1, <1>5, InitOK DEF log_buffer_init
    <2>2. MonitorBL!Reopen(ents)
        BY <1>1, <2>1 DEF MonitorBL!Reopen
    <2> QED BY <1>1, <2>2 DEF MonitorBL!Next
<1>6. CASE new = Counted(lb)
    <2>1. ents = old /\ new.seq_counter = (lb.seq_counter + 1) % SeqMod
        BY <1>1, <1>2, <1>6, CountedOK
    <2>2. MonitorBL!Refuse(old, ents)
        BY <1>1, <2>1 DEF MonitorBL!Refuse
    <2> QED BY <1>1, <2>2 DEF MonitorBL!Next
<1>7. CASE Grown(lb, new, FALSE)
    <2>0. PICK can : can = FALSE
        OBVIOUS
    <2>1. /\ new.seq_counter = (lb.seq_counter + 1) % SeqMod
          /\ GrownList(old, ents, new.seq_counter, can)
        <3>1. Grown(lb, new, can)
            BY <1>7, <2>0
        <3>2. old = Entries(lb) /\ ents = Entries(new)
            BY <1>1
        <3> QED BY <1>2, <3>1, <3>2, GrownIs
    <2>2. MonitorBL!Push(old, ents)
        BY <1>1, <2>0, <2>1, MonitorRoom, Zenon DEF MonitorBL!Push, GrownList
    <2> QED BY <1>1, <2>2 DEF MonitorBL!Next
<1>8. CASE Shrunk(lb, new)
    <2>1. /\ new.seq_counter = lb.seq_counter /\ Len(ents) <= Len(old)
          /\ ents = SubSeq(old, 1 + Len(old) - Len(ents), Len(old))
        BY <1>1, <1>2, <1>8, ShrunkIs
    <2>2. MonitorBL!Take(old, ents)
        BY <1>1, <2>1, Zenon DEF MonitorBL!Take
    <2> QED BY <1>1, <2>2 DEF MonitorBL!Next
<1> QED BY <1>3, <1>4, <1>5, <1>6, <1>7, <1>8 DEF LogMoves

\* The monitor log of a session is a first-in first-out queue that refuses what
\* it has no room for and never pushes an entry out, for a ring of any size,
\* entries of any length, and any number of sessions and readers: wherever the
\* end of the ring cuts an entry, its sizes or its number, what is read is what
\* was put.
THEOREM MonitorLogIsQueue == MonitorSpec => LogIsBoundedLog
<1>1. MonitorInit => MonitorBL!Init
    <2> SUFFICES ASSUME MonitorInit PROVE MonitorBL!Init
        OBVIOUS
    <2>1. LogOf(OneSession) = log_buffer_init
        BY DEF MonitorInit, LogOf, Index
    <2> QED BY <2>1, InitOK DEF MonitorBL!Init, log_buffer_init
<1>2. SessionInv /\ [MonitorNext]_monitorVars
         => [MonitorBL!Next]_<<Entries(LogOf(OneSession)), LogOf(OneSession).seq_counter>>
    BY MonitorMoves
<1> QED BY <1>1, <1>2, SessionInit, SessionStep, PTL DEF MonitorSpec, LogIsBoundedLog, MonitorBL!Spec

-----------------------------------------------------------------------------
(* A read removes what it returns *)

\* The data of the entries of a log.
DataIn(lb) == LET e == Entries(lb) IN [i \in DOMAIN e |-> e[i].data]

\* The data of a ring of whole entries, and after k of them are gone.
LEMMA DataIs ==
    ASSUME NEW lb \in Ring, NEW n, NEW off, NEW num, NEW new, NEW k, IsPopped(lb, n, off, num, new, k)
    PROVE  /\ n \in Nat /\ k \in 0 .. n
           /\ DataIn(lb) = DataFrom(lb, off, 0, n) /\ DataIn(new) = DataFrom(lb, off, k, n)
<1>1. /\ n \in Nat /\ k \in 0 .. n /\ Entries(lb) = ListOf(lb, n, off, num)
      /\ Entries(new) = [i \in 1 .. n - k |-> EntryOf(lb, off, num, i + k)]
    BY PoppedOK
<1>2. PICK old, ents : old = Entries(lb) /\ ents = Entries(new)
    OBVIOUS
<1>3. /\ DOMAIN old = 1 .. n /\ \A i \in 1 .. n : old[i].data = Data(lb, off[i - 1], off[i])
      /\ DOMAIN ents = 1 .. n - k
      /\ \A i \in 1 .. n - k : ents[i].data = Data(lb, off[i + k - 1], off[i + k])
    BY <1>1, <1>2 DEF ListOf, EntryOf
<1>4. DataIn(lb) = [i \in 1 .. n |-> old[i].data] /\ DataIn(new) = [i \in 1 .. n - k |-> ents[i].data]
    BY <1>2, <1>3 DEF DataIn
<1>5. DataIn(lb) = [i \in 1 .. n |-> Data(lb, off[i - 1], off[i])]
    BY <1>3, <1>4
<1>6. DataIn(new) = [i \in 1 .. n - k |-> Data(lb, off[i + k - 1], off[i + k])]
    BY <1>3, <1>4
<1>7. n - 0 = n /\ \A i \in 1 .. n : 0 + i - 1 = i - 1 /\ 0 + i = i
    BY <1>1
<1>8. \A i \in 1 .. n - k : k + i - 1 = i + k - 1 /\ k + i = i + k
    BY <1>1
<1> QED BY <1>1, <1>5, <1>6, <1>7, <1>8 DEF DataFrom

\* The first k data and the others.
LEMMA DataParts ==
    ASSUME NEW lb, NEW off, NEW n \in Nat, NEW k \in 0 .. n
    PROVE  /\ DataFrom(lb, off, 0, n) = DataFrom(lb, off, 0, k) \o DataFrom(lb, off, k, n)
           /\ Len(DataFrom(lb, off, 0, n)) = n
           /\ DataFrom(lb, off, k, n) = SubSeq(DataFrom(lb, off, 0, n), 1 + k, n)
<1>1. PICK a, b, c : /\ a = DataFrom(lb, off, 0, k) /\ b = DataFrom(lb, off, k, n)
                     /\ c = DataFrom(lb, off, 0, n)
    OBVIOUS
<1>2. PICK D : D = [i \in 1 .. n |-> Data(lb, off[i - 1], off[i])]
    OBVIOUS
<1>3. c = D
    <2>1. n - 0 = n /\ \A i \in 1 .. n : 0 + i - 1 = i - 1 /\ 0 + i = i
        OBVIOUS
    <2> QED BY <1>1, <1>2, <2>1 DEF DataFrom
<1>4. a = [i \in 1 .. k |-> D[i]]
    <2>1. k - 0 = k /\ \A i \in 1 .. k : 0 + i - 1 = i - 1 /\ 0 + i = i /\ i \in 1 .. n
        OBVIOUS
    <2> QED BY <1>1, <1>2, <2>1 DEF DataFrom
<1>5. b = [i \in 1 .. n - k |-> D[k + i]]
    <2>1. \A i \in 1 .. n - k : k + i \in 1 .. n
        OBVIOUS
    <2> QED BY <1>1, <1>2, <2>1 DEF DataFrom
<1>6. PICK S : S = {D[i] : i \in 1 .. n}
    OBVIOUS
<1>7. a \in Seq(S) /\ Len(a) = k /\ b \in Seq(S) /\ Len(b) = n - k /\ D \in Seq(S) /\ Len(D) = n
    <2>1. a \in [1 .. k -> S]
        BY <1>4, <1>6
    <2>2. b \in [1 .. n - k -> S]
        <3>1. \A i \in 1 .. n - k : k + i \in 1 .. n
            OBVIOUS
        <3> QED BY <1>5, <1>6, <3>1
    <2>3. D \in [1 .. n -> S]
        BY <1>2, <1>6
    <2>4. n - k \in Nat /\ k \in Nat
        OBVIOUS
    <2> QED BY <2>1, <2>2, <2>3, <2>4
<1>8. PICK t : t = a \o b
    OBVIOUS
<1>9. /\ t \in Seq(S) /\ Len(t) = Len(a) + Len(b)
      /\ \A i \in 1 .. Len(a) + Len(b) : t[i] = IF i <= Len(a) THEN a[i] ELSE b[i - Len(a)]
    BY <1>7, <1>8, ConcatProperties
<1>10. Len(t) = n /\ \A i \in 1 .. n : t[i] = IF i <= k THEN a[i] ELSE b[i - k]
    BY <1>7, <1>9
<1>11. \A i \in 1 .. n : t[i] = D[i]
    <2>1. \A i \in 1 .. n : (i <= k => i \in 1 .. k) /\ (~(i <= k) => i - k \in 1 .. n - k /\ k + (i - k) = i)
        OBVIOUS
    <2> QED BY <1>4, <1>5, <1>10, <2>1
<1>12. t = D
    BY <1>7, <1>9, <1>10, <1>11
<1>13. b = SubSeq(D, k + 1, n)
    <2>1. n \in k .. n
        OBVIOUS
    <2>2. SubSeq(D, k + 1, n) = [i \in 1 .. n - k |-> D[i + k]]
        BY <2>1, Part
    <2>3. \A i \in 1 .. n - k : i + k = k + i
        OBVIOUS
    <2> QED BY <1>5, <2>2, <2>3
<1>14. 1 + k = k + 1
    OBVIOUS
<1> QED BY <1>1, <1>3, <1>7, <1>8, <1>12, <1>13, <1>14

\* t entries are taken from the log of the session in which p runs.
Reads(p, i, x, k, off, num, t, id) ==
    /\ Replaces(p, i, x) /\ running[p] = id
    /\ IsPopped(Session_List[i].monitor_log, k, off, num, x, t)

\* What a read does to the data of the session that it is about.
LEMMA ReadTakes ==
    ASSUME SessionInv, NEW n \in Nat, Listed(n), running' = running, NEW p, NEW i, NEW x, NEW k, NEW off, NEW num,
           NEW t, NEW id, Reads(p, i, x, k, off, num, t, id)
    PROVE  /\ k \in Nat /\ t \in 0 .. k
           /\ DataOf(id) = DataFrom(Session_List[i].monitor_log, off, 0, k)
           /\ DataOf(id)' = DataFrom(Session_List[i].monitor_log, off, t, k)
<1>1. PICK lb, s : /\ lb = Session_List[i].monitor_log
                   /\ s = [Session_List[i] EXCEPT !.monitor_log = x]
    OBVIOUS
<1>0. /\ Replaces(p, i, x) /\ running[p] = id
      /\ IsPopped(Session_List[i].monitor_log, k, off, num, x, t)
    BY DEF Reads
<1>2. /\ i \in 1 .. n /\ SessionOK(Session_List[i]) /\ Session_List[i].session_id = id
      /\ HasLog(Session_List[i]) /\ Shrunk(lb, x)
    BY <1>0, <1>1, IndexIn DEF Replaces
<1>3. LogOK(lb) /\ lb \in Ring
    BY <1>1, <1>2 DEF SessionOK, LogOK
<1>4. LogOK(x) /\ x # NoLog
    BY <1>2, <1>3, ShrunkOK, LogIsLog
<1>5. /\ SessionOK(s) /\ s.session_id = Session_List[i].session_id
      /\ s.leader_pid = Session_List[i].leader_pid /\ HasLog(s) /\ s.monitor_log = x
    BY <1>1, <1>2, <1>4, SetLogOK
<1>6. Session_List' = [Session_List EXCEPT ![i] = s]
    BY <1>0, <1>1 DEF Replaces
<1>7. LogOf(id) = lb /\ LogOf(id)' = x
    <2>1. /\ id # s.session_id => LogOf(id)' = LogOf(id)
          /\ id = s.session_id =>
                /\ LogOf(id) = (IF HasLog(Session_List[i]) THEN Session_List[i].monitor_log
                                ELSE log_buffer_init)
                /\ LogOf(id)' = IF HasLog(s) THEN s.monitor_log ELSE log_buffer_init
        BY <1>2, <1>5, <1>6, LogChanged
    <2> QED BY <1>1, <1>2, <1>5, <2>1
<1>8. DataOf(id) = DataIn(lb) /\ DataOf(id)' = DataIn(x)
    BY <1>7 DEF DataOf, DataIn
<1>9. /\ k \in Nat /\ t \in 0 .. k
      /\ DataIn(lb) = DataFrom(lb, off, 0, k) /\ DataIn(x) = DataFrom(lb, off, t, k)
    BY <1>0, <1>1, <1>3, DataIs
<1> QED BY <1>1, <1>8, <1>9

\* What a read that finds nothing leaves.
LEMMA ReadNothing ==
    ASSUME NEW lb, LogOK(lb), NEW d, d = DataIn(lb)
    PROVE  d = << >> \o d /\ d = SubSeq(d, 1 + Len(<< >>), Len(d))
<1>1. PICK n, off, num : lb \in Ring /\ Chain(lb, n, off, num)
    BY DEF LogOK
<1>2. PICK x, k : k = 0 /\ x = PopTo(lb, LeftOf(off, n)[k])
    OBVIOUS
<1>3. IsPopped(lb, n, off, num, x, k)
    BY <1>1, <1>2 DEF IsPopped, Chain
<1>4. n \in Nat /\ k \in 0 .. n /\ DataIn(lb) = DataFrom(lb, off, 0, n)
    BY <1>1, <1>3, DataIs
<1>5. /\ DataFrom(lb, off, 0, n) = DataFrom(lb, off, 0, k) \o DataFrom(lb, off, k, n)
      /\ Len(DataFrom(lb, off, 0, n)) = n
      /\ DataFrom(lb, off, k, n) = SubSeq(DataFrom(lb, off, 0, n), 1 + k, n)
    BY <1>4, DataParts
<1>6. DataFrom(lb, off, 0, 0) = << >>
    <2>1. 1 .. 0 - 0 = {}
        OBVIOUS
    <2> QED BY <2>1 DEF DataFrom
<1>7. Len(<< >>) = 0
    OBVIOUS
<1> QED BY <1>2, <1>4, <1>5, <1>6, <1>7, Zenon

\* The read of a session's log whose data is d, and then e.
Removes(d, e) ==
    /\ out'.call = "Get2" => d = out'.data \o e
    /\ out'.call = "GetEx" => e = SubSeq(d, 1 + Len(out'.data), Len(d))

About(id) == out' # out /\ out'.session = id

\* Each way to read.
LEMMA StepReads ==
    ASSUME SessionInv, [MonitorNext]_monitorVars, NEW id, About(id)
    PROVE  Removes(DataOf(id), DataOf(id)')
<1>n. PICK n \in Nat : Listed(n)
    BY TheList DEF SessionInv
<1>1. CASE out' = Nothing
    BY <1>1 DEF Nothing, Removes
<1>2. ASSUME NEW p \in Pids, NEW call, GetNothing(p, call) PROVE Removes(DataOf(id), DataOf(id)')
    <2>1. DataOf(id)' = DataOf(id)
        <3>1. CASE Session_List' = Session_List
            BY <3>1 DEF DataOf, LogOf, Index
        <3>2. ASSUME NEW i \in Index(running[p]),
                     Session_List' = [Session_List EXCEPT ![i].monitor_overflow = FALSE]
              PROVE  DataOf(id)' = DataOf(id)
            <4>1. i \in 1 .. n /\ SessionOK(Session_List[i])
                BY <1>n, IndexIn
            <4>0. PICK no \in BOOLEAN : no = FALSE
                OBVIOUS
            <4>2. PICK s : s = [Session_List[i] EXCEPT !.monitor_overflow = no]
                OBVIOUS
            <4>3. /\ SessionOK(s) /\ s.session_id = Session_List[i].session_id
                  /\ s.leader_pid = Session_List[i].leader_pid /\ (HasLog(s) <=> HasLog(Session_List[i]))
                  /\ s.monitor_log = Session_List[i].monitor_log
                BY <4>1, <4>2, SetOverflowOK
            <4>4. Session_List' = [Session_List EXCEPT ![i] = s] /\ running' = running
                BY <1>2, <3>2, <4>0, <4>2 DEF GetNothing
            <4>5. /\ id # s.session_id => LogOf(id)' = LogOf(id)
                  /\ id = s.session_id =>
                        /\ LogOf(id) = (IF HasLog(Session_List[i]) THEN Session_List[i].monitor_log
                                        ELSE log_buffer_init)
                        /\ LogOf(id)' = IF HasLog(s) THEN s.monitor_log ELSE log_buffer_init
                BY <1>n, <4>1, <4>3, <4>4, LogChanged
            <4>6. LogOf(id)' = LogOf(id)
                BY <4>3, <4>5
            <4> QED BY <4>6 DEF DataOf
        <3> QED BY <1>2, <3>1, <3>2 DEF GetNothing
    <2>2. out'.data = << >>
        BY <1>2 DEF GetNothing, Result
    <2>3. PICK lb, d : lb = LogOf(id) /\ d = DataIn(lb)
        OBVIOUS
    <2>4. LogOK(lb)
        BY <2>3, LogOfOK
    <2>5. d = << >> \o d /\ d = SubSeq(d, 1 + Len(<< >>), Len(d))
        BY <2>3, <2>4, ReadNothing
    <2>6. DataOf(id) = d
        BY <2>3 DEF DataOf, DataIn
    <2>7. d = out'.data \o d /\ d = SubSeq(d, 1 + Len(out'.data), Len(d))
        BY <2>2, <2>5, Zenon
    <2> QED BY <2>1, <2>6, <2>7, Zenon DEF Removes
<1>3. ASSUME NEW p \in Pids, NEW max \in BufferLens, MonitorGetEx(p, max)
      PROVE  Removes(DataOf(id), DataOf(id)')
    <2>1. PICK i, x, k, off, num :
             /\ Replaces(p, i, x) /\ IsPopped(Session_List[i].monitor_log, k, off, num, x, 1)
             /\ out'.session = running[p] /\ out'.call = "GetEx" /\ Len(out'.data) = 1
        BY <1>n, <1>3, GetExTakes
    <2>2. running' = running
        BY <1>3 DEF MonitorGetEx
    <2>3. PICK lb, t : lb = Session_List[i].monitor_log /\ t = 1
        OBVIOUS
    <2>4. /\ k \in Nat /\ t \in 0 .. k
          /\ DataOf(id) = DataFrom(lb, off, 0, k)
          /\ DataOf(id)' = DataFrom(lb, off, t, k)
        <3>1. running[p] = id
            BY <2>1 DEF About
        <3>2. Reads(p, i, x, k, off, num, t, id)
            BY <2>1, <2>3, <3>1 DEF Reads
        <3>3. /\ k \in Nat /\ t \in 0 .. k
              /\ DataOf(id) = DataFrom(Session_List[i].monitor_log, off, 0, k)
              /\ DataOf(id)' = DataFrom(Session_List[i].monitor_log, off, t, k)
            BY <1>n, <2>2, <3>2, ReadTakes
        <3> QED BY <2>3, <3>3
    <2>7. /\ Len(DataFrom(lb, off, 0, k)) = k
          /\ DataFrom(lb, off, t, k) = SubSeq(DataFrom(lb, off, 0, k), 1 + t, k)
        BY <2>4, DataParts
    <2>8. out'.call # "Get2" /\ Len(out'.data) = t
        BY <2>1, <2>3
    <2> QED BY <2>4, <2>7, <2>8, Zenon DEF Removes
<1>4. ASSUME NEW p \in Pids, NEW max \in BufferLens, MonitorGet2(p, max)
      PROVE  Removes(DataOf(id), DataOf(id)')
    <2>1. PICK i, x, k, off, num, t :
             /\ Replaces(p, i, x) /\ IsPopped(Session_List[i].monitor_log, k, off, num, x, t)
             /\ out'.session = running[p] /\ out'.call = "Get2"
             /\ out'.data = DataFrom(Session_List[i].monitor_log, off, 0, t)
        BY <1>n, <1>4, Get2Takes
    <2>2. running' = running
        BY <1>4 DEF MonitorGet2
    <2>3. PICK lb : lb = Session_List[i].monitor_log
        OBVIOUS
    <2>4. /\ k \in Nat /\ t \in 0 .. k
          /\ DataOf(id) = DataFrom(lb, off, 0, k)
          /\ DataOf(id)' = DataFrom(lb, off, t, k)
        <3>1. running[p] = id
            BY <2>1 DEF About
        <3>2. Reads(p, i, x, k, off, num, t, id)
            BY <2>1, <2>3, <3>1 DEF Reads
        <3>3. /\ k \in Nat /\ t \in 0 .. k
              /\ DataOf(id) = DataFrom(Session_List[i].monitor_log, off, 0, k)
              /\ DataOf(id)' = DataFrom(Session_List[i].monitor_log, off, t, k)
            BY <1>n, <2>2, <3>2, ReadTakes
        <3> QED BY <2>3, <3>3
    <2>7. DataFrom(lb, off, 0, k) = DataFrom(lb, off, 0, t) \o DataFrom(lb, off, t, k)
        BY <2>4, DataParts
    <2>8. out'.call # "GetEx" /\ out'.data = DataFrom(lb, off, 0, t)
        BY <2>1, <2>3
    <2> QED BY <2>4, <2>7, <2>8, Zenon DEF Removes
<1>5. CASE UNCHANGED monitorVars
    BY <1>5 DEF monitorVars, About
<1>6. ASSUME NEW p \in Pids, NEW id1 \in SessionIds, ProcessStarts(p, id1) PROVE out' = Nothing
    BY <1>6 DEF ProcessStarts
<1>7. ASSUME NEW p \in Pids, SetLeader(p) \/ ProcessExits(p) \/ EnableMonitor(p) \/ DisableMonitor(p)
      PROVE  out' = Nothing
    BY <1>7 DEF SetLeader, ProcessExits, EnableMonitor, DisableMonitor
<1>8. ASSUME NEW p \in Pids, NEW len \in DataLens, MonitorPut(p, len) PROVE out' = Nothing
    BY <1>8 DEF MonitorPut
<1> QED BY <1>1, <1>2, <1>3, <1>4, <1>5, <1>6, <1>7, <1>8 DEF MonitorNext

\* MonitorGet2 hands out whole entries, oldest first, and removes exactly the
\* ones it hands out; MonitorGetEx removes the one oldest entry: whatever the
\* lengths of entries and buffers, nothing that was logged is lost between two
\* reads, handed out twice, or handed out in parts.
THEOREM ReadsRemove == MonitorSpec => GetRemovesWhatItReturns
<1> DEFINE A == \A id \in SessionIds : (out' # out /\ out'.session = id) =>
                   /\ out'.call = "Get2" => DataOf(id) = out'.data \o DataOf(id)'
                   /\ out'.call = "GetEx" =>
                         DataOf(id)' = SubSeq(DataOf(id), 1 + Len(out'.data),
                                              Len(DataOf(id)))
<1>1. SessionInv /\ [MonitorNext]_monitorVars => [A]_monitorVars
    BY StepReads, Zenon DEF Removes, About
<1> QED BY <1>1, SessionInit, SessionStep, PTL DEF MonitorSpec, GetRemovesWhatItReturns

-----------------------------------------------------------------------------
(* The messages in the driver's log *)

\* A number below the modulus, and a function on an interval.
LEMMA SmallMod == \A x \in Nat : x < SeqMod => x % SeqMod = x
OBVIOUS

\* A function on an interval is a sequence.
LEMMA FunIsSeq ==
    ASSUME NEW S, NEW l \in Nat, NEW f \in [1 .. l -> S]
    PROVE  f \in Seq(S) /\ Len(f) = l /\ DOMAIN f = 1 .. l
OBVIOUS

\* What a message's data is.
IsBody(bytes, ses, v, len) == bytes = Body(ses, v, len)
BodyParts(b, s, v, len) ==
    /\ b \in Seq(Cells) /\ Len(b) = 6 + len /\ DOMAIN b = 1 .. 6 + len
    /\ b[1] = <<s, 1>> /\ b[2] = <<s, 2>> /\ b[5] = <<v, 1>> /\ b[6] = <<v, 2>>
    /\ \A k \in 1 .. len : b[6 + k] = <<v, k>>
\* The fields and the text of a message.
LEMMA BodyIs ==
    ASSUME NEW s \in Nat, NEW v \in Nat, NEW len \in Nat, NEW b, IsBody(b, s, v, len)
    PROVE  BodyParts(b, s, v, len)
<1>1. PICK x1, x2, x4 : x1 = Field(s) /\ x2 = Field(v) /\ x4 = [k \in 1 .. len |-> <<v, k>>]
    OBVIOUS
<1>2. /\ x1 \in [1 .. 2 -> Cells] /\ x1[1] = <<s, 1>> /\ x1[2] = <<s, 2>>
      /\ x2 \in [1 .. 2 -> Cells] /\ x2[1] = <<v, 1>> /\ x2[2] = <<v, 2>>
      /\ x4 \in [1 .. len -> Cells] /\ \A k \in 1 .. len : x4[k] = <<v, k>>
    BY <1>1 DEF Field, FieldLen, Cells
<1>3. /\ x1 \in Seq(Cells) /\ Len(x1) = 2 /\ x2 \in Seq(Cells) /\ Len(x2) = 2
      /\ x4 \in Seq(Cells) /\ Len(x4) = len
    <2>1. PICK l \in Nat : l = 2
        OBVIOUS
    <2>2. x1 \in Seq(Cells) /\ Len(x1) = l
        <3>1. x1 \in [1 .. l -> Cells]
            BY <1>2, <2>1
        <3> QED BY <3>1, FunIsSeq
    <2>3. x2 \in Seq(Cells) /\ Len(x2) = l
        <3>1. x2 \in [1 .. l -> Cells]
            BY <1>2, <2>1
        <3> QED BY <3>1, FunIsSeq
    <2>4. x4 \in Seq(Cells) /\ Len(x4) = len
        <3>1. x4 \in [1 .. len -> Cells]
            BY <1>2
        <3> QED BY <3>1, FunIsSeq
    <2> QED BY <2>1, <2>2, <2>3, <2>4
<1>4. PICK y1 : y1 = x1 \o x2
    OBVIOUS
<1>5. /\ y1 \in Seq(Cells) /\ Len(y1) = 4 /\ y1[1] = <<s, 1>> /\ y1[2] = <<s, 2>>
    <2>1. /\ y1 \in Seq(Cells) /\ Len(y1) = Len(x1) + Len(x2)
          /\ \A i \in 1 .. Len(x1) + Len(x2) : y1[i] = IF i <= Len(x1) THEN x1[i] ELSE x2[i - Len(x1)]
        BY <1>3, <1>4, ConcatProperties
    <2> QED BY <1>2, <1>3, <2>1
<1>6. PICK y2 : y2 = y1 \o x2
    OBVIOUS
<1>7. /\ y2 \in Seq(Cells) /\ Len(y2) = 6 /\ y2[1] = <<s, 1>> /\ y2[2] = <<s, 2>>
      /\ y2[5] = <<v, 1>> /\ y2[6] = <<v, 2>>
    <2>1. /\ y2 \in Seq(Cells) /\ Len(y2) = Len(y1) + Len(x2)
          /\ \A i \in 1 .. Len(y1) + Len(x2) : y2[i] = IF i <= Len(y1) THEN y1[i] ELSE x2[i - Len(y1)]
        BY <1>3, <1>5, <1>6, ConcatProperties
    <2> QED BY <1>2, <1>3, <1>5, <2>1
<1>8. PICK y3 : y3 = y2 \o x4
    OBVIOUS
<1>9. /\ y3 \in Seq(Cells) /\ Len(y3) = Len(y2) + Len(x4)
      /\ \A i \in 1 .. Len(y2) + Len(x4) : y3[i] = IF i <= Len(y2) THEN y2[i] ELSE x4[i - Len(y2)]
    BY <1>3, <1>7, <1>8, ConcatProperties
<1>10. /\ Len(y3) = 6 + len /\ DOMAIN y3 = 1 .. 6 + len
       /\ y3[1] = <<s, 1>> /\ y3[2] = <<s, 2>> /\ y3[5] = <<v, 1>> /\ y3[6] = <<v, 2>>
    BY <1>3, <1>7, <1>9
<1>11. ASSUME NEW k \in 1 .. len PROVE y3[6 + k] = <<v, k>>
    <2>1. 6 + k \in 1 .. 6 + len /\ ~(6 + k <= 6) /\ (6 + k) - 6 = k
        OBVIOUS
    <2> QED BY <1>2, <1>3, <1>7, <1>9, <2>1
<1>12. b = y3
    BY <1>1, <1>4, <1>6, <1>8, Zenon DEF Body, IsBody
<1> QED BY <1>9, <1>10, <1>11, <1>12 DEF BodyParts

\* The i-th of n messages has the number c - n + i, and the data of a message
\* with that number: the numbers of the messages in the ring are consecutive,
\* up to the one given out last.
IsMessage(lb, off, i, ses, v, len) == Data(lb, off[i - 1], off[i]) = Body(ses, v, len)
Messages(lb, n, off, num) ==
    /\ Chain(lb, n, off, num) /\ n <= lb.seq_counter
    /\ \A i \in 1 .. n : /\ num[i] = lb.seq_counter - n + i
                         /\ \E ses, len : /\ ses \in Sessions /\ len \in Nat
                                          /\ IsMessage(lb, off, i, ses, num[i], len)

\* At first there are none.
LEMMA NoMessages == \E n, off, num : Messages(log_buffer_init, n, off, num)
<1>1. PICK lb, n, off, num : /\ lb = log_buffer_init /\ n = 0 /\ off = [i \in 0 .. 0 |-> 0]
                             /\ num = [i \in 1 .. 0 |-> 0]
    OBVIOUS
<1>2. Chain(lb, n, off, num) /\ lb.seq_counter = 0
    BY <1>1, ChainInit DEF log_buffer_init
<1>3. n <= lb.seq_counter /\ 1 .. n = {}
    BY <1>1, <1>2
<1>4. Messages(lb, n, off, num)
    BY <1>2, <1>3 DEF Messages
<1> QED BY <1>1, <1>4

\* A message is added: the messages that are kept keep their numbers.
LEMMA MessageAdded ==
    ASSUME NEW lb \in Ring, NEW n, NEW off, NEW num, Messages(lb, n, off, num),
           NEW ses \in Sessions, NEW len \in Nat, NEW bytes, NEW c \in Nat,
           NEW new, NEW k, NEW o, NEW m, IsAdded(lb, n, off, num, bytes, new, k, o, m),
           IsBody(bytes, ses, c, len), c = lb.seq_counter + 1, c < SeqMod
    PROVE  new.seq_counter = c /\ Messages(new, n - k + 1, o, m)
<1>1. PICK q, w : q = n - k + 1 /\ w = n - k
    OBVIOUS
<1>2. /\ k \in 0 .. n /\ new \in Ring /\ new.seq_counter = (lb.seq_counter + 1) % SeqMod
      /\ Chain(new, q, o, m)
      /\ ListOf(new, q, o, m) = [i \in 1 .. q |-> IF i <= w THEN EntryOf(lb, off, num, i + k)
                                                  ELSE [seq |-> new.seq_counter, data |-> bytes]]
    BY <1>1 DEF IsAdded
<1>3. new.seq_counter = c
    <2>1. c % SeqMod = c
        BY SmallMod
    <2> QED BY <1>2, <2>1
<1>4. n \in Nat /\ n <= lb.seq_counter /\ lb.seq_counter \in Nat
    BY DEF Messages, Chain, Ring
<1>5. q \in Nat /\ w \in Nat /\ q = w + 1 /\ q <= new.seq_counter
    BY <1>1, <1>2, <1>3, <1>4
<1>6. PICK s : s = ListOf(new, q, o, m)
    OBVIOUS
<1>7. \A i \in 1 .. q : s[i].seq = m[i] /\ s[i].data = Data(new, o[i - 1], o[i])
    BY <1>2, <1>6, ListIs
<1>8. ASSUME NEW i \in 1 .. q
      PROVE  /\ m[i] = new.seq_counter - q + i
             /\ \E ses1, len1 : /\ ses1 \in Sessions /\ len1 \in Nat
                                /\ IsMessage(new, o, i, ses1, m[i], len1)
    <2>1. CASE i <= w
        <3>1. PICK j \in 1 .. n : j = i + k
            BY <1>1, <1>2, <1>4, <2>1
        <3>2. s[i] = EntryOf(lb, off, num, j)
            BY <1>2, <1>6, <2>1, <3>1
        <3>3. s[i].seq = num[j] /\ s[i].data = Data(lb, off[j - 1], off[j])
            BY <3>2 DEF EntryOf
        <3>4. num[j] = lb.seq_counter - n + j
            BY DEF Messages
        <3>5. PICK ses1, len1 : ses1 \in Sessions /\ len1 \in Nat /\ IsMessage(lb, off, j, ses1, num[j], len1)
            BY DEF Messages
        <3>6. m[i] = num[j] /\ IsMessage(new, o, i, ses1, m[i], len1)
            BY <1>7, <3>3, <3>5 DEF IsMessage
        <3>7. m[i] = new.seq_counter - q + i
            <4>1. lb.seq_counter - n + j = new.seq_counter - q + i
                <5>1. PICK z \in Nat : z = lb.seq_counter
                    BY <1>4
                <5>2. new.seq_counter = z + 1 /\ k \in Nat /\ n \in Nat
                    BY <1>2, <1>3, <1>4, <5>1
                <5> QED BY <1>1, <3>1, <5>1, <5>2
            <4> QED BY <3>4, <3>6, <4>1
        <3> QED BY <3>5, <3>6, <3>7
    <2>2. CASE ~(i <= w)
        <3>1. i = q
            BY <1>5, <2>2
        <3>2. s[i] = [seq |-> new.seq_counter, data |-> bytes]
            BY <1>2, <1>6, <2>2
        <3>3. m[i] = c /\ Data(new, o[i - 1], o[i]) = bytes
            BY <1>3, <1>7, <3>2
        <3>4. IsMessage(new, o, i, ses, m[i], len)
            BY <3>3 DEF IsMessage, IsBody
        <3>5. m[i] = new.seq_counter - q + i
            BY <1>3, <1>5, <3>1, <3>3
        <3> QED BY <3>4, <3>5
    <2> QED BY <2>1, <2>2
<1>9. Messages(new, q, o, m)
    BY <1>2, <1>5, <1>8 DEF Messages
<1> QED BY <1>1, <1>3, <1>9

\* Api_AddMessage adds a message, or does nothing for one that is larger than
\* the ring.
LEMMA AddedIs ==
    ASSUME NEW lb \in Ring, NEW n, NEW off, NEW num, Messages(lb, n, off, num),
           NEW ses \in Sessions, NEW len \in Nat, lb.seq_counter + 1 < SeqMod,
           NEW new, new = AddMessage(lb, ses, len)
    PROVE  \/ new = lb
           \/ /\ Grown(lb, new, TRUE) /\ new \in Ring /\ new.seq_counter = lb.seq_counter + 1
              /\ \E k, o, m : Messages(new, k, o, m)
<1>1. PICK size, can, c : size = BodyHeader + len /\ can = TRUE /\ c = lb.seq_counter + 1
    OBVIOUS
<1>2. /\ size \in Nat /\ size = 6 + len /\ c \in Nat /\ c < SeqMod /\ can \in BOOLEAN
      /\ (lb.seq_counter + 1) % SeqMod = c /\ Chain(lb, n, off, num)
    <2>1. c \in Nat /\ c < SeqMod
        BY <1>1 DEF Ring
    <2>2. c % SeqMod = c
        BY <2>1, SmallMod
    <2>3. size \in Nat /\ size = 6 + len
        BY <1>1 DEF BodyHeader, FieldLen
    <2> QED BY <1>1, <2>1, <2>2, <2>3 DEF Messages
<1>3. ses \in Nat
    BY SessionsAssumption
<1>4. PICK bytes : bytes = Body(ses, c, len)
    OBVIOUS
<1>5. IsBytes(bytes, size) /\ IsBody(bytes, ses, c, len)
    <2>1. IsBody(bytes, ses, c, len)
        BY <1>4 DEF IsBody
    <2>2. BodyParts(bytes, ses, c, len)
        BY <1>2, <1>3, <2>1, BodyIs
    <2> QED BY <1>2, <2>1, <2>2 DEF IsBytes, BodyParts
<1>6. PICK r : r = push_entry(lb, size, can)
    OBVIOUS
<1>7. PICK added : added = push_bytes(r.lb, r.ptr, bytes)
    OBVIOUS
<1>8. \/ r = [lb |-> lb, ptr |-> NULL] /\ TotalSize(size) > BufferSize
      \/ r = [lb |-> Counted(lb), ptr |-> NULL] /\ ~can
      \/ /\ r.ptr # NULL /\ r.lb.seq_counter = (lb.seq_counter + 1) % SeqMod
         /\ \E k, o, m : /\ IsAdded(lb, n, off, num, bytes, added, k, o, m)
                         /\ ~can => k = 0
    BY <1>2, <1>5, <1>6, <1>7, Pushed
<1>9. new = IF r.ptr = NULL THEN r.lb ELSE push_bytes(r.lb, r.ptr, Body(ses, r.lb.seq_counter, len))
    BY <1>1, <1>6 DEF AddMessage
<1>10. CASE r = [lb |-> lb, ptr |-> NULL]
    BY <1>9, <1>10
<1>11. CASE /\ r.ptr # NULL /\ r.lb.seq_counter = (lb.seq_counter + 1) % SeqMod
            /\ \E k, o, m : /\ IsAdded(lb, n, off, num, bytes, added, k, o, m)
                            /\ ~can => k = 0
    <2>1. new = added
        BY <1>2, <1>4, <1>7, <1>9, <1>11
    <2>2. PICK k, o, m : IsAdded(lb, n, off, num, bytes, added, k, o, m)
        BY <1>11
    <2>3. added.seq_counter = c /\ Messages(added, n - k + 1, o, m)
        BY <1>1, <1>2, <1>5, <2>2, MessageAdded
    <2>4. Grown(lb, added, can) /\ added \in Ring
        BY <1>2, <1>11, <2>2 DEF Grown, IsAdded
    <2> QED BY <1>1, <2>1, <2>3, <2>4
<1> QED BY <1>1, <1>8, <1>10, <1>11

-----------------------------------------------------------------------------
(* What Api_GetMessage reads of a message *)

\* The cells of an entry whose data is a message.
IsEntry(lb, a, b, s, v, len) == Data(lb, a, b) = Body(s, v, len)
\* The fields and the text lie where Api_GetMessage looks for them.
LEMMA MessageCells ==
    ASSUME NEW lb \in Ring, NEW from \in 0 .. BufferSize, NEW to \in 0 .. BufferSize, from + 6 <= to,
           NEW s \in Nat, NEW v \in Nat, NEW len \in Nat, IsEntry(lb, from, to, s, v, len)
    PROVE  /\ to - from - 6 = 6 + len
           /\ Holds(lb, from + 4, s) /\ Holds(lb, from + 8, v)
           /\ \A k \in 1 .. len : Cell(lb, from + 9 + k) = <<v, k>>
           /\ Value(SubSeq(Data(lb, from, to), 1, FieldLen)) = s
<1>0. PICK bytes : bytes = Data(lb, from, to)
    OBVIOUS
<1>1. PICK size \in Nat : size = to - from - 6
    OBVIOUS
<1>2. bytes = [i \in 1 .. size |-> Cell(lb, from + 4 + i - 1)]
    BY <1>0, <1>1 DEF Data, Bytes
<1>3. /\ bytes \in Seq(Cells) /\ Len(bytes) = 6 + len /\ DOMAIN bytes = 1 .. 6 + len
      /\ bytes[1] = <<s, 1>> /\ bytes[2] = <<s, 2>> /\ bytes[5] = <<v, 1>> /\ bytes[6] = <<v, 2>>
      /\ \A k \in 1 .. len : bytes[6 + k] = <<v, k>>
    <2>1. IsBody(bytes, s, v, len)
        BY <1>0 DEF IsEntry, IsBody
    <2>2. BodyParts(bytes, s, v, len)
        BY <2>1, BodyIs
    <2> QED BY <2>2 DEF BodyParts
<1>4. size = 6 + len
    <2>1. 1 .. size = 1 .. 6 + len
        BY <1>2, <1>3
    <2>2. PICK z \in Nat : z = 6 + len
        OBVIOUS
    <2>3. z >= 6 /\ 1 .. size = 1 .. z
        BY <2>1, <2>2
    <2>4. z \in 1 .. z
        BY <2>3
    <2>5. z \in 1 .. size
        BY <2>3, <2>4, Zenon
    <2>6. size \in 1 .. size
        BY <2>3, <2>5
    <2>7. size \in 1 .. z
        BY <2>3, <2>6, Zenon
    <2>8. size = z
        BY <2>5, <2>7
    <2> QED BY <2>2, <2>8
<1>5. \A i \in 1 .. size : bytes[i] = Cell(lb, from + 3 + i)
    <2>1. ASSUME NEW i \in 1 .. size PROVE bytes[i] = Cell(lb, from + 3 + i)
        <3>1. from + 4 + i - 1 = from + 3 + i
            OBVIOUS
        <3> QED BY <1>2, <3>1
    <2> QED BY <2>1
<1>6. Holds(lb, from + 4, s)
    <2>1. bytes[1] = Cell(lb, from + 4) /\ bytes[2] = Cell(lb, from + 5)
        <3>1. from + 3 + 1 = from + 4 /\ from + 3 + 2 = from + 5 /\ 1 \in 1 .. size /\ 2 \in 1 .. size
            BY <1>4
        <3> QED BY <1>5, <3>1
    <2>2. from + 4 + 1 = from + 5
        OBVIOUS
    <2> QED BY <1>3, <2>1, <2>2 DEF Holds
<1>7. Holds(lb, from + 8, v)
    <2>1. bytes[5] = Cell(lb, from + 8) /\ bytes[6] = Cell(lb, from + 9)
        <3>1. from + 3 + 5 = from + 8 /\ from + 3 + 6 = from + 9 /\ 5 \in 1 .. size /\ 6 \in 1 .. size
            BY <1>4
        <3> QED BY <1>5, <3>1
    <2>2. from + 8 + 1 = from + 9
        OBVIOUS
    <2> QED BY <1>3, <2>1, <2>2 DEF Holds
<1>8. ASSUME NEW k \in 1 .. len PROVE Cell(lb, from + 9 + k) = <<v, k>>
    <2>1. 6 + k \in 1 .. size /\ from + 3 + (6 + k) = from + 9 + k
        BY <1>4
    <2> QED BY <1>3, <1>5, <2>1
<1>9. Value(SubSeq(bytes, 1, FieldLen)) = s
    <2>1. PICK c, one, l, z : c = SubSeq(bytes, 1, FieldLen) /\ one = 1 /\ l = 2 /\ z = 0
        OBVIOUS
    <2>2. PICK len6 \in Nat : len6 = 6 + len
        OBVIOUS
    <2>3. z \in 0 .. len6 /\ l \in z .. len6 /\ z + 1 = one /\ l - z = 2
        BY <2>1, <2>2
    <2>4. SubSeq(bytes, z + 1, l) = [i \in 1 .. l - z |-> bytes[i + z]]
        BY <2>2, <2>3, Part
    <2>5. c = SubSeq(bytes, z + 1, l)
        BY <2>1, <2>3 DEF FieldLen
    <2>6. c = [i \in 1 .. 2 |-> bytes[i + z]]
        BY <2>3, <2>4, <2>5
    <2>7. c = [i \in 1 .. 2 |-> <<s, i>>]
        <3>1. ASSUME NEW i \in 1 .. 2 PROVE bytes[i + z] = <<s, i>>
            <4>1. i + z = i /\ (i = 1 \/ i = 2)
                BY <2>1
            <4> QED BY <1>3, <4>1
        <3> QED BY <2>6, <3>1
    <2>8. c[1][1] = s /\ Field(s) = c
        BY <2>7 DEF Field, FieldLen
    <2>9. Value(c) = s
        BY <2>8 DEF Value
    <2> QED BY <2>1, <2>9
<1> QED BY <1>0, <1>1, <1>4, <1>6, <1>7, <1>8, <1>9

\* The copy that Api_GetMessage makes of a text is the text, up to the end of
\* the ring.
LEMMA TextCopied ==
    ASSUME NEW lb \in Ring, NEW j \in 0 .. BufferSize, NEW text \in 1 .. BufferSize,
           Points(lb, text, j), NEW v \in Nat, NEW len \in Nat, j + len <= BufferSize,
           \A k \in 1 .. len : Cell(lb, j - 1 + k) = <<v, k>>
    PROVE  \A k \in DOMAIN Memcpy(lb, text, len) : Memcpy(lb, text, len)[k] \in {<<v, k>>, Uninit}
<1>1. PICK copy : copy = Memcpy(lb, text, len)
    OBVIOUS
<1>2. copy = [i \in 1 .. len |-> IF text + i - 1 < BufferSize THEN lb.buffer_data[text + i - 1]
                                                             ELSE Uninit]
    BY <1>1 DEF Memcpy
<1>3. PICK s \in 0 .. BufferSize - 1 : s = lb.buffer_start
    BY DEF Ring
<1>4. ASSUME NEW k \in 1 .. len, text + k - 1 < BufferSize
      PROVE  lb.buffer_data[text + k - 1] = <<v, k>>
    <2>1. text < BufferSize /\ text = Pos(s + j)
        BY <1>3, <1>4 DEF Points, Wrap
    <2>2. text + k - 1 = Pos(s + (j - 1 + k))
        BY <1>4, <2>1 DEF Pos
    <2>3. Cell(lb, j - 1 + k) = lb.buffer_data[text + k - 1]
        BY <1>3, <2>2 DEF Cell
    <2> QED BY <2>3
<1>5. \A k \in DOMAIN copy : copy[k] \in {<<v, k>>, Uninit}
    BY <1>2, <1>4
<1> QED BY <1>1, <1>5

\* What the fields and the text of the entry at p read as, and the session of
\* the i-th message.
Reading(lb, p, v, ses, len) ==
    LET dp   == After(p, 2 * FieldLen)
        text == Memcpy(lb, After(dp, BodyHeader), len)
    IN  /\ get_field(lb, p) - BodyHeader = len
        /\ get_field(lb, After(p, FieldLen)) = v
        /\ get_field(lb, dp) = ses
        /\ get_field(lb, dp + 2 * FieldLen) = v
        /\ \A k \in DOMAIN text : text[k] \in {<<v, k>>, Uninit}
SesOf(lb, off, i) == Value(SubSeq(Data(lb, off[i - 1], off[i]), 1, FieldLen))

\* What Api_GetMessage reads of the i-th message.
LEMMA MessageRead ==
    ASSUME NEW lb \in Ring, NEW n, NEW off, NEW num, Messages(lb, n, off, num), NEW i \in 1 .. n,
           NEW p, Points(lb, p, off[i - 1])
    PROVE  /\ SesOf(lb, off, i) \in Sessions
           /\ \E len : len \in Nat /\ Reading(lb, p, num[i], SesOf(lb, off, i), len)
<1>0. Chain(lb, n, off, num)
    BY DEF Messages
<1>1. PICK a, b, v : a = off[i - 1] /\ b = off[i] /\ v = num[i]
    OBVIOUS
<1>2. /\ a \in 0 .. BufferSize /\ b \in 0 .. BufferSize /\ a + 6 <= b /\ v \in Nat
      /\ At(off, i - 1, a) /\ At(off, i, b) /\ Points(lb, p, a)
    BY <1>0, <1>1, ChainBounds DEF At
<1>3. PICK s, len : s \in Sessions /\ len \in Nat /\ IsMessage(lb, off, i, s, num[i], len)
    BY DEF Messages
<1>4. s \in Nat /\ len \in Nat /\ IsEntry(lb, a, b, s, v, len)
    BY <1>1, <1>3, SessionsAssumption DEF IsMessage, IsEntry
<1>5. /\ b - a - 6 = 6 + len
      /\ Holds(lb, a + 4, s) /\ Holds(lb, a + 8, v)
      /\ \A k \in 1 .. len : Cell(lb, a + 9 + k) = <<v, k>>
      /\ Value(SubSeq(Data(lb, a, b), 1, FieldLen)) = s
    BY <1>2, <1>4, MessageCells
<1>6. SesOf(lb, off, i) = s
    BY <1>1, <1>5 DEF SesOf
<1>7. get_field(lb, p) = b - a - 6 /\ get_field(lb, After(p, FieldLen)) = v
    <2>1. get_field(lb, p) = b - a - 6 /\ get_field(lb, After(p, FieldLen)) = num[i]
        BY <1>0, <1>2, ChainRead
    <2> QED BY <1>1, <2>1
<1>8. get_field(lb, p) - BodyHeader = len
    BY <1>2, <1>4, <1>5, <1>7 DEF BodyHeader, FieldLen
<1>9. PICK d4, d8, d10 : d4 = a + 4 /\ d8 = a + 8 /\ d10 = a + 10
    OBVIOUS
<1>10. PICK dp, text : dp = After(p, 2 * FieldLen) /\ text = After(dp, BodyHeader)
    OBVIOUS
<1>11. /\ d4 \in 0 .. BufferSize /\ d8 \in 0 .. BufferSize /\ d10 \in 0 .. BufferSize
       /\ d4 + 2 <= BufferSize /\ d8 + 2 <= BufferSize /\ d10 + len <= BufferSize
       /\ BufferSize >= 12
    BY <1>2, <1>4, <1>5, <1>9
<1>12. Points(lb, dp, d4) /\ dp \in 1 .. BufferSize
    <2>1. PICK f \in Nat \ {0} : f = 4
        OBVIOUS
    <2>2. dp = After(p, f) /\ a + f = d4 /\ a + f <= BufferSize
        BY <1>2, <1>9, <1>11, <1>10, <2>1 DEF FieldLen
    <2> QED BY <1>2, <2>2, AfterPoints
<1>13. get_field(lb, dp) = s
    <2>1. d4 + FieldLen <= BufferSize /\ Holds(lb, d4, s)
        BY <1>5, <1>9, <1>11 DEF FieldLen
    <2> QED BY <1>11, <1>12, <2>1, GetField
<1>14. get_field(lb, dp + 2 * FieldLen) = v
    <2>1. PICK f, q : f = 4 /\ q = dp + f
        OBVIOUS
    <2>2. f \in Int /\ dp + f \in Pointers /\ d4 + f \in 0 .. BufferSize /\ d4 + f = d8
        BY <1>2, <1>9, <1>11, <1>12, <2>1 DEF Pointers
    <2>3. Points(lb, dp + f, d4 + f)
        BY <1>11, <1>12, <2>2, Moves
    <2>4. Points(lb, q, d8)
        BY <2>1, <2>2, <2>3
    <2>5. d8 + FieldLen <= BufferSize /\ Holds(lb, d8, v)
        BY <1>5, <1>9, <1>11 DEF FieldLen
    <2>6. get_field(lb, q) = v
        BY <1>11, <2>4, <2>5, GetField
    <2>7. q = dp + 2 * FieldLen
        BY <2>1 DEF FieldLen
    <2> QED BY <2>6, <2>7
<1>15. Points(lb, text, d10) /\ text \in 1 .. BufferSize
    <2>1. PICK f \in Nat \ {0} : f = 6
        OBVIOUS
    <2>2. d4 + f = d10 /\ d4 + f <= BufferSize
        BY <1>2, <1>9, <1>11, <2>1
    <2>3. f = BodyHeader
        BY <2>1 DEF FieldLen, BodyHeader
    <2>4. text = After(dp, f)
        BY <1>10, <2>3
    <2> QED BY <1>11, <1>12, <2>2, <2>4, AfterPoints
<1>16. \A k \in DOMAIN Memcpy(lb, text, len) : Memcpy(lb, text, len)[k] \in {<<v, k>>, Uninit}
    <2>1. ASSUME NEW k \in 1 .. len PROVE Cell(lb, d10 - 1 + k) = <<v, k>>
        <3>1. d10 - 1 + k = a + 9 + k
            BY <1>2, <1>9
        <3> QED BY <1>5, <3>1
    <2> QED BY <1>2, <1>4, <1>11, <1>15, <2>1, TextCopied
<1>17. Reading(lb, p, v, s, len)
    BY <1>7, <1>8, <1>13, <1>14, <1>16, <1>10, Zenon DEF Reading
<1> QED BY <1>1, <1>3, <1>6, <1>17

-----------------------------------------------------------------------------
(* The loop of Api_GetMessage *)

\* One turn of the loop, and the loop as a function of the number it starts
\* from.
VisitOf(lb, session, max, seq) ==
    LET p    == get_next(lb, seq)
        size == get_field(lb, p)
        dp   == After(p, 2 * FieldLen)
        text == After(dp, BodyHeader)
        len  == size - BodyHeader
    IN  IF p = NULL THEN [found |-> FALSE, skip |-> FALSE]
        ELSE [found |-> TRUE,
              seq   |-> get_field(lb, After(p, FieldLen)),
              skip  |-> /\ session # AllSessions
                        /\ get_field(lb, dp) # session,
              code  |-> get_field(lb, dp + 2 * FieldLen),
              fits  |-> len <= max,
              text  |-> IF len <= max THEN Memcpy(lb, text, len)
                                      ELSE NoText]
ScanBody(lb, session, max, scan, seq) ==
    LET v == VisitOf(lb, session, max, seq) IN IF v.skip THEN scan[v.seq] ELSE v
Scan(lb, session, max) ==
    LET Visit(seq) ==
            LET p    == get_next(lb, seq)
                size == get_field(lb, p)
                dp   == After(p, 2 * FieldLen)
                text == After(dp, BodyHeader)
                len  == size - BodyHeader
            IN  IF p = NULL THEN [found |-> FALSE, skip |-> FALSE]
                ELSE [found |-> TRUE,
                      seq   |-> get_field(lb, After(p, FieldLen)),
                      skip  |-> /\ session # AllSessions
                                /\ get_field(lb, dp) # session,
                      code  |-> get_field(lb, dp + 2 * FieldLen),
                      fits  |-> len <= max,
                      text  |-> IF len <= max THEN Memcpy(lb, text, len)
                                              ELSE NoText]
        scan[seq \in 0 .. SeqMod - 1] ==
            LET v == Visit(seq) IN IF v.skip THEN scan[v.seq] ELSE v
    IN  scan

\* The i-th message is visited.  A message is wanted if it is of the session.
Wanted(lb, off, session, i) == session = AllSessions \/ SesOf(lb, off, i) = session
Visited(lb, off, num, session, v, i) ==
    /\ v.found = TRUE /\ v.seq = num[i] /\ v.code = num[i]
    /\ v.skip = ~Wanted(lb, off, session, i)
    /\ v.fits => \A k \in DOMAIN v.text : v.text[k] \in {<<v.code, k>>, Uninit}
Nearest(n, num, seq, i) ==
    num[i] > seq /\ \A j \in 1 .. n : num[j] > seq => i <= j

\* What a turn reads of an entry.
LEMMA EntryVisited ==
    ASSUME NEW lb, NEW session, NEW max, NEW seq, NEW off, NEW num, NEW i, NEW p, p # NULL,
           p = get_next(lb, seq), NEW len, Reading(lb, p, num[i], SesOf(lb, off, i), len)
    PROVE  Visited(lb, off, num, session, VisitOf(lb, session, max, seq), i)
<1>1. PICK dp, text, copy : /\ dp = After(p, 2 * FieldLen) /\ text = After(dp, BodyHeader)
                            /\ copy = Memcpy(lb, text, len)
    OBVIOUS
<1>2. /\ get_field(lb, p) - BodyHeader = len
      /\ get_field(lb, After(p, FieldLen)) = num[i]
      /\ get_field(lb, dp) = SesOf(lb, off, i)
      /\ get_field(lb, dp + 2 * FieldLen) = num[i]
      /\ \A k \in DOMAIN copy : copy[k] \in {<<num[i], k>>, Uninit}
    BY <1>1, Zenon DEF Reading
<1>3. VisitOf(lb, session, max, seq)
        = [found |-> TRUE, seq |-> num[i],
           skip |-> session # AllSessions /\ SesOf(lb, off, i) # session,
           code |-> num[i], fits |-> len <= max,
           text |-> IF len <= max THEN copy ELSE NoText]
    BY <1>1, <1>2, Zenon DEF VisitOf
<1>4. PICK v : v = VisitOf(lb, session, max, seq)
    OBVIOUS
<1>5. /\ v.found = TRUE /\ v.seq = num[i] /\ v.code = num[i]
      /\ v.skip = (session # AllSessions /\ SesOf(lb, off, i) # session)
      /\ v.fits = (len <= max) /\ v.text = IF len <= max THEN copy ELSE NoText
    BY <1>3, <1>4
<1>6. v.fits => v.text = copy
    BY <1>5
<1>7. v.skip = ~Wanted(lb, off, session, i)
    BY <1>5 DEF Wanted
<1> QED BY <1>2, <1>4, <1>5, <1>6, <1>7 DEF Visited

\* What a turn finds: nothing after the newest message, else the message that
\* follows the number, or the oldest.
LEMMA VisitIs ==
    ASSUME NEW lb \in Ring, NEW n, NEW off, NEW num, Messages(lb, n, off, num),
           NEW session, NEW max, NEW c, c = lb.seq_counter, NEW seq \in 0 .. SeqMod - 1
    PROVE  \/ (n = 0 \/ seq = c) /\ VisitOf(lb, session, max, seq) = [found |-> FALSE, skip |-> FALSE]
           \/ /\ n # 0 /\ seq # c
              /\ \E i \in 1 .. n : /\ Visited(lb, off, num, session, VisitOf(lb, session, max, seq), i)
                                   /\ seq < c => Nearest(n, num, seq, i)
<1>1. /\ Chain(lb, n, off, num) /\ n \in Nat /\ c \in 0 .. SeqMod - 1 /\ n <= c
      /\ \A i \in 1 .. n : num[i] = c - n + i
    BY DEF Messages, Chain, Ring
<1>2. PICK p, nx : p = get_next(lb, seq) /\ nx = (seq + 1) % SeqMod
    OBVIOUS
<1>3. /\ n = 0 \/ num[n] = seq => p = NULL
      /\ ~(n = 0 \/ num[n] = seq) =>
            p # NULL /\ \E i \in 1 .. n : Points(lb, p, off[i - 1]) /\ NextPlace(n, num, nx, i)
    BY <1>1, <1>2, GetNext
<1>4. n # 0 => num[n] = c
    <2>1. n # 0 => n \in 1 .. n /\ c - n + n = c
        BY <1>1
    <2> QED BY <1>1, <2>1
<1>5. CASE n = 0 \/ seq = c
    <2>1. p = NULL
        BY <1>3, <1>4, <1>5
    <2>2. VisitOf(lb, session, max, seq) = [found |-> FALSE, skip |-> FALSE]
        BY <1>2, <2>1 DEF VisitOf
    <2> QED BY <1>5, <2>2
<1>6. CASE ~(n = 0 \/ seq = c)
    <2>1. p # NULL /\ \E i \in 1 .. n : Points(lb, p, off[i - 1]) /\ NextPlace(n, num, nx, i)
        BY <1>3, <1>4, <1>6
    <2>2. PICK i \in 1 .. n : Points(lb, p, off[i - 1]) /\ NextPlace(n, num, nx, i)
        BY <2>1
    <2>3. PICK len : Reading(lb, p, num[i], SesOf(lb, off, i), len)
        BY <2>2, MessageRead
    <2>4. Visited(lb, off, num, session, VisitOf(lb, session, max, seq), i)
        BY <1>2, <2>1, <2>3, EntryVisited
    <2>5. ASSUME seq < c PROVE Nearest(n, num, seq, i)
        <3>1. nx = seq + 1
            <4>1. PICK x \in Nat : x = seq + 1
                OBVIOUS
            <4>2. x < SeqMod
                BY <1>1, <2>5, <4>1
            <4>3. x % SeqMod = x
                BY <4>2, SmallMod
            <4> QED BY <1>2, <4>1, <4>3
        <3>2. CASE num[i] = nx
            BY <1>1, <3>1, <3>2 DEF Nearest
        <3>3. CASE i = 1 /\ \A j \in 1 .. n : num[j] # nx
            <4>1. nx < num[1]
                <5>1. ASSUME ~(nx < c - n + 1) PROVE FALSE
                    <6>1. nx - (c - n) \in 1 .. n
                        BY <1>1, <2>5, <3>1, <5>1
                    <6>2. PICK j \in 1 .. n : j = nx - (c - n)
                        BY <6>1
                    <6>3. num[j] = nx
                        BY <1>1, <3>1, <6>2
                    <6> QED BY <3>3, <6>3
                <5> QED BY <1>1, <3>3, <5>1
            <4> QED BY <1>1, <3>1, <3>3, <4>1 DEF Nearest
        <3> QED BY <2>2, <3>2, <3>3 DEF NextPlace
    <2> QED BY <1>6, <2>4, <2>5
<1> QED BY <1>5, <1>6

\* The loop ends: each turn that goes on does so from a message that is nearer
\* to the newest one.
LEMMA ScanIs ==
    ASSUME NEW lb \in Ring, NEW n, NEW off, NEW num, Messages(lb, n, off, num),
           NEW session, NEW max, NEW f, f = Scan(lb, session, max)
    PROVE  f = [seq \in 0 .. SeqMod - 1 |-> ScanBody(lb, session, max, f, seq)]
<1>1. PICK c, S, stop, val, next, rank :
         /\ c = lb.seq_counter /\ S = 0 .. SeqMod - 1
         /\ stop = [seq \in S |-> ~VisitOf(lb, session, max, seq).skip]
         /\ val = [seq \in S |-> VisitOf(lb, session, max, seq)]
         /\ next = [seq \in S |-> VisitOf(lb, session, max, seq).seq]
         /\ rank = [seq \in S |-> IF seq <= c THEN c - seq ELSE c + 1]
    OBVIOUS
<1>2. /\ c \in 0 .. SeqMod - 1 /\ n \in Nat /\ n <= c
      /\ \A i \in 1 .. n : num[i] = c - n + i
    BY <1>1 DEF Messages, Chain, Ring
<1>3. Descends(S, stop, next, rank, c + 1)
    <2>1. c + 1 \in Nat /\ rank \in [S -> 0 .. c + 1]
        BY <1>1, <1>2
    <2>2. ASSUME NEW x \in S, ~stop[x] PROVE next[x] \in S /\ rank[next[x]] < rank[x]
        <3>1. PICK v : v = VisitOf(lb, session, max, x)
            OBVIOUS
        <3>2. v.skip /\ next[x] = v.seq /\ x \in 0 .. SeqMod - 1
            BY <1>1, <2>2, <3>1
        <3>3. v # [found |-> FALSE, skip |-> FALSE]
            BY <3>2
        <3>4. \/ (n = 0 \/ x = c) /\ v = [found |-> FALSE, skip |-> FALSE]
              \/ /\ n # 0 /\ x # c
                 /\ \E i \in 1 .. n : /\ Visited(lb, off, num, session, v, i)
                                      /\ x < c => Nearest(n, num, x, i)
            BY <1>1, <3>1, <3>2, VisitIs
        <3>5. PICK i \in 1 .. n : /\ x # c /\ Visited(lb, off, num, session, v, i)
                                  /\ x < c => Nearest(n, num, x, i)
            BY <3>3, <3>4
        <3>6. v.seq = num[i] /\ num[i] \in 0 .. c /\ (x < c => num[i] > x)
            BY <1>2, <3>5 DEF Visited, Nearest
        <3>7. PICK y : y = next[x]
            OBVIOUS
        <3>8. y \in S /\ y \in 0 .. c /\ (x < c => y > x)
            BY <1>1, <1>2, <3>2, <3>6, <3>7
        <3>9. rank[y] = c - y
            BY <1>1, <1>2, <3>8
        <3>10. rank[x] = IF x <= c THEN c - x ELSE c + 1
            BY <1>1
        <3>11. rank[y] < rank[x]
            BY <1>2, <3>2, <3>5, <3>8, <3>9, <3>10
        <3> QED BY <3>7, <3>8, <3>11
    <2> QED BY <2>1, <2>2 DEF Descends
<1>4. PICK g : Walks(g, S, stop, val, next)
    BY <1>3, WalkExists
<1>5. g = [seq \in S |-> IF stop[seq] THEN val[seq] ELSE g[next[seq]]]
    BY <1>4, Zenon DEF Walks
<1>6. ASSUME NEW seq \in S
      PROVE  (IF stop[seq] THEN val[seq] ELSE g[next[seq]]) = ScanBody(lb, session, max, g, seq)
    <2>1. /\ stop[seq] = ~VisitOf(lb, session, max, seq).skip
          /\ val[seq] = VisitOf(lb, session, max, seq)
          /\ next[seq] = VisitOf(lb, session, max, seq).seq
        BY <1>1
    <2> QED BY <2>1 DEF ScanBody
<1>7. g = [seq \in S |-> ScanBody(lb, session, max, g, seq)]
    BY <1>5, <1>6, Zenon
<1>8. \E h : h = [seq \in 0 .. SeqMod - 1 |-> ScanBody(lb, session, max, h, seq)]
    BY <1>1, <1>7, Zenon
<1> QED BY <1>8, Zenon DEF Scan, ScanBody, VisitOf

\* The first message after a number that is wanted, and what the loop finds.
IsFirst(lb, n, off, num, session, seq, i) ==
    /\ i \in 1 .. n /\ num[i] > seq /\ Wanted(lb, off, session, i)
    /\ \A j \in 1 .. n : num[j] > seq /\ Wanted(lb, off, session, j) => i <= j
Finds(lb, n, off, num, session, v, seq) ==
    \/ v.found = FALSE /\ \A j \in 1 .. n : num[j] > seq => ~Wanted(lb, off, session, j)
    \/ \E i : /\ IsFirst(lb, n, off, num, session, seq, i)
              /\ Visited(lb, off, num, session, v, i)

\* The loop finds the first message after the number that is wanted.
LEMMA ScanFinds ==
    ASSUME NEW lb \in Ring, NEW n, NEW off, NEW num, Messages(lb, n, off, num),
           NEW session, NEW max, NEW f, f = Scan(lb, session, max),
           NEW from \in 0 .. lb.seq_counter
    PROVE  Finds(lb, n, off, num, session, f[from], from)
<1>1. PICK c : c = lb.seq_counter
    OBVIOUS
<1>2. /\ c \in 0 .. SeqMod - 1 /\ n \in Nat /\ n <= c
      /\ \A i \in 1 .. n : num[i] = c - n + i
    BY <1>1 DEF Messages, Chain, Ring
<1>3. \A seq \in 0 .. c : f[seq] = ScanBody(lb, session, max, f, seq)
    <2>1. f = [seq \in 0 .. SeqMod - 1 |-> ScanBody(lb, session, max, f, seq)]
        BY ScanIs
    <2>2. \A seq \in 0 .. c : seq \in 0 .. SeqMod - 1
        BY <1>2
    <2> QED BY <2>1, <2>2
<1> DEFINE F(seq) == Finds(lb, n, off, num, session, f[seq], seq)
           Good == {d \in Nat : \A seq \in 0 .. c : c - seq <= d => F(seq)}
<1>4. ASSUME NEW seq \in 0 .. c, \A x \in 0 .. c : x > seq => F(x)
      PROVE  F(seq)
    <2>1. PICK v : v = VisitOf(lb, session, max, seq)
        OBVIOUS
    <2>2. f[seq] = IF v.skip THEN f[v.seq] ELSE v
        BY <1>3, <2>1 DEF ScanBody
    <2>3. \/ (n = 0 \/ seq = c) /\ v = [found |-> FALSE, skip |-> FALSE]
          \/ /\ n # 0 /\ seq # c
             /\ \E i \in 1 .. n : /\ Visited(lb, off, num, session, v, i)
                                  /\ seq < c => Nearest(n, num, seq, i)
        <3>1. seq \in 0 .. SeqMod - 1
            BY <1>2
        <3> QED BY <1>1, <2>1, <3>1, VisitIs
    <2>4. CASE (n = 0 \/ seq = c) /\ v = [found |-> FALSE, skip |-> FALSE]
        <3>1. f[seq] = v /\ v.found = FALSE
            BY <2>2, <2>4
        <3>2. \A j \in 1 .. n : ~(num[j] > seq)
            BY <1>2, <2>4
        <3> QED BY <3>1, <3>2 DEF Finds
    <2>5. ASSUME NEW i \in 1 .. n, Visited(lb, off, num, session, v, i), Nearest(n, num, seq, i)
          PROVE  F(seq)
        <3>1. /\ v.seq = num[i] /\ v.skip = ~Wanted(lb, off, session, i)
              /\ num[i] > seq /\ num[i] \in 0 .. c
              /\ \A j \in 1 .. n : num[j] > seq => i <= j
            BY <1>2, <2>5 DEF Visited, Nearest
        <3>2. CASE Wanted(lb, off, session, i)
            <4>1. f[seq] = v
                BY <2>2, <3>1, <3>2
            <4>2. IsFirst(lb, n, off, num, session, seq, i)
                BY <3>1, <3>2 DEF IsFirst
            <4> QED BY <2>5, <4>1, <4>2 DEF Finds
        <3>3. CASE ~Wanted(lb, off, session, i)
            <4>1. f[seq] = f[num[i]]
                BY <2>2, <3>1, <3>3
            <4>2. F(num[i])
                BY <1>4, <3>1
            <4>3. ASSUME NEW j \in 1 .. n, num[j] > seq, Wanted(lb, off, session, j)
                  PROVE  num[j] > num[i]
                <5>1. i <= j /\ i # j
                    BY <3>1, <3>3, <4>3
                <5> QED BY <1>2, <5>1
            <4>4. PICK w : w = f[num[i]]
                OBVIOUS
            <4>5. \/ w.found = FALSE /\ \A j \in 1 .. n : num[j] > num[i] => ~Wanted(lb, off, session, j)
                  \/ \E k : /\ IsFirst(lb, n, off, num, session, num[i], k)
                            /\ Visited(lb, off, num, session, w, k)
                BY <4>2, <4>4 DEF Finds
            <4>6. CASE w.found = FALSE /\ \A j \in 1 .. n : num[j] > num[i] => ~Wanted(lb, off, session, j)
                BY <4>1, <4>3, <4>4, <4>6 DEF Finds
            <4>7. ASSUME NEW k, IsFirst(lb, n, off, num, session, num[i], k),
                         Visited(lb, off, num, session, w, k)
                  PROVE  F(seq)
                <5>1. IsFirst(lb, n, off, num, session, seq, k)
                    <6>1. k \in 1 .. n /\ num[k] > num[i] /\ num[k] \in Nat
                        BY <1>2, <4>7 DEF IsFirst
                    <6>2. num[k] > seq
                        BY <3>1, <6>1
                    <6> QED BY <4>3, <4>7, <6>1, <6>2 DEF IsFirst
                <5> QED BY <4>1, <4>4, <4>7, <5>1 DEF Finds
            <4> QED BY <4>5, <4>6, <4>7
        <3> QED BY <3>2, <3>3
    <2>6. ASSUME n # 0, seq # c PROVE seq < c
        BY <1>2, <2>6
    <2> QED BY <2>3, <2>4, <2>5, <2>6
<1> HIDE DEF F
<1>5. 0 \in Good
    <2>1. ASSUME NEW seq \in 0 .. c, c - seq <= 0 PROVE F(seq)
        <3>1. \A x \in 0 .. c : ~(x > seq)
            BY <1>2, <2>1
        <3> QED BY <1>4, <3>1
    <2> QED BY <2>1
<1>6. ASSUME NEW d \in Good PROVE d + 1 \in Good
    <2>1. ASSUME NEW seq \in 0 .. c, c - seq <= d + 1 PROVE F(seq)
        <3>1. \A x \in 0 .. c : x > seq => c - x <= d
            BY <1>2, <1>6, <2>1
        <3>2. \A x \in 0 .. c : x > seq => F(x)
            BY <1>6, <3>1
        <3> QED BY <1>4, <3>2
    <2> QED BY <1>6, <2>1
<1>7. Good \in SUBSET Nat
    OBVIOUS
<1>8. c - from \in Good
    <2> HIDE DEF Good
    <2>1. \A d \in Nat : d \in Good
        BY <1>5, <1>6, <1>7, NatInd
    <2> QED BY <1>1, <1>2, <2>1
<1>9. F(from)
    <2>1. from \in 0 .. c /\ c - from <= c - from
        BY <1>1, <1>2
    <2> QED BY <1>8, <2>1
<1> QED BY <1>9 DEF F

\* What Api_GetMessage answers a reader that has seen the messages up to from.
TextOK(res) == res.status = "SUCCESS" =>
                  \A k \in DOMAIN res.text : res.text[k] \in {<<res.code, k>>, Uninit}
Answers(lb, n, off, num, session, res, from) ==
    \/ /\ res.status = "NO_MORE_ENTRIES"
       /\ \A j \in 1 .. n : num[j] > from => ~Wanted(lb, off, session, j)
    \/ \E i : /\ IsFirst(lb, n, off, num, session, from, i)
              /\ res.status \in {"SUCCESS", "BUFFER_TOO_SMALL"}
              /\ res.msg_num = num[i] /\ res.code = num[i] /\ TextOK(res)

\* The call is the loop.
LEMMA GetMessageIs ==
    ASSUME NEW lb \in Ring, NEW n, NEW off, NEW num, Messages(lb, n, off, num),
           NEW session, NEW max, NEW from \in 0 .. lb.seq_counter,
           NEW res, res = GetMessage(lb, session, from, max)
    PROVE  Answers(lb, n, off, num, session, res, from)
<1>1. PICK f, v : f = Scan(lb, session, max) /\ v = f[from]
    OBVIOUS
<1>2. res = IF ~v.found
            THEN [status |-> "NO_MORE_ENTRIES", msg_num |-> from,
                  code |-> 0, text |-> NoText]
            ELSE [status |-> IF v.fits THEN "SUCCESS" ELSE "BUFFER_TOO_SMALL",
                  msg_num |-> v.seq, code |-> v.code, text |-> v.text]
    BY <1>1, Zenon DEF GetMessage, Scan
<1>3. Finds(lb, n, off, num, session, v, from)
    BY <1>1, ScanFinds
<1>4. CASE v.found = FALSE /\ \A j \in 1 .. n : num[j] > from => ~Wanted(lb, off, session, j)
    BY <1>2, <1>4 DEF Answers
<1>5. ASSUME NEW i, IsFirst(lb, n, off, num, session, from, i), Visited(lb, off, num, session, v, i)
      PROVE  Answers(lb, n, off, num, session, res, from)
    <2>1. /\ v.found = TRUE /\ v.seq = num[i] /\ v.code = num[i]
          /\ v.fits => \A k \in DOMAIN v.text : v.text[k] \in {<<v.code, k>>, Uninit}
        BY <1>5 DEF Visited
    <2>2. /\ res.status = IF v.fits THEN "SUCCESS" ELSE "BUFFER_TOO_SMALL"
          /\ res.msg_num = v.seq /\ res.code = v.code /\ res.text = v.text
        BY <1>2, <2>1
    <2>3. TextOK(res) /\ res.status \in {"SUCCESS", "BUFFER_TOO_SMALL"}
        BY <2>1, <2>2 DEF TextOK
    <2> QED BY <1>5, <2>1, <2>2, <2>3 DEF Answers
<1> QED BY <1>3, <1>4, <1>5 DEF Finds

-----------------------------------------------------------------------------
(* The driver's log and its readers *)

\* The ring holds messages with the newest numbers, and a reader's number is
\* one that was given out.
SomeMessages(lb) == \E n, off, num : Messages(lb, n, off, num)
DriverInv ==
    /\ Api_LogBuffer \in Ring /\ SomeMessages(Api_LogBuffer)
    /\ Api_LogBuffer.seq_counter <= MaxMessages
    /\ last \in [Readers -> 0 .. Api_LogBuffer.seq_counter]
    /\ leads \subseteq UiSessions /\ woken \in BOOLEAN /\ collecting \in BOOLEAN
    /\ TextOK(got.res)

\* What a step makes of the ring, and what it answers a reader.
RingMoves == Api_LogBuffer' = Api_LogBuffer \/ Grown(Api_LogBuffer, Api_LogBuffer', TRUE)
Answered(call) ==
    \/ call.res.status = "ACCESS_DENIED"
    \/ /\ call.caller \in Readers
       /\ \E n, off, num :
             /\ Messages(Api_LogBuffer, n, off, num)
             /\ Answers(Api_LogBuffer, n, off, num, call.caller, call.res, last[call.caller])
StepAnswers == got' # got => Answered(got')

\* The invariant holds at first.
LEMMA DriverInit == Init => DriverInv
<1> SUFFICES ASSUME Init PROVE DriverInv
    OBVIOUS
<1>1. Api_LogBuffer = log_buffer_init /\ Api_LogBuffer.seq_counter = 0
    BY DEF Init, log_buffer_init
<1>2. Api_LogBuffer \in Ring /\ SomeMessages(Api_LogBuffer)
    BY <1>1, RingInit, NoMessages DEF SomeMessages
<1>3. Api_LogBuffer.seq_counter <= MaxMessages
    BY <1>1, MaxMessagesAssumption
<1>4. last \in [Readers -> 0 .. Api_LogBuffer.seq_counter]
    BY <1>1 DEF Init
<1>5. TextOK(got.res)
    BY DEF Init, NoCall, Denied, TextOK
<1> QED BY <1>2, <1>3, <1>4, <1>5 DEF DriverInv, Init

\* A message is logged.
LEMMA StepLogs ==
    ASSUME DriverInv, NEW s \in Sessions, NEW len \in TextLens,
           Log_Popup_MsgEx(s, len) \/ LogProcessStart(s, len)
    PROVE  DriverInv' /\ RingMoves /\ StepAnswers
<1>1. /\ Api_LogBuffer.seq_counter < MaxMessages
      /\ Api_LogBuffer' = AddMessage(Api_LogBuffer, s, len)
      /\ UNCHANGED <<last, got, leads, collecting>> /\ woken' \in BOOLEAN
    BY DEF Log_Popup_MsgEx, LogProcessStart, DriverInv
<1>2. PICK lb, new, c, n, off, num : /\ lb = Api_LogBuffer /\ new = Api_LogBuffer' /\ c = lb.seq_counter
                                     /\ Messages(lb, n, off, num)
    BY DEF DriverInv, SomeMessages
<1>3. lb \in Ring /\ len \in Nat /\ c \in Nat /\ c < MaxMessages
    BY <1>1, <1>2, TextLensAssumption DEF DriverInv, Ring
<1>4. lb.seq_counter + 1 < SeqMod
    BY <1>2, <1>3, MaxMessagesAssumption
<1>5. new = AddMessage(lb, s, len)
    BY <1>1, <1>2
<1>6. \/ new = lb
      \/ /\ Grown(lb, new, TRUE) /\ new \in Ring /\ new.seq_counter = lb.seq_counter + 1
         /\ \E k, o, m : Messages(new, k, o, m)
    <2>1. Messages(lb, n, off, num)
        BY <1>2
    <2> QED BY <1>3, <1>4, <1>5, <2>1, AddedIs
<1>7. /\ new \in Ring /\ SomeMessages(new) /\ new.seq_counter \in Nat
      /\ c <= new.seq_counter /\ new.seq_counter <= MaxMessages
    <2>1. CASE new = lb
        BY <1>2, <1>3, <2>1 DEF SomeMessages, DriverInv
    <2>2. CASE /\ new \in Ring /\ new.seq_counter = lb.seq_counter + 1
               /\ \E k, o, m : Messages(new, k, o, m)
        BY <1>2, <1>3, <2>2, MaxMessagesAssumption DEF SomeMessages
    <2> QED BY <1>6, <2>1, <2>2
<1>8. last' \in [Readers -> 0 .. new.seq_counter]
    <2>1. last' \in [Readers -> 0 .. c]
        BY <1>1, <1>2 DEF DriverInv
    <2>2. 0 .. c \subseteq 0 .. new.seq_counter
        BY <1>3, <1>7
    <2> QED BY <2>1, <2>2
<1>9. got' = got /\ leads' = leads /\ collecting' = collecting
    BY <1>1
<1>10. DriverInv'
    BY <1>1, <1>2, <1>7, <1>8, <1>9 DEF DriverInv
<1> QED BY <1>2, <1>6, <1>9, <1>10 DEF RingMoves, StepAnswers

\* A reader asks.
LEMMA ReaderAsks ==
    ASSUME DriverInv, NEW r \in Readers, NEW max, NEW res,
           res = GetMessage(Api_LogBuffer, r, last[r], max)
    PROVE  /\ Answered([caller |-> r, res |-> res]) /\ TextOK(res)
           /\ res.status \in {"SUCCESS", "BUFFER_TOO_SMALL"} =>
                 res.msg_num \in 0 .. Api_LogBuffer.seq_counter
<1>1. PICK lb, from : lb = Api_LogBuffer /\ from = last[r]
    OBVIOUS
<1>2. lb \in Ring /\ from \in 0 .. lb.seq_counter
    BY <1>1 DEF DriverInv
<1>3. PICK n, off, num : Messages(lb, n, off, num)
    BY <1>1 DEF DriverInv, SomeMessages
<1>4. Answers(lb, n, off, num, r, res, from)
    <2>1. res = GetMessage(lb, r, from, max)
        BY <1>1
    <2> QED BY <1>2, <1>3, <2>1, GetMessageIs
<1>5. PICK call : call = [caller |-> r, res |-> res]
    OBVIOUS
<1>6. call.caller = r /\ call.res = res
    BY <1>5
<1>7. Answered(call)
    <2>1. Answers(Api_LogBuffer, n, off, num, call.caller, call.res, last[call.caller])
        BY <1>1, <1>4, <1>6
    <2> QED BY <1>1, <1>3, <1>6, <2>1 DEF Answered
<1>8. TextOK(res)
    BY <1>4 DEF Answers, TextOK
<1>9. ASSUME res.status \in {"SUCCESS", "BUFFER_TOO_SMALL"}
      PROVE  res.msg_num \in 0 .. lb.seq_counter
    <2>1. PICK i \in 1 .. n : res.msg_num = num[i]
        BY <1>4, <1>9 DEF Answers, IsFirst
    <2>2. /\ n \in Nat /\ n <= lb.seq_counter /\ lb.seq_counter \in Nat
          /\ num[i] = lb.seq_counter - n + i
        BY <1>2, <1>3 DEF Messages, Chain, Ring
    <2>3. PICK c \in Nat : c = lb.seq_counter
        BY <2>2
    <2>4. n <= c /\ res.msg_num = c - n + i
        BY <2>1, <2>2, <2>3
    <2>5. res.msg_num \in 0 .. c
        BY <2>2, <2>4
    <2> QED BY <2>3, <2>5
<1> QED BY <1>1, <1>5, <1>7, <1>8, <1>9

\* One turn of the service's loop.
LEMMA StepCollects ==
    ASSUME DriverInv, ServiceCollects PROVE DriverInv' /\ RingMoves /\ StepAnswers
<1>1. PICK res : /\ res = GetMessage(Api_LogBuffer, AllSessions, last[Service], maxlen[Service])
                 /\ got' = [caller |-> Service, res |-> res]
                 /\ \/ last' = last
                    \/ res.status = "SUCCESS" /\ last' = [last EXCEPT ![Service] = res.msg_num]
                 /\ collecting' \in BOOLEAN
    BY DEF ServiceCollects, DriverInv
<1>2. Service \in Readers /\ AllSessions = Service
    BY DEF Readers, Service
<1>3. PICK r, max : r = Service /\ max = maxlen[Service]
    OBVIOUS
<1>4. res = GetMessage(Api_LogBuffer, r, last[r], max) /\ r \in Readers
    BY <1>1, <1>2, <1>3
<1>5. /\ Answered([caller |-> r, res |-> res]) /\ TextOK(res)
      /\ res.status \in {"SUCCESS", "BUFFER_TOO_SMALL"} =>
            res.msg_num \in 0 .. Api_LogBuffer.seq_counter
    BY <1>4, ReaderAsks
<1>6. UNCHANGED <<Api_LogBuffer, leads, woken>>
    BY DEF ServiceCollects
<1>7. last' \in [Readers -> 0 .. Api_LogBuffer.seq_counter]
    BY <1>1, <1>5 DEF DriverInv
<1>8. got' = [caller |-> r, res |-> res] /\ got'.res = res
    BY <1>1, <1>3
<1>9. DriverInv'
    BY <1>1, <1>5, <1>6, <1>7, <1>8 DEF DriverInv
<1>10. StepAnswers
    BY <1>5, <1>8 DEF StepAnswers
<1> QED BY <1>6, <1>9, <1>10 DEF RingMoves

\* A user interface asks.
LEMMA StepGetLog ==
    ASSUME DriverInv, NEW s \in UiSessions, GetLog(s) PROVE DriverInv' /\ RingMoves /\ StepAnswers
<1>1. PICK res : /\ res = IF s \in leads THEN GetMessage(Api_LogBuffer, s, last[s], maxlen[s])
                          ELSE Denied(last[s])
                 /\ got' = [caller |-> s, res |-> res]
                 /\ last' = [last EXCEPT ![s] = IF res.status = "SUCCESS" THEN res.msg_num ELSE @]
    BY DEF GetLog
<1>2. s \in Readers
    BY DEF Readers
<1>3. UNCHANGED <<Api_LogBuffer, leads, woken, collecting>>
    BY DEF GetLog
<1>4. got'.res = res
    BY <1>1
<1>5. /\ Answered(got') /\ TextOK(res)
      /\ res.status = "SUCCESS" => res.msg_num \in 0 .. Api_LogBuffer.seq_counter
    <2>1. CASE s \in leads
        <3>1. PICK max : max = maxlen[s]
            OBVIOUS
        <3>2. res = GetMessage(Api_LogBuffer, s, last[s], max)
            BY <1>1, <2>1, <3>1
        <3>3. /\ Answered([caller |-> s, res |-> res]) /\ TextOK(res)
              /\ res.status \in {"SUCCESS", "BUFFER_TOO_SMALL"} =>
                    res.msg_num \in 0 .. Api_LogBuffer.seq_counter
            BY <1>2, <3>2, ReaderAsks
        <3> QED BY <1>1, <3>3
    <2>2. CASE s \notin leads
        <3>1. res = Denied(last[s])
            BY <1>1, <2>2
        <3>2. res.status = "ACCESS_DENIED"
            BY <3>1 DEF Denied
        <3> QED BY <1>4, <3>2 DEF Answered, TextOK
    <2> QED BY <2>1, <2>2
<1>6. last' \in [Readers -> 0 .. Api_LogBuffer.seq_counter]
    BY <1>1, <1>5 DEF DriverInv
<1>7. DriverInv'
    BY <1>3, <1>4, <1>5, <1>6 DEF DriverInv
<1>8. StepAnswers
    BY <1>5 DEF StepAnswers
<1> QED BY <1>3, <1>7, <1>8 DEF RingMoves

\* Every step keeps the invariant, moves the ring as log_buff.c does and
\* answers as Api_GetMessage should.
LEMMA DriverStep == DriverInv /\ [Next]_vars => DriverInv' /\ RingMoves /\ StepAnswers
<1> SUFFICES ASSUME DriverInv, [Next]_vars PROVE DriverInv' /\ RingMoves /\ StepAnswers
    OBVIOUS
<1>1. ASSUME NEW s \in Sessions, NEW len \in TextLens, Log_Popup_MsgEx(s, len) \/ LogProcessStart(s, len)
      PROVE  DriverInv' /\ RingMoves /\ StepAnswers
    BY <1>1, StepLogs
<1>2. CASE ServiceWakes
    BY <1>2 DEF ServiceWakes, DriverInv, RingMoves, StepAnswers
<1>3. CASE ServiceCollects
    BY <1>3, StepCollects
<1>4. ASSUME NEW s \in UiSessions, GetLog(s) PROVE DriverInv' /\ RingMoves /\ StepAnswers
    BY <1>4, StepGetLog
<1>5. ASSUME NEW s \in UiSessions, Connect(s) PROVE DriverInv' /\ RingMoves /\ StepAnswers
    <2>1. Api_LogBuffer.seq_counter \in Nat
        BY DEF DriverInv, Ring
    <2>2. last' \in [Readers -> 0 .. Api_LogBuffer.seq_counter] /\ leads' \subseteq UiSessions
        <3>1. PICK c \in Nat : c = Api_LogBuffer.seq_counter
            BY <2>1
        <3>2. last \in [Readers -> 0 .. c] /\ 0 \in 0 .. c
            BY <3>1 DEF DriverInv
        <3>3. last' \in [Readers -> 0 .. c]
            BY <1>5, <3>2 DEF Connect
        <3>4. leads' \subseteq UiSessions
            BY <1>5 DEF Connect, DriverInv
        <3> QED BY <3>1, <3>3, <3>4
    <2> QED BY <1>5, <2>2 DEF Connect, DriverInv, RingMoves, StepAnswers
<1>6. ASSUME NEW s \in UiSessions, LeaderExits(s) PROVE DriverInv' /\ RingMoves /\ StepAnswers
    BY <1>6 DEF LeaderExits, DriverInv, RingMoves, StepAnswers
<1>7. CASE UNCHANGED vars
    BY <1>7 DEF vars, DriverInv, RingMoves, StepAnswers
<1> QED BY <1>1, <1>2, <1>3, <1>4, <1>5, <1>6, <1>7 DEF Next

\* A reader receives the text of the message whose code it receives and, where
\* the end of the ring cuts it, cells that nobody wrote, but never a part of
\* another message: for every size of the ring and of the readers' buffers,
\* texts of every length, and any number of sessions.  The ring's fields and
\* the readers' numbers have their types.
THEOREM TextIsOwn == Spec => []NoForeignText
<1>1. DriverInv => NoForeignText
    <2> SUFFICES ASSUME DriverInv PROVE NoForeignText
        OBVIOUS
    <2>1. TypeOK
        BY DEF DriverInv, TypeOK, Ring
    <2>2. TextOK(got.res)
        BY DEF DriverInv
    <2> QED BY <2>1, <2>2 DEF NoForeignText, TextOK
<1>2. DriverInv /\ [Next]_vars => DriverInv'
    BY DriverStep
<1> QED BY <1>1, <1>2, DriverInit, PTL DEF Spec

\* The room that entries take, here and in BoundedLog.
LEMMA DriverRoom == ASSUME NEW s PROVE BL!Room(s) = RoomOf(s)
BY DEF BL!Room, RoomOf

\* A step of the driver or of a reader is a step of the queue.
LEMMA DriverMoves ==
    ASSUME DriverInv, RingMoves
    PROVE  [BL!Next]_<<Entries(Api_LogBuffer), Api_LogBuffer.seq_counter>>
<1>1. PICK lb, new, old, ents : /\ lb = Api_LogBuffer /\ new = Api_LogBuffer'
                                /\ old = Entries(lb) /\ ents = Entries(new)
    OBVIOUS
<1>2. lb \in Ring
    BY <1>1 DEF DriverInv
<1>3. CASE new = lb
    BY <1>1, <1>3
<1>4. CASE Grown(lb, new, TRUE)
    <2>0. PICK can : can = TRUE
        OBVIOUS
    <2>1. /\ new.seq_counter = (lb.seq_counter + 1) % SeqMod
          /\ GrownList(old, ents, new.seq_counter, can)
        <3>1. Grown(lb, new, can)
            BY <1>4, <2>0
        <3>2. old = Entries(lb) /\ ents = Entries(new)
            BY <1>1
        <3> QED BY <1>2, <3>1, <3>2, GrownIs
    <2>2. BL!Push(old, ents)
        BY <1>1, <2>0, <2>1, DriverRoom, Zenon DEF BL!Push, GrownList
    <2> QED BY <1>1, <2>2 DEF BL!Next, Retained
<1> QED BY <1>1, <1>3, <1>4 DEF RingMoves

\* The driver's message log is a first-in first-out queue of bounded room: a
\* message goes to the end with the next number, and pushes out the oldest ones
\* only, and no more of them than it needs.  For every size of the ring and
\* every length of messages, wherever the end of the ring cuts an entry.
THEOREM MessageLogIsQueue == Spec => RingIsBoundedLog
<1>1. Init => BL!Init
    BY InitOK DEF Init, BL!Init, log_buffer_init, Retained
<1>2. DriverInv /\ [Next]_vars
         => DriverInv' /\ [BL!Next]_<<Retained, Api_LogBuffer.seq_counter>>
    BY DriverStep, DriverMoves DEF Retained
<1> QED BY <1>1, <1>2, DriverInit, PTL DEF Spec, RingIsBoundedLog, BL!Spec

\* The messages that are pending for a reader.
LEMMA PendingIs ==
    ASSUME NEW r, Api_LogBuffer \in Ring, NEW n, NEW off, NEW num,
           Messages(Api_LogBuffer, n, off, num)
    PROVE  /\ Pending(r) = {i \in 1 .. n : num[i] > last[r] /\ Wanted(Api_LogBuffer, off, r, i)}
           /\ \A i \in 1 .. n : Retained[i].seq = num[i]
<1>1. PICK lb, s : lb = Api_LogBuffer /\ s = Retained
    OBVIOUS
<1>2. lb \in Ring /\ Chain(lb, n, off, num)
    BY <1>1 DEF Messages
<1>3. s = ListOf(lb, n, off, num)
    BY <1>1, <1>2, EntriesAre DEF Retained
<1>4. /\ DOMAIN s = 1 .. n
      /\ \A i \in 1 .. n : s[i].seq = num[i] /\ s[i].data = Data(lb, off[i - 1], off[i])
    BY <1>2, <1>3, ListIs
<1>5. ASSUME NEW i \in 1 .. n PROVE IsFor(s[i], r) <=> Wanted(lb, off, r, i)
    BY <1>4 DEF IsFor, Wanted, SesOf, Service
<1>6. Pending(r) = {i \in DOMAIN s : s[i].seq > last[r] /\ IsFor(s[i], r)}
    BY <1>1 DEF Pending
<1> QED BY <1>1, <1>4, <1>5, <1>6

\* The least of some natural numbers.
LEMMA MinIs ==
    ASSUME NEW n \in Nat, NEW S \in SUBSET (1 .. n), NEW i \in S, \A j \in S : i <= j
    PROVE  Min(S) = i
<1>1. PICK m : m = Min(S)
    OBVIOUS
<1>2. m \in S /\ \A j \in S : m <= j
    BY <1>1 DEF Min
<1>3. m = i
    BY <1>2
<1> QED BY <1>1, <1>3

\* What a reader is answered is right.
AnswersRight(call) ==
    LET unseen == Pending(call.caller)
        res    == call.res
    IN  /\ res.status \in {"SUCCESS", "BUFFER_TOO_SMALL"} =>
              /\ unseen # {}
              /\ res.msg_num = Retained[Min(unseen)].seq
              /\ res.code = res.msg_num
        /\ res.status = "NO_MORE_ENTRIES" => unseen = {}
\* What the loop finds is what should be answered.
LEMMA AnswersAre == ASSUME DriverInv, NEW call, Answered(call) PROVE AnswersRight(call)
<1>1. PICK r, res, S : r = call.caller /\ res = call.res /\ S = Pending(r)
    OBVIOUS
<1>2. CASE res.status = "ACCESS_DENIED"
    BY <1>1, <1>2 DEF AnswersRight
<1>3. ASSUME NEW n, NEW off, NEW num, Messages(Api_LogBuffer, n, off, num),
             Answers(Api_LogBuffer, n, off, num, r, res, last[r])
      PROVE  AnswersRight(call)
    <2>1. /\ S = {i \in 1 .. n : num[i] > last[r] /\ Wanted(Api_LogBuffer, off, r, i)}
          /\ \A i \in 1 .. n : Retained[i].seq = num[i]
        <3>1. Api_LogBuffer \in Ring
            BY DEF DriverInv
        <3> QED BY <1>1, <1>3, <3>1, PendingIs
    <2>2. CASE /\ res.status = "NO_MORE_ENTRIES"
               /\ \A j \in 1 .. n : num[j] > last[r] => ~Wanted(Api_LogBuffer, off, r, j)
        <3>1. S = {}
            BY <2>1, <2>2
        <3> QED BY <1>1, <2>2, <3>1 DEF AnswersRight
    <2>3. ASSUME NEW i, IsFirst(Api_LogBuffer, n, off, num, r, last[r], i),
                 res.status \in {"SUCCESS", "BUFFER_TOO_SMALL"},
                 res.msg_num = num[i], res.code = num[i]
          PROVE  AnswersRight(call)
        <3>1. i \in S /\ (\A j \in S : i <= j) /\ i \in 1 .. n
            BY <2>1, <2>3 DEF IsFirst
        <3>2. n \in Nat /\ S \in SUBSET (1 .. n)
            BY <1>3, <2>1 DEF Messages, Chain
        <3>3. Min(S) = i
            BY <3>1, <3>2, MinIs
        <3>4. S # {} /\ res.msg_num = Retained[Min(S)].seq /\ res.code = res.msg_num
            BY <2>1, <2>3, <3>1, <3>3
        <3>5. res.status # "NO_MORE_ENTRIES"
            BY <2>3
        <3> QED BY <1>1, <3>4, <3>5, Zenon DEF AnswersRight
    <2> QED BY <1>3, <2>2, <2>3 DEF Answers
<1> QED BY <1>1, <1>2, <1>3 DEF Answered

\* Api_GetMessage hands a reader the oldest message of its session that the
\* ring still holds and the reader has not seen, and says that there are no
\* more only when there are none: however many messages were pushed out since
\* its last call, however those of other sessions lie between, and wherever the
\* ring cuts an entry.  The numbers must not wrap around (MaxMessages < SeqMod).
THEOREM ReaderGetsOldest == Spec => ReaderGetsOldestPending
<1> DEFINE A == got' # got =>
          LET unseen == Pending(got'.caller)
              res    == got'.res
          IN  /\ res.status \in {"SUCCESS", "BUFFER_TOO_SMALL"} =>
                    /\ unseen # {}
                    /\ res.msg_num = Retained[Min(unseen)].seq
                    /\ res.code = res.msg_num
              /\ res.status = "NO_MORE_ENTRIES" => unseen = {}
<1>1. DriverInv /\ StepAnswers => A
    <2> SUFFICES ASSUME DriverInv, StepAnswers, got' # got PROVE A
        OBVIOUS
    <2>1. PICK call : call = got'
        OBVIOUS
    <2>2. AnswersRight(call)
        BY <2>1, AnswersAre DEF StepAnswers
    <2> QED BY <2>1, <2>2, Zenon DEF AnswersRight
<1>2. DriverInv /\ [Next]_vars => DriverInv' /\ [A]_vars
    BY <1>1, DriverStep
<1> QED BY <1>2, DriverInit, PTL DEF Spec, ReaderGetsOldestPending
=============================================================================
