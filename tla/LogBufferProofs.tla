--------------------------- MODULE LogBufferProofs ---------------------------
(***************************************************************************)
(* What the operations of log_buff.c do to a ring whose occupied part is a *)
(* chain of whole entries: pushing adds an entry at the end, popping takes *)
(* some from the front, and the walks through the ring, forwards by the    *)
(* leading sizes and backwards by the trailing ones, visit these entries   *)
(* and nothing else, wherever the ring's end cuts an entry or a field.     *)
(***************************************************************************)
EXTENDS LogBuffer, SequenceTheorems, WellFoundedInduction, TLAPS

USE BufferSizeAssumption, SeqModAssumption

-----------------------------------------------------------------------------
(* Induction and recursion *)

\* A set of natural numbers has a least element.
LEMMA NatMin == ASSUME NEW T \in SUBSET Nat, T # {}
                PROVE  \E m \in T : \A k \in T : m <= k
<1>1. PICK m \in T : \A k \in T : ~ (<<k, m>> \in OpToRel(<, Nat))
    BY NatLessThanWellFounded, WFMin
<1>2. \A k \in T : <<k, m>> \in OpToRel(<, Nat) <=> k < m
    BY DEF OpToRel
<1>3. \A k \in T : ~ (k < m)
    BY <1>1, <1>2
<1> QED BY <1>3

\* Induction, over a set in place of a predicate.
LEMMA NatInd == ASSUME NEW S \in SUBSET Nat, 0 \in S, \A n \in S : n + 1 \in S
                PROVE  \A n \in Nat : n \in S
<1> SUFFICES ASSUME Nat \ S # {} PROVE FALSE
    OBVIOUS
<1>1. PICK m \in Nat \ S : \A k \in Nat \ S : m <= k
    BY NatMin
<1>2. m - 1 \in Nat \ S
    BY <1>1
<1> QED BY <1>1, <1>2

\* A function that stops or goes on at a place of lower rank exists.  stop,
\* val, next and rank are functions on S.
Walks(f, S, stop, val, next) ==
    f = [x \in S |-> IF stop[x] THEN val[x] ELSE f[next[x]]]
Descends(S, stop, next, rank, max) ==
    /\ max \in Nat /\ rank \in [S -> 0 .. max]
    /\ \A x \in S : ~stop[x] => next[x] \in S /\ rank[next[x]] < rank[x]
\* Such a function exists if the rank falls with every turn.
LEMMA WalkExists ==
    ASSUME NEW S, NEW stop, NEW val, NEW next, NEW rank, NEW max,
           Descends(S, stop, next, rank, max)
    PROVE  \E f : Walks(f, S, stop, val, next)
<1> DEFINE Low(k) == {x \in S : rank[x] < k}
           Good == {k \in Nat : \E f : Walks(f, Low(k), stop, val, next)}
<1>0. max \in Nat /\ rank \in [S -> 0 .. max]
    BY DEF Descends
<1>1. 0 \in Good
    <2>1. Low(0) = {}
        BY <1>0
    <2>2. Walks([x \in {} |-> 0], {}, stop, val, next)
        BY DEF Walks
    <2> QED BY <2>1, <2>2
<1>2. ASSUME NEW k \in Good PROVE k + 1 \in Good
    <2>1. PICK f : Walks(f, Low(k), stop, val, next)
        BY <1>2
    <2>2. PICK g : g = [x \in Low(k + 1) |-> IF stop[x] THEN val[x] ELSE f[next[x]]]
        OBVIOUS
    <2>3. k \in Nat
        OBVIOUS
    <2>4. \A x \in Low(k) : x \in Low(k + 1) /\ g[x] = f[x]
        BY <1>0, <2>1, <2>2, <2>3 DEF Walks
    <2>5. \A x \in Low(k + 1) : ~stop[x] => next[x] \in Low(k)
        BY <1>0, <2>3 DEF Descends
    <2>6. \A x \in Low(k + 1) : g[x] = IF stop[x] THEN val[x] ELSE g[next[x]]
        BY <2>2, <2>4, <2>5
    <2>7. g = [x \in Low(k + 1) |-> IF stop[x] THEN val[x] ELSE g[next[x]]]
        BY <2>2, <2>6
    <2>8. Walks(g, Low(k + 1), stop, val, next)
        BY <2>7 DEF Walks
    <2>9. \E h : Walks(h, Low(k + 1), stop, val, next)
        BY <2>8
    <2> QED BY <2>3, <2>9
<1>3. max + 1 \in Good
    <2>1. Good \in SUBSET Nat
        OBVIOUS
    <2> HIDE DEF Good
    <2> QED BY <1>0, <1>1, <1>2, <2>1, NatInd
<1>4. Low(max + 1) = S
    BY <1>0
<1> QED BY <1>3, <1>4

\* The same for a function that collects a sequence on its way.
Collects(f, S, stop, val, next) ==
    f = [x \in S |-> IF stop[x] THEN val[x] ELSE << val[x] >> \o f[next[x]]]
\* It exists for the same reason.
LEMMA CollectExists ==
    ASSUME NEW S, NEW stop, NEW val, NEW next, NEW rank, NEW max,
           Descends(S, stop, next, rank, max)
    PROVE  \E f : Collects(f, S, stop, val, next)
<1> DEFINE Low(k) == {x \in S : rank[x] < k}
           Good == {k \in Nat : \E f : Collects(f, Low(k), stop, val, next)}
<1>0. max \in Nat /\ rank \in [S -> 0 .. max]
    BY DEF Descends
<1>1. 0 \in Good
    <2>1. Low(0) = {}
        BY <1>0
    <2>2. Collects([x \in {} |-> 0], {}, stop, val, next)
        BY DEF Collects
    <2> QED BY <2>1, <2>2
<1>2. ASSUME NEW k \in Good PROVE k + 1 \in Good
    <2>1. PICK f : Collects(f, Low(k), stop, val, next)
        BY <1>2
    <2>2. PICK g : g = [x \in Low(k + 1) |->
                           IF stop[x] THEN val[x] ELSE << val[x] >> \o f[next[x]]]
        OBVIOUS
    <2>3. k \in Nat
        OBVIOUS
    <2>4. \A x \in Low(k) : x \in Low(k + 1) /\ g[x] = f[x]
        <3>1. \A x \in Low(k) :
                 f[x] = IF stop[x] THEN val[x] ELSE << val[x] >> \o f[next[x]]
            BY <2>1, Zenon DEF Collects
        <3>2. \A x \in Low(k) : x \in Low(k + 1)
            BY <1>0, <2>3
        <3> QED BY <2>2, <3>1, <3>2
    <2>5. \A x \in Low(k + 1) : ~stop[x] => next[x] \in Low(k)
        BY <1>0, <2>3 DEF Descends
    <2>6. \A x \in Low(k + 1) :
             g[x] = IF stop[x] THEN val[x] ELSE << val[x] >> \o g[next[x]]
        BY <2>2, <2>4, <2>5
    <2>7. g = [x \in Low(k + 1) |-> IF stop[x] THEN val[x] ELSE << val[x] >> \o g[next[x]]]
        BY <2>2, <2>6
    <2>8. Collects(g, Low(k + 1), stop, val, next)
        BY <2>7 DEF Collects
    <2>9. \E h : Collects(h, Low(k + 1), stop, val, next)
        BY <2>8
    <2> QED BY <2>3, <2>9
<1>3. max + 1 \in Good
    <2>1. Good \in SUBSET Nat
        OBVIOUS
    <2> HIDE DEF Good
    <2> QED BY <1>0, <1>1, <1>2, <2>1, NatInd
<1>4. Low(max + 1) = S
    BY <1>0
<1> QED BY <1>3, <1>4

-----------------------------------------------------------------------------
(* Pointers and cells *)

\* A cell holds a part of a number, of a text or of nothing yet.
Cells == (Nat \cup {-1}) \X Nat
Ring == [seq_counter  : 0 .. SeqMod - 1, buffer_used : 0 .. BufferSize,
         buffer_start : 0 .. BufferSize - 1, buffer_data : [0 .. BufferSize - 1 -> Cells]]

\* The j-th cell from the start of the ring, and the pointers to it.
Pos(p) == IF p >= BufferSize THEN p - BufferSize ELSE p
Cell(lb, j) == lb.buffer_data[Pos(lb.buffer_start + j)]
Pointers == -BufferSize .. 2 * BufferSize - 1
Points(lb, p, j) == p \in Pointers /\ Wrap(p) = Pos(lb.buffer_start + j)

\* The ring at first.
LEMMA RingInit == log_buffer_init \in Ring
BY DEF log_buffer_init, Ring, Cells, Uninit

\* The remainders that occur.
LEMMA Remainder == /\ \A x \in Int : x % BufferSize \in 0 .. BufferSize - 1
                   /\ \A x \in 0 .. 2 * BufferSize - 1 : x % BufferSize = Pos(x)
                   /\ \A x \in -BufferSize .. -1 : x % BufferSize = x + BufferSize
BY DEF Pos

\* Positions lie in the buffer.
LEMMA PosIn == ASSUME NEW x \in 0 .. 2 * BufferSize - 1 PROVE Pos(x) \in 0 .. BufferSize - 1
BY DEF Pos

\* So does what a pointer is wrapped to.
LEMMA WrapIn == ASSUME NEW p \in Pointers PROVE Wrap(p) \in 0 .. BufferSize - 1
BY DEF Wrap, Pointers

\* The i-th cell from the d-th on.
LEMMA PosPos ==
    ASSUME NEW s \in 0 .. BufferSize - 1, NEW d \in 0 .. BufferSize, NEW i \in Nat, i + d < BufferSize
    PROVE  Pos(Pos(s + d) + i) = Pos(s + (i + d))
BY DEF Pos

\* The start of the ring points to its first cell.
LEMMA StartPoints == ASSUME NEW lb \in Ring, NEW j \in 0 .. BufferSize
                     PROVE  Points(lb, lb.buffer_start + j, j)
BY DEF Ring, Points, Pointers, Wrap, Pos

\* A pointer moves along with the cell it points to.
LEMMA Moves ==
    ASSUME NEW lb \in Ring, NEW j \in 0 .. BufferSize, NEW p, Points(lb, p, j),
           NEW d \in Int, p + d \in Pointers, j + d \in 0 .. BufferSize
    PROVE  Points(lb, p + d, j + d)
<1>1. PICK s \in 0 .. BufferSize - 1 : s = lb.buffer_start
    BY DEF Ring
<1>2. p \in -BufferSize .. 2 * BufferSize - 1 /\ Wrap(p) = Pos(s + j)
    BY <1>1 DEF Points, Pointers
<1>3. p + d \in -BufferSize .. 2 * BufferSize - 1
    BY DEF Pointers
<1>4. Wrap(p + d) = Pos(s + (j + d))
    BY <1>2, <1>3 DEF Wrap, Pos
<1> QED BY <1>1, <1>4 DEF Points

\* After takes a pointer n cells further, to a place from which it can go
\* back or forth by the length of an entry.
LEMMA AfterPoints ==
    ASSUME NEW lb \in Ring, NEW j \in 0 .. BufferSize, NEW p, Points(lb, p, j),
           NEW n \in Nat \ {0}, j + n <= BufferSize
    PROVE  Points(lb, After(p, n), j + n) /\ After(p, n) \in 1 .. BufferSize
<1>1. Wrap(p) \in 0 .. BufferSize - 1 /\ Wrap(p) = Pos(lb.buffer_start + j)
    BY WrapIn DEF Points
<1>2. (Wrap(p) + n - 1) % BufferSize = Pos(Wrap(p) + n - 1)
    <2>1. PICK x : x = Wrap(p) + n - 1
        OBVIOUS
    <2>2. x \in 0 .. 2 * BufferSize - 1
        BY <1>1, <2>1
    <2> QED BY <2>1, <2>2, Remainder
<1>3. After(p, n) = Pos(Wrap(p) + n - 1) + 1
    BY <1>2 DEF After
<1>4. lb.buffer_start \in 0 .. BufferSize - 1
    BY DEF Ring
<1> QED BY <1>1, <1>3, <1>4 DEF Points, Pointers, Wrap, Pos

\* The cells that get_bytes returns.
Bytes(lb, j, n) == [i \in 1 .. n |-> Cell(lb, j + i - 1)]
\* get_bytes returns the cells from the one that is pointed to on.
LEMMA GetBytes ==
    ASSUME NEW lb \in Ring, NEW j \in 0 .. BufferSize, NEW p, Points(lb, p, j),
           NEW n \in Nat, j + n <= BufferSize
    PROVE  get_bytes(lb, p, n) = Bytes(lb, j, n)
<1>1. Wrap(p) \in 0 .. BufferSize - 1 /\ Wrap(p) = Pos(lb.buffer_start + j)
    BY WrapIn DEF Points
<1>2. lb.buffer_start \in 0 .. BufferSize - 1
    BY DEF Ring
<1>3. ASSUME NEW i \in 1 .. n
      PROVE  (Wrap(p) + i - 1) % BufferSize = Pos(lb.buffer_start + (j + i - 1))
    <2>1. (Wrap(p) + i - 1) % BufferSize = Pos(Wrap(p) + i - 1)
        BY <1>1, Remainder
    <2> QED BY <1>1, <1>2, <2>1 DEF Pos
<1> QED BY <1>3 DEF get_bytes, Bytes, Cell

\* A field is in two cells, and is read back by get_field.
Holds(lb, j, v) == Cell(lb, j) = <<v, 1>> /\ Cell(lb, j + 1) = <<v, 2>>
\* get_field returns the number that the cells hold.
LEMMA GetField ==
    ASSUME NEW lb \in Ring, NEW j \in 0 .. BufferSize, NEW p, Points(lb, p, j),
           j + FieldLen <= BufferSize, NEW v, Holds(lb, j, v)
    PROVE  get_field(lb, p) = v
<1>1. get_bytes(lb, p, FieldLen) = [i \in 1 .. 2 |-> Cell(lb, j + i - 1)]
    <2>1. FieldLen = 2 /\ j + 2 <= BufferSize
        BY DEF FieldLen
    <2>2. PICK n \in Nat : n = FieldLen
        BY <2>1
    <2>3. get_bytes(lb, p, n) = Bytes(lb, j, n)
        <3>1. j + n <= BufferSize
            BY <2>1, <2>2
        <3> QED BY <3>1, GetBytes
    <2> QED BY <2>1, <2>2, <2>3 DEF Bytes
<1>2. [i \in 1 .. 2 |-> Cell(lb, j + i - 1)] = [i \in 1 .. 2 |-> <<v, i>>]
    <2>1. ASSUME NEW i \in 1 .. 2 PROVE Cell(lb, j + i - 1) = <<v, i>>
        <3>1. CASE i = 1
            BY <3>1 DEF Holds
        <3>2. CASE i = 2
            BY <3>2 DEF Holds
        <3> QED BY <3>1, <3>2
    <2> QED BY <2>1
<1>3. PICK c : c = [i \in 1 .. 2 |-> <<v, i>>]
    OBVIOUS
<1>4. c[1][1] = v /\ Field(v) = c
    BY <1>3 DEF Field, FieldLen
<1>5. Value(c) = v
    BY <1>4 DEF Value
<1> QED BY <1>1, <1>2, <1>3, <1>5 DEF get_field

\* Whatever a field reads as is a number.
LEMMA FieldIn ==
    ASSUME NEW lb \in Ring, NEW p \in Int PROVE get_field(lb, p) \in Nat \cup {-1}
<1>1. Wrap(p) \in Int
    BY DEF Wrap
<1>2. (Wrap(p) + 1 - 1) % BufferSize \in 0 .. BufferSize - 1
    BY <1>1, Remainder
<1>3. get_bytes(lb, p, FieldLen)[1] \in Cells
    BY <1>2 DEF get_bytes, FieldLen, Ring
<1> QED BY <1>3 DEF get_field, Value, Garbage, Cells

\* push_bytes changes the cells it is asked to and no others.
Wrote(lb, new, j, bytes) ==
    /\ new.buffer_start = lb.buffer_start /\ new.buffer_used = lb.buffer_used
    /\ new.seq_counter = lb.seq_counter
    /\ \A i \in 0 .. BufferSize - 1 :
          Cell(new, i) = IF j <= i /\ i < j + Len(bytes) THEN bytes[i - j + 1] ELSE Cell(lb, i)
\* What push_bytes writes, wherever the buffer ends.
LEMMA PushBytes ==
    ASSUME NEW lb \in Ring, NEW j \in 0 .. BufferSize, NEW p, Points(lb, p, j),
           NEW bytes \in Seq(Cells), j + Len(bytes) <= BufferSize
    PROVE  /\ push_bytes(lb, p, bytes) \in Ring
           /\ Wrote(lb, push_bytes(lb, p, bytes), j, bytes)
<1>1. Wrap(p) \in 0 .. BufferSize - 1 /\ Wrap(p) = Pos(lb.buffer_start + j)
    BY WrapIn DEF Points
<1>2. lb.buffer_start \in 0 .. BufferSize - 1 /\ lb.buffer_data \in [0 .. BufferSize - 1 -> Cells]
    BY DEF Ring
<1>3. PICK new : new = push_bytes(lb, p, bytes)
    OBVIOUS
<1>4. Len(bytes) \in Nat /\ \A i \in 1 .. Len(bytes) : bytes[i] \in Cells
    BY LenProperties
<1>5. ASSUME NEW i \in 0 .. BufferSize - 1
      PROVE  /\ Pos(lb.buffer_start + i) \in 0 .. BufferSize - 1
             /\ (Pos(lb.buffer_start + i) - Wrap(p)) % BufferSize
                  = IF j <= i THEN i - j ELSE i - j + BufferSize
    <2>1. PICK c : c = Pos(lb.buffer_start + i)
        OBVIOUS
    <2>2. c \in 0 .. BufferSize - 1
        BY <1>2, <2>1 DEF Pos
    <2>3. PICK w : w = Wrap(p)
        OBVIOUS
    <2>4. PICK x : x = c - w
        OBVIOUS
    <2>5. x \in -BufferSize .. -1 \/ x \in 0 .. BufferSize - 1
        BY <1>1, <2>2, <2>3, <2>4
    <2>6. x % BufferSize = IF x >= 0 THEN x ELSE x + BufferSize
        <3>1. CASE x \in -BufferSize .. -1
            BY <3>1
        <3>2. CASE x \in 0 .. BufferSize - 1
            BY <3>2
        <3> QED BY <2>5, <3>1, <3>2
    <2>7. x % BufferSize = IF j <= i THEN i - j ELSE i - j + BufferSize
        <3>1. PICK s \in 0 .. BufferSize - 1 : s = lb.buffer_start
            BY <1>2
        <3>2. c = Pos(s + i) /\ w = Pos(s + j) /\ w \in 0 .. BufferSize - 1
            BY <1>1, <2>1, <2>3, <3>1
        <3>3. CASE j <= i
            BY <2>2, <2>4, <2>6, <3>2, <3>3 DEF Pos
        <3>4. CASE i < j
            BY <2>2, <2>4, <2>6, <3>2, <3>4 DEF Pos
        <3> QED BY <3>3, <3>4
    <2> QED BY <2>1, <2>2, <2>3, <2>4, <2>7
<1>6. /\ new.buffer_start = lb.buffer_start /\ new.buffer_used = lb.buffer_used
      /\ new.seq_counter = lb.seq_counter
      /\ new.buffer_data = [c \in 0 .. BufferSize - 1 |->
                               LET i == (c - Wrap(p)) % BufferSize
                               IN  IF i < Len(bytes) THEN bytes[i + 1] ELSE lb.buffer_data[c]]
    BY <1>2, <1>3 DEF push_bytes, Ring
<1>7. new \in Ring
    <2>1. ASSUME NEW c \in 0 .. BufferSize - 1
          PROVE  new.buffer_data[c] \in Cells
        <3>1. (c - Wrap(p)) % BufferSize \in 0 .. BufferSize - 1
            <4>1. PICK x \in Int : x = c - Wrap(p)
                BY <1>1
            <4> QED BY <4>1, Remainder
        <3> QED BY <1>2, <1>4, <1>6, <3>1
    <2>2. new.buffer_data \in [0 .. BufferSize - 1 -> Cells]
        BY <1>6, <2>1
    <2>3. new = [lb EXCEPT !.buffer_data = new.buffer_data]
        BY <1>3 DEF push_bytes, Ring
    <2> QED BY <2>2, <2>3 DEF Ring
<1>8. ASSUME NEW i \in 0 .. BufferSize - 1
      PROVE  Cell(new, i) = IF j <= i /\ i < j + Len(bytes) THEN bytes[i - j + 1] ELSE Cell(lb, i)
    <2>1. PICK c : c = Pos(lb.buffer_start + i)
        OBVIOUS
    <2>2. PICK m : m = (c - Wrap(p)) % BufferSize
        OBVIOUS
    <2>3. c \in 0 .. BufferSize - 1 /\ m = IF j <= i THEN i - j ELSE i - j + BufferSize
        BY <1>5, <2>1, <2>2
    <2>4. Cell(new, i) = IF m < Len(bytes) THEN bytes[m + 1] ELSE Cell(lb, i)
        BY <1>6, <2>1, <2>2, <2>3 DEF Cell
    <2> QED BY <1>4, <2>3, <2>4
<1> QED BY <1>3, <1>6, <1>7, <1>8 DEF Wrote

-----------------------------------------------------------------------------
(* An entry *)

\* The fields of an entry that takes the cells from a to b and has number v:
\* its size before and behind the data.
EntryAt(lb, a, b, v) ==
    /\ Holds(lb, a, b - a - TotalSize(0)) /\ Holds(lb, a + FieldLen, v)
    /\ Holds(lb, b - FieldLen, b - a - TotalSize(0))

\* The part of push_entry that writes the fields of an entry that fits.
Header(room, size) ==
    LET total == TotalSize(size)
        wp0   == room.buffer_start + room.buffer_used
        sized == push_bytes([room EXCEPT !.buffer_used = @ + total],
                            wp0, Field(size))
        wp1   == After(wp0, FieldLen)
        seqd  == push_bytes(sized, wp1, Field(room.seq_counter))
        wp2   == After(wp1, FieldLen)
    IN  [lb |-> push_bytes(seqd, wp2 + size, Field(size)), ptr |-> wp2]

\* A number's two cells.
LEMMA FieldCells ==
    ASSUME NEW v \in Nat
    PROVE  /\ Field(v) \in Seq(Cells) /\ Len(Field(v)) = 2
           /\ Field(v)[1] = <<v, 1>> /\ Field(v)[2] = <<v, 2>>
<1>1. Field(v) = [k \in 1 .. 2 |-> <<v, k>>]
    BY DEF Field, FieldLen
<1>2. \A k \in 1 .. 2 : <<v, k>> \in Cells
    BY DEF Cells
<1>3. Field(v) \in [1 .. 2 -> Cells]
    BY <1>1, <1>2
<1>4. Field(v) \in Seq(Cells) /\ Len(Field(v)) = 2
    <2>1. PICK n \in Nat : n = 2
        OBVIOUS
    <2>2. PICK f \in [1 .. n -> Cells] : f = Field(v)
        BY <1>3, <2>1
    <2>3. f \in Seq(Cells) /\ Len(f) = n
        BY <2>2
    <2> QED BY <2>1, <2>2, <2>3
<1> QED BY <1>1, <1>4

\* A field that is pushed can be read where it was pushed, and leaves fields
\* elsewhere alone.
LEMMA PushField ==
    ASSUME NEW lb \in Ring, NEW j \in 0 .. BufferSize, NEW p, Points(lb, p, j),
           NEW v \in Nat, j + 2 <= BufferSize, NEW new, new = push_bytes(lb, p, Field(v))
    PROVE  /\ new \in Ring /\ Holds(new, j, v)
           /\ new.buffer_start = lb.buffer_start /\ new.buffer_used = lb.buffer_used
           /\ new.seq_counter = lb.seq_counter
           /\ \A i \in 0 .. BufferSize - 1 : i < j \/ i >= j + 2 => Cell(new, i) = Cell(lb, i)
<1>1. new \in Ring /\ Wrote(lb, new, j, Field(v))
    BY FieldCells, PushBytes
<1>2. \A i \in 0 .. BufferSize - 1 :
         Cell(new, i) = IF j <= i /\ i < j + 2 THEN Field(v)[i - j + 1] ELSE Cell(lb, i)
    BY <1>1, FieldCells DEF Wrote
<1>3. Cell(new, j) = <<v, 1>> /\ Cell(new, j + 1) = <<v, 2>>
    <2>1. Cell(new, j) = Field(v)[1]
        BY <1>2
    <2>2. Cell(new, j + 1) = Field(v)[2]
        BY <1>2
    <2> QED BY <2>1, <2>2, FieldCells
<1> QED BY <1>1, <1>2, <1>3 DEF Wrote, Holds

\* The header of a new entry: the entries before it are left as they are, the
\* pointer is the place of its data.
LEMMA HeaderPut ==
    ASSUME NEW room \in Ring, NEW size \in Nat, NEW u, u = room.buffer_used,
           NEW e, e = u + TotalSize(size), e <= BufferSize,
           NEW r, r = Header(room, size)
    PROVE  /\ r.lb \in Ring /\ r.lb.buffer_used = e
           /\ r.lb.buffer_start = room.buffer_start /\ r.lb.seq_counter = room.seq_counter
           /\ r.ptr \in 1 .. BufferSize /\ Points(r.lb, r.ptr, u + 4)
           /\ \A i \in 0 .. BufferSize - 1 : i < u => Cell(r.lb, i) = Cell(room, i)
           /\ EntryAt(r.lb, u, e, room.seq_counter)
<1>1. /\ u \in 0 .. BufferSize /\ e \in 0 .. BufferSize /\ e = u + size + 6
      /\ room.seq_counter \in Nat
    BY DEF Ring, TotalSize, FieldLen
<1>2. PICK a : a = [room EXCEPT !.buffer_used = @ + TotalSize(size)]
    OBVIOUS
<1>3. /\ a \in Ring /\ a.buffer_used = e /\ a.buffer_start = room.buffer_start
      /\ a.seq_counter = room.seq_counter /\ a.buffer_data = room.buffer_data
    BY <1>1, <1>2 DEF Ring
<1>4. \A i : Cell(a, i) = Cell(room, i)
    BY <1>3 DEF Cell
<1>5. PICK p0 : p0 = room.buffer_start + u
    OBVIOUS
<1>6. Points(a, p0, u)
    BY <1>1, <1>3, <1>5, StartPoints
<1>7. PICK b : b = push_bytes(a, p0, Field(size))
    OBVIOUS
<1>8. /\ b \in Ring /\ Holds(b, u, size) /\ b.buffer_start = room.buffer_start
      /\ b.buffer_used = e /\ b.seq_counter = room.seq_counter
      /\ \A i \in 0 .. BufferSize - 1 : i < u \/ i >= u + 2 => Cell(b, i) = Cell(a, i)
    BY <1>1, <1>3, <1>6, <1>7, PushField
<1>9. PICK p1 : p1 = After(p0, 2)
    OBVIOUS
<1>10. Points(b, p1, u + 2)
    <2>1. Points(a, p1, u + 2)
        BY <1>1, <1>3, <1>6, <1>9, AfterPoints
    <2> QED BY <1>3, <1>8, <2>1 DEF Points
<1>11. PICK c : c = push_bytes(b, p1, Field(room.seq_counter))
    OBVIOUS
<1>12. /\ c \in Ring /\ Holds(c, u + 2, room.seq_counter) /\ c.buffer_start = room.buffer_start
       /\ c.buffer_used = e /\ c.seq_counter = room.seq_counter
       /\ \A i \in 0 .. BufferSize - 1 : i < u + 2 \/ i >= u + 4 => Cell(c, i) = Cell(b, i)
    <2>1. u + 2 \in 0 .. BufferSize /\ (u + 2) + 2 <= BufferSize
        BY <1>1
    <2>2. PICK j : j = u + 2
        OBVIOUS
    <2>3. /\ c \in Ring /\ Holds(c, j, room.seq_counter) /\ c.buffer_start = b.buffer_start
          /\ c.buffer_used = b.buffer_used /\ c.seq_counter = b.seq_counter
          /\ \A i \in 0 .. BufferSize - 1 : i < j \/ i >= j + 2 => Cell(c, i) = Cell(b, i)
        BY <1>1, <1>8, <1>10, <1>11, <2>1, <2>2, PushField
    <2> QED BY <1>1, <1>8, <2>2, <2>3
<1>13. PICK p2 : p2 = After(p1, 2)
    OBVIOUS
<1>14. Points(c, p2, u + 4) /\ p2 \in 1 .. BufferSize
    <2>1. PICK j : j = u + 2
        OBVIOUS
    <2>2. j \in 0 .. BufferSize /\ j + 2 <= BufferSize /\ j + 2 = u + 4
        BY <1>1, <2>1
    <2>3. Points(b, p2, j + 2) /\ p2 \in 1 .. BufferSize
        BY <1>8, <1>10, <1>13, <2>1, <2>2, AfterPoints
    <2> QED BY <1>8, <1>12, <2>2, <2>3 DEF Points
<1>15. PICK j : j = u + 4 + size
    OBVIOUS
<1>16. j \in 0 .. BufferSize /\ j + 2 <= BufferSize /\ j = e - 2
    BY <1>1, <1>15
<1>17. Points(c, p2 + size, j)
    <2>1. PICK q : q = u + 4
        OBVIOUS
    <2>2. q \in 0 .. BufferSize /\ q + size \in 0 .. BufferSize
        BY <1>1, <2>1
    <2>3. p2 + size \in Pointers
        BY <1>1, <1>14 DEF Pointers
    <2>4. Points(c, p2 + size, q + size)
        BY <1>12, <1>14, <2>1, <2>2, <2>3, Moves
    <2> QED BY <1>15, <2>1, <2>4
<1>18. PICK d : d = push_bytes(c, p2 + size, Field(size))
    OBVIOUS
<1>19. /\ d \in Ring /\ Holds(d, j, size) /\ d.buffer_start = room.buffer_start
       /\ d.buffer_used = e /\ d.seq_counter = room.seq_counter
       /\ \A i \in 0 .. BufferSize - 1 : i < j \/ i >= j + 2 => Cell(d, i) = Cell(c, i)
    BY <1>12, <1>16, <1>17, <1>18, PushField
<1>20. r = [lb |-> d, ptr |-> p2]
    BY <1>2, <1>5, <1>7, <1>9, <1>11, <1>13, <1>18 DEF Header, FieldLen
<1>21. \A i \in 0 .. BufferSize - 1 : i < u => Cell(d, i) = Cell(room, i)
    BY <1>1, <1>4, <1>8, <1>12, <1>16, <1>19
<1>22. EntryAt(d, u, e, room.seq_counter)
    <2>1. Holds(d, u, size)
        BY <1>1, <1>8, <1>12, <1>16, <1>19 DEF Holds
    <2>2. Holds(d, u + 2, room.seq_counter)
        BY <1>1, <1>12, <1>16, <1>19 DEF Holds
    <2>3. e - u - TotalSize(0) = size /\ e - FieldLen = j /\ FieldLen = 2
        BY <1>1, <1>16 DEF TotalSize, FieldLen
    <2> QED BY <1>19, <2>1, <2>2, <2>3 DEF EntryAt
<1>23. Points(d, p2, u + 4)
    BY <1>12, <1>14, <1>19 DEF Points
<1> QED BY <1>14, <1>19, <1>20, <1>21, <1>22, <1>23

-----------------------------------------------------------------------------
(* The chain of entries *)

\* The occupied part of the ring is n entries.  off[i] is where the i-th entry
\* ends, num its number.  Any two ends are a header apart.
Chain(lb, n, off, num) ==
    /\ n \in Nat /\ off \in [0 .. n -> 0 .. BufferSize] /\ num \in [1 .. n -> 0 .. SeqMod - 1]
    /\ off[0] = 0 /\ off[n] = lb.buffer_used
    /\ \A i, j \in 0 .. n : i < j => off[i] + 6 <= off[j]
    /\ \A i \in 1 .. n : EntryAt(lb, off[i - 1], off[i], num[i])

\* The i-th entry, as Entries shows it.
Data(lb, a, b) == Bytes(lb, a + 4, b - a - 6)
EntryOf(lb, off, num, i) == [seq |-> num[i], data |-> Data(lb, off[i - 1], off[i])]
ListOf(lb, n, off, num) == [i \in 1 .. n |-> EntryOf(lb, off, num, i)]

\* One entry more, and the k first entries less.
MoreOff(off, n, e) == [i \in 0 .. n + 1 |-> IF i <= n THEN off[i] ELSE e]
MoreNum(num, n, v) == [i \in 1 .. n + 1 |-> IF i <= n THEN num[i] ELSE v]
LessOff(off, n, k) == [i \in 0 .. n - k |-> off[i + k] - off[k]]
LessNum(num, n, k) == [i \in 1 .. n - k |-> num[i + k]]

\* The ring at first has no entries.
LEMMA ChainInit == Chain(log_buffer_init, 0, [i \in 0 .. 0 |-> 0], [i \in 1 .. 0 |-> 0])
BY DEF Chain, log_buffer_init

\* Where the entries of a chain lie.
LEMMA ChainBounds ==
    ASSUME NEW lb, NEW n, NEW off, NEW num, Chain(lb, n, off, num), NEW i \in 1 .. n
    PROVE  /\ off[i - 1] \in 0 .. BufferSize /\ off[i] \in 0 .. BufferSize
           /\ off[n] \in 0 .. BufferSize
           /\ off[i - 1] + 6 <= off[i] /\ off[i] <= off[n] /\ num[i] \in Nat
<1>1. i - 1 \in 0 .. n /\ i \in 0 .. n /\ i - 1 < i /\ n \in 0 .. n /\ (i < n \/ i = n)
    BY DEF Chain
<1>2. off[i - 1] \in 0 .. BufferSize /\ off[i] \in 0 .. BufferSize /\ off[n] \in 0 .. BufferSize
    BY <1>1 DEF Chain
<1>3. off[i - 1] + 6 <= off[i] /\ (i < n => off[i] + 6 <= off[n])
    BY <1>1 DEF Chain
<1>4. num[i] \in Nat
    BY DEF Chain
<1> QED BY <1>1, <1>2, <1>3, <1>4

\* What makes a chain.
LEMMA IsChain ==
    ASSUME NEW lb, NEW n \in Nat, NEW off \in [0 .. n -> 0 .. BufferSize],
           NEW num \in [1 .. n -> 0 .. SeqMod - 1], off[0] = 0, off[n] = lb.buffer_used,
           \A i, j \in 0 .. n : i < j => off[i] + 6 <= off[j],
           \A i \in 1 .. n : EntryAt(lb, off[i - 1], off[i], num[i])
    PROVE  Chain(lb, n, off, num)
BY DEF Chain

\* Cells that are the same make the same entry.
Shifted(lb, new, b, d) == \A i \in 0 .. b - 1 : Cell(lb, i + d) = Cell(new, i)
\* An entry whose cells are found d cells earlier is the same entry.
LEMMA SameEntry ==
    ASSUME NEW lb, NEW new, NEW a \in Nat, NEW b \in Nat, a + 6 <= b, b <= BufferSize,
           NEW d \in Nat, b + d <= BufferSize, NEW a1, a1 = a + d, NEW b1, b1 = b + d,
           Shifted(lb, new, b, d), NEW v
    PROVE  /\ EntryAt(new, a, b, v) <=> EntryAt(lb, a1, b1, v)
           /\ Data(new, a, b) = Data(lb, a1, b1)
<1>1. FieldLen = 2 /\ TotalSize(0) = 6
    BY DEF FieldLen, TotalSize
<1>2. /\ Cell(new, a) = Cell(lb, a1) /\ Cell(new, a + 1) = Cell(lb, a1 + 1)
      /\ Cell(new, a + 2) = Cell(lb, a1 + 2) /\ Cell(new, a + 2 + 1) = Cell(lb, a1 + 2 + 1)
      /\ Cell(new, b - 2) = Cell(lb, b1 - 2) /\ Cell(new, b - 2 + 1) = Cell(lb, b1 - 2 + 1)
    <2>1. ASSUME NEW i \in 0 .. b - 1, NEW j, j = i + d PROVE Cell(new, i) = Cell(lb, j)
        BY <2>1 DEF Shifted
    <2>2. /\ a \in 0 .. b - 1 /\ a + 1 \in 0 .. b - 1 /\ a + 2 \in 0 .. b - 1
          /\ a + 2 + 1 \in 0 .. b - 1 /\ b - 2 \in 0 .. b - 1 /\ b - 2 + 1 \in 0 .. b - 1
          /\ a1 + 1 = a + 1 + d /\ a1 + 2 = a + 2 + d /\ a1 + 2 + 1 = a + 2 + 1 + d
          /\ b1 - 2 = b - 2 + d /\ b1 - 2 + 1 = b - 2 + 1 + d
        OBVIOUS
    <2> QED BY <2>1, <2>2
<1>3. b1 - a1 - 6 = b - a - 6
    OBVIOUS
<1>4. EntryAt(new, a, b, v) <=> EntryAt(lb, a1, b1, v)
    BY <1>1, <1>2, <1>3 DEF EntryAt, Holds
<1>5. ASSUME NEW i \in 1 .. b - a - 6
      PROVE  Cell(new, a + 4 + i - 1) = Cell(lb, a1 + 4 + i - 1)
    <2>1. PICK j \in 0 .. b - 1 : j = a + 4 + i - 1
        OBVIOUS
    <2>2. Cell(new, j) = Cell(lb, j + d)
        BY DEF Shifted
    <2>3. j + d = a1 + 4 + i - 1
        BY <2>1
    <2> QED BY <2>1, <2>2, <2>3
<1> QED BY <1>3, <1>4, <1>5 DEF Data, Bytes

\* The data of an entry.
IsBytes(bytes, size) == bytes \in Seq(Cells) /\ Len(bytes) = size

\* An entry is added to a chain: its header is put, then its data.
LEMMA EntryPut ==
    ASSUME NEW room \in Ring, NEW n, NEW off, NEW num, Chain(room, n, off, num),
           NEW bytes, NEW size \in Nat, IsBytes(bytes, size),
           NEW u \in 0 .. BufferSize, u = off[n], NEW e \in 0 .. BufferSize, e = u + size + 6,
           NEW r, r = Header(room, size), NEW new, new = push_bytes(r.lb, r.ptr, bytes)
    PROVE  /\ new \in Ring /\ r.ptr # NULL
           /\ new.seq_counter = room.seq_counter /\ r.lb.seq_counter = room.seq_counter
           /\ Chain(new, n + 1, MoreOff(off, n, e), MoreNum(num, n, room.seq_counter))
           /\ ListOf(new, n + 1, MoreOff(off, n, e), MoreNum(num, n, room.seq_counter))
                = [i \in 1 .. n + 1 |-> IF i <= n THEN EntryOf(room, off, num, i)
                                        ELSE [seq |-> room.seq_counter, data |-> bytes]]
<1>0. u = off[n]
    OBVIOUS
<1>1. /\ u \in 0 .. BufferSize /\ u = room.buffer_used /\ n \in Nat
      /\ e \in 0 .. BufferSize /\ e = u + size + 6
    BY <1>0 DEF Chain
<1>2. /\ r.lb \in Ring /\ r.lb.buffer_used = e
      /\ r.lb.buffer_start = room.buffer_start /\ r.lb.seq_counter = room.seq_counter
      /\ r.ptr \in 1 .. BufferSize /\ Points(r.lb, r.ptr, u + 4)
      /\ \A i \in 0 .. BufferSize - 1 : i < u => Cell(r.lb, i) = Cell(room, i)
      /\ EntryAt(r.lb, u, e, room.seq_counter)
    <2>1. e = u + TotalSize(size)
        BY <1>1 DEF TotalSize, FieldLen
    <2> QED BY <1>1, <2>1, HeaderPut
<1>3. r.ptr # NULL
    BY <1>2 DEF NULL
<1>4. PICK j \in 0 .. BufferSize : j = u + 4
    BY <1>1
<1>5. new \in Ring /\ Wrote(r.lb, new, j, bytes)
    <2>1. j + size <= BufferSize
        BY <1>1, <1>4
    <2> QED BY <1>2, <1>4, <2>1, PushBytes DEF IsBytes
<1>6. /\ \A i \in 0 .. BufferSize - 1 : i < j \/ i >= j + size => Cell(new, i) = Cell(r.lb, i)
      /\ \A i \in 0 .. BufferSize - 1 : j <= i /\ i < j + size => Cell(new, i) = bytes[i - j + 1]
      /\ new.buffer_start = room.buffer_start /\ new.buffer_used = e
      /\ new.seq_counter = room.seq_counter
    <2>1. Len(bytes) = size
        BY DEF IsBytes
    <2>2. \A i \in 0 .. BufferSize - 1 :
             Cell(new, i) = IF j <= i /\ i < j + size THEN bytes[i - j + 1] ELSE Cell(r.lb, i)
        BY <1>5, <2>1, Zenon DEF Wrote
    <2>3. /\ new.buffer_start = r.lb.buffer_start /\ new.buffer_used = r.lb.buffer_used
          /\ new.seq_counter = r.lb.seq_counter
        BY <1>5 DEF Wrote
    <2> QED BY <1>2, <2>2, <2>3
<1>7. EntryAt(new, u, e, room.seq_counter)
    <2>1. /\ Cell(new, u) = Cell(r.lb, u) /\ Cell(new, u + 1) = Cell(r.lb, u + 1)
          /\ Cell(new, u + 2) = Cell(r.lb, u + 2) /\ Cell(new, u + 2 + 1) = Cell(r.lb, u + 2 + 1)
          /\ Cell(new, e - 2) = Cell(r.lb, e - 2) /\ Cell(new, e - 2 + 1) = Cell(r.lb, e - 2 + 1)
        BY <1>1, <1>4, <1>6
    <2> QED BY <1>2, <2>1 DEF EntryAt, Holds, FieldLen
<1>8. Bytes(new, u + 4, size) = bytes
    <2>1. ASSUME NEW i \in 1 .. size PROVE Cell(new, u + 4 + i - 1) = bytes[i]
        <3>1. PICK k : k = u + 4 + i - 1
            OBVIOUS
        <3>2. k \in 0 .. BufferSize - 1 /\ j <= k /\ k < j + size /\ k - j + 1 = i
            BY <1>1, <1>4, <3>1
        <3> QED BY <1>6, <3>1, <3>2
    <2>2. bytes = [i \in 1 .. size |-> bytes[i]]
        BY DEF IsBytes
    <2> QED BY <2>1, <2>2 DEF Bytes
<1>9. \A i \in 0 .. u - 1 : Cell(room, i) = Cell(new, i)
    BY <1>1, <1>2, <1>4, <1>6
<1>10. ASSUME NEW i \in 1 .. n
       PROVE  /\ EntryAt(new, off[i - 1], off[i], num[i])
              /\ EntryOf(new, off, num, i) = EntryOf(room, off, num, i)
    <2>1. PICK a, b : a = off[i - 1] /\ b = off[i]
        OBVIOUS
    <2>2. a \in Nat /\ b \in Nat /\ a + 6 <= b /\ b <= u
        BY <1>0, <2>1, ChainBounds
    <2>3. PICK d \in Nat : d = 0
        OBVIOUS
    <2>4. Shifted(room, new, b, d)
        BY <1>1, <1>9, <2>2, <2>3 DEF Shifted
    <2>5. /\ EntryAt(new, a, b, num[i]) <=> EntryAt(room, a, b, num[i])
          /\ Data(new, a, b) = Data(room, a, b)
        <3>1. b <= BufferSize /\ b + d <= BufferSize /\ a = a + d /\ b = b + d
            BY <1>1, <2>2, <2>3
        <3> QED BY <2>2, <2>4, <3>1, SameEntry
    <2> QED BY <2>1, <2>5 DEF Chain, EntryOf
<1>11. PICK o, m : o = MoreOff(off, n, e) /\ m = MoreNum(num, n, room.seq_counter)
    OBVIOUS
<1>12. /\ o = [i \in 0 .. n + 1 |-> IF i <= n THEN off[i] ELSE e]
       /\ m = [i \in 1 .. n + 1 |-> IF i <= n THEN num[i] ELSE room.seq_counter]
    BY <1>11 DEF MoreOff, MoreNum
<1>13. /\ o[n + 1] = e /\ \A i \in 0 .. n : o[i] = off[i]
       /\ m[n + 1] = room.seq_counter /\ \A i \in 1 .. n : m[i] = num[i]
    BY <1>1, <1>12
<1>14. Chain(new, n + 1, o, m)
    <2>1. o \in [0 .. n + 1 -> 0 .. BufferSize] /\ m \in [1 .. n + 1 -> 0 .. SeqMod - 1]
        BY <1>1, <1>12 DEF Chain, Ring
    <2>2. o[0] = 0 /\ o[n + 1] = new.buffer_used
        <3>1. 0 \in 0 .. n /\ off[0] = 0
            BY <1>1 DEF Chain
        <3> QED BY <1>6, <1>13, <3>1
    <2>3. ASSUME NEW i \in 0 .. n + 1, NEW k \in 0 .. n + 1, i < k PROVE o[i] + 6 <= o[k]
        <3>1. i \in 0 .. n
            BY <1>1, <2>3
        <3>2. CASE k \in 0 .. n
            BY <1>13, <2>3, <3>1, <3>2 DEF Chain
        <3>3. CASE k = n + 1
            <4>1. off[i] <= u /\ off[i] \in Nat
                <5>1. off[i] \in 0 .. BufferSize /\ n \in 0 .. n /\ (i = n \/ i < n)
                    BY <1>1, <3>1 DEF Chain
                <5>2. i < n => off[i] + 6 <= off[n]
                    BY <3>1, <5>1 DEF Chain
                <5>3. CASE i < n
                    BY <1>0, <1>1, <5>1, <5>2, <5>3
                <5>4. CASE i = n
                    <6>1. off[i] = u
                        BY <1>0, <5>4, Zenon
                    <6> QED BY <1>1, <6>1
                <5> QED BY <5>1, <5>3, <5>4
            <4> QED BY <1>1, <1>13, <3>1, <3>3, <4>1
        <3> QED BY <1>1, <3>2, <3>3
    <2>4. ASSUME NEW i \in 1 .. n + 1 PROVE EntryAt(new, o[i - 1], o[i], m[i])
        <3>1. CASE i \in 1 .. n
            <4>1. i - 1 \in 0 .. n /\ i \in 0 .. n
                BY <1>1, <3>1
            <4> QED BY <1>10, <1>13, <3>1, <4>1
        <3>2. CASE i = n + 1
            <4>1. i - 1 = n /\ n \in 0 .. n
                BY <1>1, <3>2
            <4> QED BY <1>0, <1>7, <1>13, <3>2, <4>1
        <3> QED BY <1>1, <3>1, <3>2
    <2>5. n + 1 \in Nat
        BY <1>1
    <2> QED BY <2>1, <2>2, <2>3, <2>4, <2>5, IsChain
<1>15. ASSUME NEW i \in 1 .. n + 1
       PROVE  EntryOf(new, o, m, i) = IF i <= n THEN EntryOf(room, off, num, i)
                                      ELSE [seq |-> room.seq_counter, data |-> bytes]
    <2>1. CASE i \in 1 .. n
        <3>1. o[i - 1] = off[i - 1] /\ o[i] = off[i] /\ m[i] = num[i]
            <4>1. i - 1 \in 0 .. n /\ i \in 0 .. n
                BY <1>1, <2>1
            <4> QED BY <1>13, <2>1, <4>1
        <3>2. EntryOf(new, o, m, i) = EntryOf(new, off, num, i)
            BY <3>1 DEF EntryOf
        <3> QED BY <1>10, <2>1, <3>2
    <2>2. CASE i = n + 1
        <3>1. o[i - 1] = u /\ o[i] = e /\ m[i] = room.seq_counter /\ e - u - 6 = size
            <4>1. i - 1 = n /\ n \in 0 .. n /\ e - u - 6 = size
                BY <1>1, <2>2
            <4> QED BY <1>0, <1>13, <2>2, <4>1
        <3> QED BY <1>1, <1>8, <2>2, <3>1 DEF EntryOf, Data
    <2> QED BY <1>1, <2>1, <2>2
<1>16. ListOf(new, n + 1, o, m)
         = [i \in 1 .. n + 1 |-> IF i <= n THEN EntryOf(room, off, num, i)
                                 ELSE [seq |-> room.seq_counter, data |-> bytes]]
    BY <1>15 DEF ListOf
<1> QED BY <1>2, <1>3, <1>5, <1>6, <1>11, <1>14, <1>16

-----------------------------------------------------------------------------
(* Dropping entries *)

\* off[k] is d.
At(off, k, d) == off[k] = d

\* PopTo at the end of the k-th entry drops the first k entries.
LEMMA EntriesPopped ==
    ASSUME NEW lb \in Ring, NEW n, NEW off, NEW num, Chain(lb, n, off, num), NEW k \in 0 .. n,
           NEW d \in 0 .. BufferSize, At(off, k, d), NEW u \in 0 .. BufferSize, At(off, n, u),
           NEW left \in 0 .. BufferSize, left = u - d,
           NEW new, new = PopTo(lb, left)
    PROVE  /\ new \in Ring /\ new.seq_counter = lb.seq_counter /\ new.buffer_used = left
           /\ Chain(new, n - k, LessOff(off, n, k), LessNum(num, n, k))
           /\ ListOf(new, n - k, LessOff(off, n, k), LessNum(num, n, k))
                = [i \in 1 .. n - k |-> EntryOf(lb, off, num, i + k)]
<1>1. /\ n \in Nat /\ k \in Nat /\ n - k \in Nat /\ n \in 0 .. n
    BY DEF Chain
<1>0. lb.buffer_used = u
    BY DEF Chain, At
<1>2. d <= u
    <2>1. CASE k < n
        BY <1>1, <2>1 DEF Chain, At
    <2>2. CASE k = n
        <3>1. d = u
            BY <2>2, Zenon DEF At
        <3> QED BY <1>1, <3>1
    <2> QED BY <1>1, <2>1, <2>2
<1>3. left \in 0 .. BufferSize /\ u - left = d /\ left + d = u
    BY <1>1, <1>2
<1>4. PICK s \in 0 .. BufferSize - 1 : s = lb.buffer_start
    BY DEF Ring
<1>5. Pos(s + d) \in 0 .. BufferSize - 1
    BY <1>1, <1>4 DEF Pos
<1>6. new = [lb EXCEPT !.buffer_start = Pos(s + d), !.buffer_used = left]
    <2>1. u - left = d
        BY <1>3
    <2>2. PICK x \in Int : x = s + d
        BY <1>1
    <2>3. new = [lb EXCEPT !.buffer_start = IF x >= BufferSize THEN x - BufferSize ELSE x,
                           !.buffer_used = left]
        BY <1>0, <1>4, <2>1, <2>2 DEF PopTo
    <2> QED BY <2>2, <2>3 DEF Pos
<1>7. /\ new \in Ring /\ new.seq_counter = lb.seq_counter /\ new.buffer_used = left
      /\ new.buffer_start = Pos(s + d) /\ new.buffer_data = lb.buffer_data
    BY <1>3, <1>5, <1>6 DEF Ring
<1>8. ASSUME NEW i \in 0 .. left - 1 PROVE Cell(lb, i + d) = Cell(new, i)
    <2>1. i \in Nat /\ i + d < BufferSize
        BY <1>1, <1>3
    <2>2. Pos(Pos(s + d) + i) = Pos(s + (i + d))
        BY <2>1, PosPos
    <2> QED BY <1>4, <1>7, <2>2 DEF Cell
<1>9. PICK o, m : o = LessOff(off, n, k) /\ m = LessNum(num, n, k)
    OBVIOUS
<1>10. /\ o = [i \in 0 .. n - k |-> off[i + k] - d]
       /\ m = [i \in 1 .. n - k |-> num[i + k]]
    BY <1>9 DEF LessOff, LessNum, At
<1>11. ASSUME NEW i \in 0 .. n - k
       PROVE  /\ o[i] = off[i + k] - d /\ i + k \in 0 .. n /\ off[i + k] \in 0 .. BufferSize
              /\ d <= off[i + k] /\ off[i + k] <= u
    <2>1. i + k \in 0 .. n /\ o[i] = off[i + k] - d
        BY <1>1, <1>10
    <2>2. off[i + k] \in 0 .. BufferSize
        BY <2>1 DEF Chain
    <2>3. d <= off[i + k]
        <3>1. CASE i = 0
            <4>1. i + k = k
                BY <1>1, <3>1
            <4>2. off[i + k] = d
                BY <4>1, Zenon DEF At
            <4> QED BY <4>2
        <3>2. CASE i > 0
            <4>1. off[k] + 6 <= off[i + k]
                BY <1>1, <2>1, <3>2 DEF Chain
            <4>2. d + 6 <= off[i + k]
                BY <4>1 DEF At
            <4> QED BY <2>2, <4>2
        <3> QED BY <1>1, <3>1, <3>2
    <2>4. off[i + k] <= u
        <3>1. CASE i + k = n
            <4>1. off[i + k] = u
                BY <3>1, Zenon DEF At
            <4> QED BY <4>1
        <3>2. CASE i + k < n
            <4>1. off[i + k] + 6 <= off[n]
                BY <1>1, <2>1, <3>2 DEF Chain
            <4>2. off[i + k] + 6 <= u
                BY <4>1 DEF At
            <4> QED BY <2>2, <4>2
        <3> QED BY <1>1, <2>1, <3>1, <3>2
    <2> QED BY <2>1, <2>2, <2>3, <2>4
<1>12. ASSUME NEW i \in 1 .. n - k
       PROVE  /\ EntryAt(new, o[i - 1], o[i], m[i])
              /\ EntryOf(new, o, m, i) = EntryOf(lb, off, num, i + k)
    <2>1. PICK h : h = i + k
        OBVIOUS
    <2>2. h \in 1 .. n /\ i \in 0 .. n - k /\ i - 1 \in 0 .. n - k /\ (i - 1) + k = h - 1
        BY <1>1, <2>1
    <2>3. PICK x, y, a, b : x = off[h - 1] /\ y = off[h] /\ a = x - d /\ b = y - d
        OBVIOUS
    <2>4. /\ x \in 0 .. BufferSize /\ y \in 0 .. BufferSize
          /\ d <= x /\ y <= u /\ x + 6 <= y /\ o[i] = b /\ o[i - 1] = a
        BY <1>11, <2>1, <2>2, <2>3, ChainBounds
    <2>5. /\ a \in Nat /\ b \in Nat /\ a + 6 <= b /\ b <= left /\ b <= BufferSize
          /\ d \in Nat /\ b + d <= BufferSize /\ x = a + d /\ y = b + d
        BY <1>1, <1>3, <2>3, <2>4
    <2>6. Shifted(lb, new, b, d)
        BY <1>3, <1>8, <2>5 DEF Shifted
    <2>7. m[i] = num[h]
        BY <1>10, <2>1
    <2>9. /\ EntryAt(new, a, b, num[h]) <=> EntryAt(lb, x, y, num[h])
          /\ Data(new, a, b) = Data(lb, x, y)
        BY <2>5, <2>6, SameEntry
    <2>10. EntryAt(lb, off[h - 1], off[h], num[h])
        BY <2>2 DEF Chain
    <2>11. EntryAt(new, o[i - 1], o[i], m[i])
        BY <2>3, <2>4, <2>7, <2>9, <2>10
    <2>12. EntryOf(new, o, m, i) = EntryOf(lb, off, num, h)
        BY <2>3, <2>4, <2>7, <2>9 DEF EntryOf
    <2> QED BY <2>1, <2>11, <2>12
<1>13. Chain(new, n - k, o, m)
    <2>1. o \in [0 .. n - k -> 0 .. BufferSize]
        <3>1. \A i \in 0 .. n - k : o[i] \in 0 .. BufferSize
            BY <1>1, <1>11
        <3> QED BY <1>10, <3>1
    <2>2. m \in [1 .. n - k -> 0 .. SeqMod - 1]
        <3>1. \A i \in 1 .. n - k : i + k \in 1 .. n
            BY <1>1
        <3> QED BY <1>10, <3>1 DEF Chain
    <2>3. o[0] = 0
        <3>1. 0 \in 0 .. n - k /\ 0 + k = k
            BY <1>1
        <3>2. o[0] = d - d
            BY <1>11, <3>1 DEF At
        <3> QED BY <1>1, <3>2
    <2>4. o[n - k] = new.buffer_used
        <3>1. n - k \in 0 .. n - k /\ (n - k) + k = n
            BY <1>1
        <3>2. o[n - k] = u - d
            BY <1>11, <3>1 DEF At
        <3> QED BY <1>7, <3>2
    <2>5. ASSUME NEW i \in 0 .. n - k, NEW j \in 0 .. n - k, i < j PROVE o[i] + 6 <= o[j]
        <3>1. i + k \in 0 .. n /\ j + k \in 0 .. n /\ i + k < j + k
            BY <1>1, <2>5
        <3>2. off[i + k] + 6 <= off[j + k]
            BY <3>1 DEF Chain
        <3> QED BY <1>1, <1>11, <3>2
    <2> QED BY <1>1, <1>12, <2>1, <2>2, <2>3, <2>4, <2>5, IsChain
<1>14. ListOf(new, n - k, o, m) = [i \in 1 .. n - k |-> EntryOf(lb, off, num, i + k)]
    BY <1>12 DEF ListOf
<1> QED BY <1>7, <1>9, <1>13, <1>14

\* What is read at the start of an entry, and from its end.
LEMMA EntryRead ==
    ASSUME NEW lb \in Ring, NEW a \in 0 .. BufferSize, NEW b \in 0 .. BufferSize, a + 6 <= b,
           NEW v, EntryAt(lb, a, b, v), NEW p, Points(lb, p, a), NEW q, Points(lb, q, b - FieldLen)
    PROVE  /\ get_field(lb, p) = b - a - 6 /\ TotalSize(get_field(lb, p)) = b - a
           /\ get_field(lb, After(p, FieldLen)) = v
           /\ get_bytes(lb, After(p, 2 * FieldLen), b - a - 6) = Data(lb, a, b)
           /\ TotalSize(get_field(lb, q)) = b - a
<1>1. FieldLen = 2 /\ TotalSize(0) = 6 /\ \A x : TotalSize(x) = x + 6
    BY DEF FieldLen, TotalSize
<1>2. PICK size \in Nat : size = b - a - 6
    OBVIOUS
<1>3. Holds(lb, a, size) /\ Holds(lb, a + 2, v) /\ Holds(lb, b - 2, size)
    BY <1>1, <1>2 DEF EntryAt
<1>4. get_field(lb, p) = size
    <2>1. a + FieldLen <= BufferSize
        BY <1>1
    <2> QED BY <1>3, <2>1, GetField
<1>5. get_field(lb, After(p, FieldLen)) = v
    <2>1. PICK j, r : j = a + 2 /\ r = After(p, FieldLen)
        OBVIOUS
    <2>2. j \in 0 .. BufferSize /\ j + FieldLen <= BufferSize /\ Holds(lb, j, v)
        BY <1>1, <1>3, <2>1
    <2>3. Points(lb, r, j)
        <3>1. FieldLen \in Nat \ {0} /\ a + FieldLen <= BufferSize /\ a + FieldLen = j
            BY <1>1, <2>1
        <3> QED BY <2>1, <3>1, AfterPoints
    <2> QED BY <2>1, <2>2, <2>3, GetField
<1>6. get_bytes(lb, After(p, 2 * FieldLen), size) = Data(lb, a, b)
    <2>1. PICK j, r, f : j = a + 4 /\ r = After(p, f) /\ f = 2 * FieldLen
        OBVIOUS
    <2>2. j \in 0 .. BufferSize /\ j + size <= BufferSize /\ f \in Nat \ {0} /\ a + f = j /\ a + f <= BufferSize
        BY <1>1, <1>2, <2>1
    <2>3. Points(lb, r, j)
        BY <2>1, <2>2, AfterPoints
    <2>4. get_bytes(lb, r, size) = Bytes(lb, j, size)
        BY <2>2, <2>3, GetBytes
    <2> QED BY <1>2, <2>1, <2>4 DEF Data
<1>7. get_field(lb, q) = size
    <2>1. PICK j : j = b - FieldLen
        OBVIOUS
    <2>2. j \in 0 .. BufferSize /\ j + FieldLen <= BufferSize /\ Holds(lb, j, size)
        BY <1>1, <1>3, <2>1
    <2> QED BY <2>1, <2>2, GetField
<1> QED BY <1>1, <1>2, <1>4, <1>5, <1>6, <1>7

\* What is read of the i-th entry of a chain.
LEMMA ChainRead ==
    ASSUME NEW lb \in Ring, NEW n, NEW off, NEW num, Chain(lb, n, off, num), NEW i \in 1 .. n,
           NEW a \in 0 .. BufferSize, At(off, i - 1, a), NEW b \in 0 .. BufferSize, At(off, i, b),
           NEW p, Points(lb, p, a)
    PROVE  /\ a + 6 <= b
           /\ get_field(lb, p) = b - a - 6 /\ TotalSize(get_field(lb, p)) = b - a
           /\ get_field(lb, After(p, FieldLen)) = num[i]
           /\ get_bytes(lb, After(p, 2 * FieldLen), b - a - 6) = Data(lb, a, b)
           /\ TotalSize(get_field(lb, lb.buffer_start + b - FieldLen)) = b - a
<1>1. off[i - 1] + 6 <= off[i]
    BY ChainBounds
<1>2. a + 6 <= b
    BY <1>1 DEF At
<1>3. EntryAt(lb, off[i - 1], off[i], num[i])
    BY DEF Chain
<1>4. EntryAt(lb, a, b, num[i])
    BY <1>3 DEF At
<1>5. PICK q : q = lb.buffer_start + b - FieldLen
    OBVIOUS
<1>6. Points(lb, q, b - FieldLen)
    <2>1. PICK j : j = b - FieldLen
        OBVIOUS
    <2>2. j \in 0 .. BufferSize /\ q = lb.buffer_start + j
        BY <1>2, <1>5, <2>1 DEF FieldLen, Ring
    <2> QED BY <2>1, <2>2, StartPoints
<1> QED BY <1>2, <1>4, <1>5, <1>6, EntryRead

\* What is left of the ring without its first entries.
LeftOf(off, n) == [k \in 0 .. n |-> off[n] - off[k]]
\* It falls from the room that is used to 0, entry by entry.
LEMMA LeftIn ==
    ASSUME NEW lb \in Ring, NEW n, NEW off, NEW num, Chain(lb, n, off, num),
           NEW left, left = LeftOf(off, n)
    PROVE  /\ n \in Nat /\ left \in [0 .. n -> 0 .. BufferSize]
           /\ left[0] = lb.buffer_used /\ left[n] = 0
           /\ \A k \in 1 .. n : /\ left[k] + 6 <= left[k - 1]
                                /\ left[k - 1] - left[k] = off[k] - off[k - 1]
           /\ \A k \in 0 .. n : left[k] = lb.buffer_used - off[k] /\ left[k] <= lb.buffer_used
<1>1. n \in Nat /\ left = [k \in 0 .. n |-> off[n] - off[k]] /\ n \in 0 .. n /\ 0 \in 0 .. n
    BY DEF LeftOf, Chain
<1>2. ASSUME NEW k \in 0 .. n
      PROVE  /\ off[k] \in 0 .. BufferSize /\ off[n] \in 0 .. BufferSize /\ off[k] <= off[n]
             /\ left[k] = off[n] - off[k]
    <2>1. off[k] \in 0 .. BufferSize /\ off[n] \in 0 .. BufferSize /\ left[k] = off[n] - off[k]
        BY <1>1 DEF Chain
    <2>2. CASE k < n
        BY <1>1, <2>1, <2>2 DEF Chain
    <2>3. CASE k = n
        <3>1. off[k] = off[n]
            BY <2>3
        <3> QED BY <2>1, <3>1
    <2> QED BY <1>1, <2>1, <2>2, <2>3
<1>3. \A k \in 0 .. n : left[k] \in 0 .. BufferSize
    BY <1>2
<1>4. left \in [0 .. n -> 0 .. BufferSize]
    BY <1>1, <1>3
<1>5. left[0] = lb.buffer_used
    <2>1. off[0] = 0 /\ off[n] = lb.buffer_used
        BY DEF Chain
    <2>2. lb.buffer_used \in Nat
        BY DEF Ring
    <2>3. left[0] = lb.buffer_used - 0
        BY <1>1, <1>2, <2>1
    <2> QED BY <2>2, <2>3
<1>6. left[n] = 0
    BY <1>1, <1>2
<1>7. ASSUME NEW k \in 1 .. n
      PROVE  left[k] + 6 <= left[k - 1] /\ left[k - 1] - left[k] = off[k] - off[k - 1]
    <2>1. k \in 0 .. n /\ k - 1 \in 0 .. n
        BY <1>1
    <2>2. off[k - 1] + 6 <= off[k]
        BY ChainBounds
    <2> QED BY <1>2, <2>1, <2>2
<1>8. ASSUME NEW k \in 0 .. n
      PROVE  left[k] = lb.buffer_used - off[k] /\ left[k] <= lb.buffer_used
    <2>1. off[n] = lb.buffer_used
        BY DEF Chain
    <2> QED BY <1>2, <2>1
<1> QED BY <1>1, <1>4, <1>5, <1>6, <1>7, <1>8

\* The oldest of the entries that are left.
LEMMA OldestLeft ==
    ASSUME NEW lb \in Ring, NEW n, NEW off, NEW num, Chain(lb, n, off, num),
           NEW left, left = LeftOf(off, n), NEW k \in 1 .. n
    PROVE  OldestSize(lb, left[k - 1]) = left[k - 1] - left[k]
<1>1. PICK a, b : a = off[k - 1] /\ b = off[k]
    OBVIOUS
<1>2. a \in 0 .. BufferSize /\ b \in 0 .. BufferSize /\ At(off, k - 1, a) /\ At(off, k, b)
    BY <1>1, ChainBounds DEF At
<1>3. k - 1 \in 0 .. n /\ lb.buffer_used \in Nat
    BY DEF Chain, Ring
<1>4. lb.buffer_used - left[k - 1] = a
    BY <1>1, <1>2, <1>3, LeftIn
<1>5. PICK p : p = lb.buffer_start + a
    OBVIOUS
<1>6. Points(lb, p, a)
    BY <1>2, <1>5, StartPoints
<1>7. TotalSize(get_field(lb, p)) = b - a
    BY <1>2, <1>6, ChainRead
<1>8. OldestSize(lb, left[k - 1]) = b - a
    BY <1>4, <1>5, <1>7 DEF OldestSize
<1> QED BY <1>1, <1>8, LeftIn

\* What the ring's cells make of the size of an entry is at least 5.
LEMMA OldestIn ==
    ASSUME NEW lb \in Ring, NEW left \in Int PROVE OldestSize(lb, left) \in Int /\ OldestSize(lb, left) >= 5
<1>1. PICK p \in Int : p = lb.buffer_start + (lb.buffer_used - left)
    BY DEF Ring
<1>2. get_field(lb, p) \in Nat \cup {-1}
    BY FieldIn
<1> QED BY <1>1, <1>2 DEF OldestSize, TotalSize, FieldLen

\* The loop of push_entry as a function of the occupied cells.
Kept(lb, total) ==
    LET kept[left \in 0 .. BufferSize] ==
            IF Fits(left, total) THEN left
            ELSE LET oldest == OldestSize(lb, left)
                 IN  IF oldest > left THEN left ELSE kept[left - oldest]
    IN  kept
\* The while loop of push_entry ends, for each turn drops an entry.
LEMMA KeptIs ==
    ASSUME NEW lb \in Ring, NEW total
    PROVE  /\ MakeRoom(lb, total) = PopTo(lb, Kept(lb, total)[lb.buffer_used])
           /\ Kept(lb, total) = [left \in 0 .. BufferSize |->
                 IF Fits(left, total) THEN left
                 ELSE IF OldestSize(lb, left) > left THEN left
                 ELSE Kept(lb, total)[left - OldestSize(lb, left)]]
<1>1. PICK S, stop, val, next, rank :
         /\ S = 0 .. BufferSize
         /\ stop = [left \in S |-> Fits(left, total) \/ OldestSize(lb, left) > left]
         /\ val = [left \in S |-> left]
         /\ next = [left \in S |-> left - OldestSize(lb, left)]
         /\ rank = [left \in S |-> left]
    OBVIOUS
<1>2. Descends(S, stop, next, rank, BufferSize)
    <2>1. rank \in [S -> 0 .. BufferSize]
        BY <1>1
    <2>2. ASSUME NEW x \in S, ~stop[x] PROVE next[x] \in S /\ rank[next[x]] < rank[x]
        <3>1. OldestSize(lb, x) \in Int /\ OldestSize(lb, x) >= 5
            BY <1>1, OldestIn
        <3>2. ~(OldestSize(lb, x) > x) /\ next[x] = x - OldestSize(lb, x)
            BY <1>1, <2>2
        <3> QED BY <1>1, <3>1, <3>2
    <2> QED BY <2>1, <2>2 DEF Descends
<1>3. PICK f : Walks(f, S, stop, val, next)
    BY <1>2, WalkExists
<1>4. f = [left \in 0 .. BufferSize |->
              IF Fits(left, total) THEN left
              ELSE IF OldestSize(lb, left) > left THEN left ELSE f[left - OldestSize(lb, left)]]
    <2>1. f = [left \in S |-> IF stop[left] THEN val[left] ELSE f[next[left]]]
        BY <1>3 DEF Walks
    <2>2. \A left \in S : (IF stop[left] THEN val[left] ELSE f[next[left]])
             = IF Fits(left, total) THEN left
               ELSE IF OldestSize(lb, left) > left THEN left ELSE f[left - OldestSize(lb, left)]
        BY <1>1
    <2> QED BY <1>1, <2>1, <2>2
<1>5. \E g : g = [left \in 0 .. BufferSize |->
              IF Fits(left, total) THEN left
              ELSE IF OldestSize(lb, left) > left THEN left ELSE g[left - OldestSize(lb, left)]]
    BY <1>4
<1>6. Kept(lb, total) = [left \in 0 .. BufferSize |->
                 IF Fits(left, total) THEN left
                 ELSE IF OldestSize(lb, left) > left THEN left
                 ELSE Kept(lb, total)[left - OldestSize(lb, left)]]
    BY <1>5, Zenon DEF Kept
<1>7. MakeRoom(lb, total) = PopTo(lb, Kept(lb, total)[lb.buffer_used])
    BY DEF MakeRoom, Kept
<1> QED BY <1>6, <1>7

\* The loop of push_entry drops the fewest entries that make room.
LEMMA RoomMade ==
    ASSUME NEW lb \in Ring, NEW n, NEW off, NEW num, Chain(lb, n, off, num),
           NEW left, left = LeftOf(off, n), NEW total \in 0 .. BufferSize
    PROVE  \E m \in 0 .. n : /\ MakeRoom(lb, total) = PopTo(lb, left[m])
                             /\ Fits(left[m], total)
                             /\ m > 0 => ~Fits(left[m - 1], total)
<1>1. /\ n \in Nat /\ left \in [0 .. n -> 0 .. BufferSize] /\ left[0] = lb.buffer_used
      /\ left[n] = 0 /\ \A k \in 1 .. n : left[k] + 6 <= left[k - 1]
    BY LeftIn
<1>2. PICK T : T = {k \in 0 .. n : Fits(left[k], total)}
    OBVIOUS
<1>3. n \in T
    BY <1>1, <1>2 DEF Fits
<1>4. PICK m \in T : \A k \in T : m <= k
    <2>1. T \in SUBSET Nat /\ T # {}
        BY <1>2, <1>3
    <2> QED BY <2>1, NatMin
<1>5. PICK f : f = Kept(lb, total)
    OBVIOUS
<1>6. \A x \in 0 .. BufferSize :
         f[x] = IF Fits(x, total) THEN x
                ELSE IF OldestSize(lb, x) > x THEN x ELSE f[x - OldestSize(lb, x)]
    <2>1. f = [x \in 0 .. BufferSize |->
                 IF Fits(x, total) THEN x
                 ELSE IF OldestSize(lb, x) > x THEN x ELSE f[x - OldestSize(lb, x)]]
        BY <1>5, KeptIs
    <2> QED BY <2>1
<1>7. ASSUME NEW k \in 1 .. n, k - 1 \notin T PROVE f[left[k - 1]] = f[left[k]]
    <2>1. k \in 0 .. n /\ k - 1 \in 0 .. n
        BY <1>1
    <2>2. PICK x, y : x = left[k - 1] /\ y = left[k]
        OBVIOUS
    <2>3. x \in 0 .. BufferSize /\ y \in 0 .. BufferSize /\ y + 6 <= x
        BY <1>1, <2>1, <2>2
    <2>4. OldestSize(lb, x) = x - y
        BY <2>2, OldestLeft
    <2>5. ~Fits(x, total)
        BY <1>2, <1>7, <2>1, <2>2
    <2>6. ~(OldestSize(lb, x) > x) /\ x - OldestSize(lb, x) = y
        BY <2>3, <2>4
    <2> QED BY <1>6, <2>2, <2>3, <2>5, <2>6
<1>8. f[left[0]] = f[left[m]]
    <2>1. PICK G : G = {k \in Nat : k <= m => f[left[0]] = f[left[k]]}
        OBVIOUS
    <2>2. 0 \in G
        BY <2>1
    <2>3. ASSUME NEW k \in G PROVE k + 1 \in G
        <3>1. k \in Nat /\ m \in 0 .. n /\ (k <= m => f[left[0]] = f[left[k]])
            BY <1>2, <2>1
        <3>2. CASE k + 1 <= m
            <4>1. k + 1 \in 1 .. n /\ (k + 1) - 1 = k /\ k \notin T
                BY <1>1, <1>4, <3>1, <3>2
            <4>2. f[left[k]] = f[left[k + 1]]
                BY <1>7, <4>1
            <4> QED BY <2>1, <3>1, <3>2, <4>2
        <3>3. CASE ~(k + 1 <= m)
            BY <2>1, <3>1, <3>3
        <3> QED BY <3>2, <3>3
    <2>4. G \in SUBSET Nat
        BY <2>1
    <2>5. m \in Nat /\ m \in G
        <3>1. m \in Nat
            BY <1>2
        <3> QED BY <2>2, <2>3, <2>4, <3>1, NatInd
    <2> QED BY <2>1, <2>5
<1>9. m \in 0 .. n /\ Fits(left[m], total) /\ left[m] \in 0 .. BufferSize
    BY <1>1, <1>2
<1>10. MakeRoom(lb, total) = PopTo(lb, left[m])
    BY <1>1, <1>5, <1>6, <1>8, <1>9, KeptIs
<1>11. m > 0 => ~Fits(left[m - 1], total)
    <2> SUFFICES ASSUME m > 0 PROVE ~Fits(left[m - 1], total)
        OBVIOUS
    <2>1. m - 1 \in 0 .. n /\ ~(m <= m - 1)
        BY <1>1, <1>9
    <2> QED BY <1>2, <1>4, <2>1
<1> QED BY <1>9, <1>10, <1>11

-----------------------------------------------------------------------------
(* push_entry and pop_entry *)

\* The ring with the next number given out.
Counted(lb) == [lb EXCEPT !.seq_counter = (@ + 1) % SeqMod]
\* Giving out a number leaves the entries as they are.
LEMMA CountedSame ==
    ASSUME NEW lb \in Ring, NEW n, NEW off, NEW num, Chain(lb, n, off, num),
           NEW new, new = Counted(lb)
    PROVE  /\ new \in Ring /\ new.seq_counter = (lb.seq_counter + 1) % SeqMod
           /\ new.buffer_used = lb.buffer_used /\ new.buffer_start = lb.buffer_start
           /\ Chain(new, n, off, num) /\ \A i : EntryOf(new, off, num, i) = EntryOf(lb, off, num, i)
<1>1. PICK c \in 0 .. SeqMod - 1 : c = (lb.seq_counter + 1) % SeqMod
    BY DEF Ring
<1>2. new = [lb EXCEPT !.seq_counter = c]
    BY <1>1 DEF Counted
<1>3. /\ new \in Ring /\ new.seq_counter = c /\ new.buffer_used = lb.buffer_used
      /\ new.buffer_start = lb.buffer_start /\ new.buffer_data = lb.buffer_data
    BY <1>2 DEF Ring
<1>4. \A i : Cell(new, i) = Cell(lb, i)
    BY <1>3 DEF Cell
<1>5. \A a, b, v : (EntryAt(new, a, b, v) <=> EntryAt(lb, a, b, v)) /\ Data(new, a, b) = Data(lb, a, b)
    BY <1>4 DEF EntryAt, Holds, Data, Bytes
<1>6. Chain(new, n, off, num)
    BY <1>3, <1>5 DEF Chain
<1>7. \A i : EntryOf(new, off, num, i) = EntryOf(lb, off, num, i)
    BY <1>5 DEF EntryOf
<1> QED BY <1>1, <1>3, <1>6, <1>7

\* The ring after push_entry and its data, k entries having been dropped: no
\* more of them than the new one needs.
IsAdded(lb, n, off, num, bytes, new, k, o, m) ==
    /\ k \in 0 .. n /\ new \in Ring /\ new.seq_counter = (lb.seq_counter + 1) % SeqMod
    /\ Chain(new, n - k + 1, o, m)
    /\ ListOf(new, n - k + 1, o, m)
         = [i \in 1 .. n - k + 1 |-> IF i <= n - k THEN EntryOf(lb, off, num, i + k)
                                     ELSE [seq |-> new.seq_counter, data |-> bytes]]
    /\ k > 0 => new.buffer_used + (off[k] - off[k - 1]) > BufferSize

\* What push_entry and the caller's push_bytes do.
LEMMA Pushed ==
    ASSUME NEW lb \in Ring, NEW n, NEW off, NEW num, Chain(lb, n, off, num),
           NEW bytes, NEW size \in Nat, IsBytes(bytes, size), NEW can_pop \in BOOLEAN,
           NEW r, r = push_entry(lb, size, can_pop),
           NEW new, new = push_bytes(r.lb, r.ptr, bytes)
    PROVE  \/ r = [lb |-> lb, ptr |-> NULL] /\ TotalSize(size) > BufferSize
           \/ r = [lb |-> Counted(lb), ptr |-> NULL] /\ ~can_pop
           \/ /\ r.ptr # NULL /\ r.lb.seq_counter = (lb.seq_counter + 1) % SeqMod
              /\ \E k, o, m : /\ IsAdded(lb, n, off, num, bytes, new, k, o, m)
                              /\ ~can_pop => k = 0
<1>1. PICK total, c, room : /\ total = TotalSize(size) /\ c = Counted(lb)
                            /\ room = IF can_pop THEN MakeRoom(c, total) ELSE c
    OBVIOUS
<1>2. total \in Nat /\ total = size + 6
    BY <1>1 DEF TotalSize, FieldLen
<1>3. r = IF total > BufferSize THEN [lb |-> lb, ptr |-> NULL]
          ELSE IF ~Fits(room.buffer_used, total) THEN [lb |-> room, ptr |-> NULL]
          ELSE Header(room, size)
    BY <1>1 DEF push_entry, Header, Counted
<1>4. CASE total > BufferSize
    BY <1>1, <1>3, <1>4
<1>5. CASE ~(total > BufferSize) /\ ~can_pop /\ ~Fits(room.buffer_used, total)
    BY <1>1, <1>3, <1>5
<1>6. CASE ~(total > BufferSize) /\ (can_pop \/ Fits(room.buffer_used, total))
    <2>1. /\ c \in Ring /\ c.seq_counter = (lb.seq_counter + 1) % SeqMod
          /\ Chain(c, n, off, num) /\ \A i : EntryOf(c, off, num, i) = EntryOf(lb, off, num, i)
        BY <1>1, CountedSame
    <2>2. PICK left : left = LeftOf(off, n)
        OBVIOUS
    <2>3. /\ n \in Nat /\ left \in [0 .. n -> 0 .. BufferSize]
          /\ left[0] = c.buffer_used /\ left[n] = 0
          /\ \A k \in 1 .. n : /\ left[k] + 6 <= left[k - 1]
                               /\ left[k - 1] - left[k] = off[k] - off[k - 1]
          /\ \A k \in 0 .. n : left[k] = c.buffer_used - off[k] /\ left[k] <= c.buffer_used
        BY <2>1, <2>2, LeftIn
    <2>4. PICK k \in 0 .. n : /\ room = PopTo(c, left[k]) /\ Fits(left[k], total)
                              /\ k > 0 => ~Fits(left[k - 1], total)
                              /\ ~can_pop => k = 0
        <3>1. CASE can_pop
            <4>1. total \in 0 .. BufferSize
                BY <1>2, <1>6
            <4>2. \E m \in 0 .. n : /\ MakeRoom(c, total) = PopTo(c, left[m])
                                    /\ Fits(left[m], total)
                                    /\ m > 0 => ~Fits(left[m - 1], total)
                BY <2>1, <2>2, <4>1, RoomMade
            <4> QED BY <1>1, <3>1, <4>2
        <3>2. CASE ~can_pop
            <4>1. room = c /\ Fits(left[0], total) /\ 0 \in 0 .. n
                BY <1>1, <1>6, <2>3, <3>2
            <4>2. PopTo(c, left[0]) = c
                <5>1. PICK u : u = c.buffer_used
                    OBVIOUS
                <5>2. PICK s \in 0 .. BufferSize - 1 : s = c.buffer_start
                    BY <2>1 DEF Ring
                <5>3. u \in Nat /\ s + (u - u) = s /\ ~(s >= BufferSize)
                    BY <2>1, <5>1 DEF Ring
                <5>4. PopTo(c, u) = [c EXCEPT !.buffer_start = s, !.buffer_used = u]
                    BY <5>1, <5>2, <5>3 DEF PopTo
                <5>5. [c EXCEPT !.buffer_start = s, !.buffer_used = u] = c
                    BY <2>1, <5>1, <5>2 DEF Ring
                <5> QED BY <2>3, <5>1, <5>4, <5>5
            <4> QED BY <3>2, <4>1, <4>2
        <3> QED BY <3>1, <3>2
    <2>5. PICK o, m, q, d, u, l : /\ o = LessOff(off, n, k) /\ m = LessNum(num, n, k) /\ q = n - k
                                  /\ d = off[k] /\ u = off[n] /\ l = left[k]
        OBVIOUS
    <2>6. /\ room \in Ring /\ room.seq_counter = c.seq_counter /\ room.buffer_used = l
          /\ Chain(room, q, o, m) /\ q \in Nat
          /\ ListOf(room, q, o, m) = [i \in 1 .. q |-> EntryOf(c, off, num, i + k)]
        <3>1. d \in 0 .. BufferSize /\ u \in 0 .. BufferSize /\ At(off, k, d) /\ At(off, n, u)
            BY <2>1, <2>3, <2>5 DEF Chain, At
        <3>2. c.buffer_used = u
            BY <2>1, <2>5 DEF Chain
        <3>3. l = u - d /\ l \in 0 .. BufferSize
            BY <2>3, <2>5, <3>2
        <3>4. room = PopTo(c, l)
            BY <2>4, <2>5
        <3>5. q \in Nat
            BY <2>3, <2>5
        <3> QED BY <2>1, <2>5, <3>1, <3>3, <3>4, <3>5, EntriesPopped
    <2>7. r = Header(room, size) /\ l + size + 6 <= BufferSize /\ l \in 0 .. BufferSize
        <3>1. Fits(l, total) /\ l \in 0 .. BufferSize
            BY <2>3, <2>4, <2>5
        <3> QED BY <1>2, <1>3, <1>6, <2>6, <3>1 DEF Fits
    <2>8. PICK e \in 0 .. BufferSize : e = l + size + 6
        BY <2>7
    <2>9. PICK o1, m1 : o1 = MoreOff(o, q, e) /\ m1 = MoreNum(m, q, room.seq_counter)
        OBVIOUS
    <2>10. /\ new \in Ring /\ r.ptr # NULL
           /\ new.seq_counter = room.seq_counter /\ r.lb.seq_counter = room.seq_counter
           /\ Chain(new, q + 1, o1, m1)
           /\ ListOf(new, q + 1, o1, m1)
                = [i \in 1 .. q + 1 |-> IF i <= q THEN EntryOf(room, o, m, i)
                                        ELSE [seq |-> room.seq_counter, data |-> bytes]]
        <3>1. l = o[q]
            BY <2>6 DEF Chain
        <3> QED BY <2>6, <2>7, <2>8, <2>9, <3>1, EntryPut
    <2>11. \A i \in 1 .. q : EntryOf(room, o, m, i) = EntryOf(lb, off, num, i + k)
        BY <2>1, <2>6 DEF ListOf
    <2>12. ListOf(new, q + 1, o1, m1)
             = [i \in 1 .. q + 1 |-> IF i <= q THEN EntryOf(lb, off, num, i + k)
                                     ELSE [seq |-> new.seq_counter, data |-> bytes]]
        <3>1. \A i \in 1 .. q + 1 : i <= q => i \in 1 .. q
            BY <2>6
        <3> QED BY <2>10, <2>11, <3>1
    <2>13. k > 0 => new.buffer_used + (off[k] - off[k - 1]) > BufferSize
        <3> SUFFICES ASSUME k > 0 PROVE new.buffer_used + (off[k] - off[k - 1]) > BufferSize
            OBVIOUS
        <3>1. k \in 1 .. n /\ k - 1 \in 0 .. n
            BY <2>3
        <3>2. PICK x : x = left[k - 1]
            OBVIOUS
        <3>3. off[k] - off[k - 1] = x - l /\ x \in 0 .. BufferSize
            BY <2>3, <2>5, <3>1, <3>2
        <3>4. new.buffer_used = e
            <4>1. new.buffer_used = o1[q + 1]
                BY <2>10 DEF Chain
            <4> QED BY <2>6, <2>9, <4>1 DEF MoreOff
        <3>5. ~(BufferSize - x >= total)
            BY <2>4, <3>2 DEF Fits
        <3> QED BY <1>2, <2>7, <2>8, <3>3, <3>4, <3>5
    <2>14. IsAdded(lb, n, off, num, bytes, new, k, o1, m1)
        BY <2>1, <2>5, <2>6, <2>10, <2>12, <2>13 DEF IsAdded
    <2> QED BY <2>1, <2>4, <2>6, <2>10, <2>14
<1> QED BY <1>4, <1>5, <1>6

\* pop_entry drops the first entry, if there is one.
LEMMA PopEntryIs ==
    ASSUME NEW lb \in Ring, NEW n, NEW off, NEW num, Chain(lb, n, off, num),
           NEW left, left = LeftOf(off, n)
    PROVE  /\ n = 0 => pop_entry(lb) = lb
           /\ n > 0 => pop_entry(lb) = PopTo(lb, left[1])
<1>1. /\ n \in Nat /\ left \in [0 .. n -> 0 .. BufferSize]
      /\ left[0] = lb.buffer_used /\ left[n] = 0
      /\ \A k \in 1 .. n : left[k] + 6 <= left[k - 1]
    BY LeftIn
<1>2. CASE n = 0
    BY <1>1, <1>2 DEF pop_entry
<1>3. CASE n > 0
    <2>1. 1 \in 1 .. n /\ 1 \in 0 .. n /\ 0 \in 0 .. n /\ 1 - 1 = 0
        BY <1>1, <1>3
    <2>2. OldestSize(lb, left[0]) = left[0] - left[1]
        BY <2>1, OldestLeft
    <2>3. left[0] \in Nat /\ left[1] \in Nat /\ left[1] + 6 <= left[0]
        BY <1>1, <2>1
    <2>4. left[0] - (left[0] - left[1]) = left[1] /\ left[0] # 0
        BY <2>3
    <2> QED BY <1>1, <1>3, <2>2, <2>4 DEF pop_entry
<1> QED BY <1>1, <1>2, <1>3

-----------------------------------------------------------------------------
(* Walking through the ring *)

\* The walk of Entries as a function of what is left.
FromEntry(lb, left) ==
    LET p    == lb.buffer_start + lb.buffer_used - left
        size == get_field(lb, p)
    IN  [stop |-> left = 0 \/ size = Garbage \/ TotalSize(size) > left,
         val  |-> IF left = 0 THEN << >>
                  ELSE IF size = Garbage \/ TotalSize(size) > left
                  THEN << [seq |-> Garbage, data |-> << >>] >>
                  ELSE [seq  |-> get_field(lb, After(p, FieldLen)),
                        data |-> get_bytes(lb, After(p, 2 * FieldLen), size)],
         next |-> left - TotalSize(size)]
FromBody(lb, from, left) ==
    LET p     == lb.buffer_start + lb.buffer_used - left
        size  == get_field(lb, p)
        seq   == get_field(lb, After(p, FieldLen))
        data  == get_bytes(lb, After(p, 2 * FieldLen), size)
    IN  IF left = 0 THEN << >>
        ELSE IF size = Garbage \/ TotalSize(size) > left
             THEN << [seq |-> Garbage, data |-> << >>] >>
        ELSE << [seq |-> seq, data |-> data] >>
             \o from[left - TotalSize(size)]
From(lb) ==
    LET from[left \in 0 .. lb.buffer_used] ==
            LET p     == lb.buffer_start + lb.buffer_used - left
                size  == get_field(lb, p)
                seq   == get_field(lb, After(p, FieldLen))
                data  == get_bytes(lb, After(p, 2 * FieldLen), size)
            IN  IF left = 0 THEN << >>
                ELSE IF size = Garbage \/ TotalSize(size) > left
                     THEN << [seq |-> Garbage, data |-> << >>] >>
                ELSE << [seq |-> seq, data |-> data] >>
                     \o from[left - TotalSize(size)]
    IN  from
\* The walk of Entries ends, for each turn passes an entry.
LEMMA FromIs ==
    ASSUME NEW lb \in Ring
    PROVE  /\ Entries(lb) = From(lb)[lb.buffer_used]
           /\ From(lb) = [left \in 0 .. lb.buffer_used |->
                             IF FromEntry(lb, left).stop THEN FromEntry(lb, left).val
                             ELSE << FromEntry(lb, left).val >> \o From(lb)[FromEntry(lb, left).next]]
<1>1. PICK S, stop, val, next, rank :
         /\ S = 0 .. lb.buffer_used
         /\ stop = [left \in S |-> FromEntry(lb, left).stop]
         /\ val = [left \in S |-> FromEntry(lb, left).val]
         /\ next = [left \in S |-> FromEntry(lb, left).next]
         /\ rank = [left \in S |-> left]
    OBVIOUS
<1>2. lb.buffer_used \in Nat /\ lb.buffer_start \in Int
    BY DEF Ring
<1>3. Descends(S, stop, next, rank, lb.buffer_used)
    <2>1. rank \in [S -> 0 .. lb.buffer_used]
        BY <1>1
    <2>2. ASSUME NEW x \in S, ~stop[x] PROVE next[x] \in S /\ rank[next[x]] < rank[x]
        <3>1. PICK size : size = get_field(lb, lb.buffer_start + lb.buffer_used - x)
            OBVIOUS
        <3>2. size \in Nat \cup {-1}
            <4>1. PICK p \in Int : p = lb.buffer_start + lb.buffer_used - x
                BY <1>1, <1>2
            <4> QED BY <3>1, <4>1, FieldIn
        <3>3. /\ ~(TotalSize(size) > x) /\ size # Garbage
              /\ next[x] = x - TotalSize(size)
            BY <1>1, <2>2, <3>1 DEF FromEntry
        <3>4. size \in Nat /\ TotalSize(size) = size + 6
            BY <3>2, <3>3 DEF Garbage, TotalSize, FieldLen
        <3> QED BY <1>1, <1>2, <3>3, <3>4
    <2> QED BY <1>2, <2>1, <2>2 DEF Descends
<1>4. PICK f : Collects(f, S, stop, val, next)
    BY <1>3, CollectExists
<1>5. f = [left \in 0 .. lb.buffer_used |->
              IF FromEntry(lb, left).stop THEN FromEntry(lb, left).val
              ELSE << FromEntry(lb, left).val >> \o f[FromEntry(lb, left).next]]
    <2>1. f = [left \in S |-> IF stop[left] THEN val[left] ELSE << val[left] >> \o f[next[left]]]
        BY <1>4, Zenon DEF Collects
    <2>2. \A left \in S : (IF stop[left] THEN val[left] ELSE << val[left] >> \o f[next[left]])
             = IF FromEntry(lb, left).stop THEN FromEntry(lb, left).val
               ELSE << FromEntry(lb, left).val >> \o f[FromEntry(lb, left).next]
        BY <1>1, Zenon
    <2> QED BY <1>1, <2>1, <2>2, Zenon
<1>6. ASSUME NEW g, NEW left \in 0 .. lb.buffer_used
      PROVE  (IF FromEntry(lb, left).stop THEN FromEntry(lb, left).val
              ELSE << FromEntry(lb, left).val >> \o g[FromEntry(lb, left).next])
             = FromBody(lb, g, left)
    BY DEF FromEntry, FromBody
<1>7. \E g : g = [left \in 0 .. lb.buffer_used |-> FromBody(lb, g, left)]
    <2>1. f = [left \in 0 .. lb.buffer_used |-> FromBody(lb, f, left)]
        BY <1>5, <1>6
    <2> QED BY <2>1
<1>8. From(lb) = [left \in 0 .. lb.buffer_used |-> FromBody(lb, From(lb), left)]
    BY <1>7, Zenon DEF From, FromBody
<1>9. From(lb) = [left \in 0 .. lb.buffer_used |->
                     IF FromEntry(lb, left).stop THEN FromEntry(lb, left).val
                     ELSE << FromEntry(lb, left).val >> \o From(lb)[FromEntry(lb, left).next]]
    BY <1>6, <1>8
<1>10. Entries(lb) = From(lb)[lb.buffer_used]
    BY DEF Entries, From
<1> QED BY <1>9, <1>10

\* A sequence with one more element in front.
LEMMA InFront ==
    ASSUME NEW x, NEW n \in Nat, NEW s, s = [i \in 1 .. n |-> s[i]], NEW t, t = << x >> \o s
    PROVE  t = [i \in 1 .. n + 1 |-> IF i = 1 THEN x ELSE s[i - 1]]
<1>1. PICK S : S = {x} \cup {s[i] : i \in 1 .. n}
    OBVIOUS
<1>2. s \in [1 .. n -> S]
    BY <1>1
<1>3. s \in Seq(S) /\ Len(s) = n
    BY <1>2
<1>4. << x >> \in Seq(S) /\ Len(<< x >>) = 1 /\ << x >>[1] = x
    BY <1>1
<1>5. PICK y : y = << x >>
    OBVIOUS
<1>6. /\ t \in Seq(S) /\ Len(t) = Len(y) + Len(s)
      /\ \A i \in 1 .. Len(y) + Len(s) : t[i] = IF i <= Len(y) THEN y[i] ELSE s[i - Len(y)]
    BY <1>3, <1>4, <1>5, ConcatProperties
<1>7. Len(t) = n + 1 /\ \A i \in 1 .. n + 1 : t[i] = IF i = 1 THEN x ELSE s[i - 1]
    BY <1>3, <1>4, <1>5, <1>6
<1> QED BY <1>6, <1>7

\* Entries shows the entries of the chain.
LEMMA EntriesAre ==
    ASSUME NEW lb \in Ring, NEW n, NEW off, NEW num, Chain(lb, n, off, num)
    PROVE  Entries(lb) = ListOf(lb, n, off, num)
<1>1. PICK left, f : left = LeftOf(off, n) /\ f = From(lb)
    OBVIOUS
<1>2. /\ n \in Nat /\ left \in [0 .. n -> 0 .. BufferSize]
      /\ left[0] = lb.buffer_used /\ left[n] = 0
      /\ \A k \in 1 .. n : /\ left[k] + 6 <= left[k - 1]
                           /\ left[k - 1] - left[k] = off[k] - off[k - 1]
      /\ \A k \in 0 .. n : left[k] = lb.buffer_used - off[k] /\ left[k] <= lb.buffer_used
    BY <1>1, LeftIn
<1>3. lb.buffer_used \in Nat /\ lb.buffer_start \in Int
    BY DEF Ring
<1>4. \A x \in 0 .. lb.buffer_used :
         f[x] = IF FromEntry(lb, x).stop THEN FromEntry(lb, x).val
                ELSE << FromEntry(lb, x).val >> \o f[FromEntry(lb, x).next]
    <2>1. f = [x \in 0 .. lb.buffer_used |->
                 IF FromEntry(lb, x).stop THEN FromEntry(lb, x).val
                 ELSE << FromEntry(lb, x).val >> \o f[FromEntry(lb, x).next]]
        BY <1>1, FromIs, Zenon
    <2> QED BY <2>1, Zenon
<1>5. f[left[n]] = << >>
    <2>1. 0 \in 0 .. lb.buffer_used
        BY <1>3
    <2>2. FromEntry(lb, 0).stop /\ FromEntry(lb, 0).val = << >>
        BY Zenon DEF FromEntry
    <2> QED BY <1>2, <1>4, <2>1, <2>2, Zenon
<1>6. ASSUME NEW k \in 1 .. n
      PROVE  f[left[k - 1]] = << EntryOf(lb, off, num, k) >> \o f[left[k]]
    <2>1. k \in 0 .. n /\ k - 1 \in 0 .. n
        BY <1>2
    <2>2. PICK a, b, x, y : a = off[k - 1] /\ b = off[k] /\ x = left[k - 1] /\ y = left[k]
        OBVIOUS
    <2>3. a \in 0 .. BufferSize /\ b \in 0 .. BufferSize /\ At(off, k - 1, a) /\ At(off, k, b)
        BY <2>2, ChainBounds DEF At
    <2>4. /\ x \in 0 .. lb.buffer_used /\ y \in 0 .. BufferSize /\ y + 6 <= x /\ x - y = b - a
          /\ lb.buffer_used - x = a
        <3>1. PICK u \in Nat : u = lb.buffer_used
            BY <1>3
        <3>2. /\ x = u - a /\ x <= u /\ y \in 0 .. BufferSize /\ x \in 0 .. BufferSize
              /\ y + 6 <= x /\ x - y = b - a
            BY <1>2, <2>1, <2>2, <3>1
        <3> QED BY <2>3, <3>1, <3>2
    <2>5. PICK p : p = lb.buffer_start + lb.buffer_used - x
        OBVIOUS
    <2>6. p = lb.buffer_start + a
        BY <1>3, <2>4, <2>5
    <2>7. Points(lb, p, a)
        BY <2>3, <2>6, StartPoints
    <2>8. PICK size : size = get_field(lb, p)
        OBVIOUS
    <2>9. /\ size = b - a - 6 /\ TotalSize(size) = b - a /\ a + 6 <= b
          /\ get_field(lb, After(p, FieldLen)) = num[k]
          /\ get_bytes(lb, After(p, 2 * FieldLen), size) = Data(lb, a, b)
        BY <2>3, <2>7, <2>8, ChainRead
    <2>10. x # 0 /\ size # Garbage /\ ~(TotalSize(size) > x) /\ x - TotalSize(size) = y
        BY <1>3, <2>3, <2>4, <2>9 DEF Garbage
    <2>11. PICK fe : fe = FromEntry(lb, x)
        OBVIOUS
    <2>12. ~fe.stop /\ fe.next = y /\ fe.val = EntryOf(lb, off, num, k)
        BY <2>2, <2>5, <2>8, <2>9, <2>10, <2>11 DEF FromEntry, EntryOf
    <2>13. f[x] = IF fe.stop THEN fe.val ELSE << fe.val >> \o f[fe.next]
        BY <1>4, <2>4, <2>11, Zenon
    <2> QED BY <2>2, <2>12, <2>13, Zenon
<1>7. PICK G : G = {j \in Nat : j <= n => f[left[n - j]] = [i \in 1 .. j |-> EntryOf(lb, off, num, n - j + i)]}
    OBVIOUS
<1>8. 0 \in G
    <2>1. n - 0 = n
        BY <1>2
    <2>2. << >> = [i \in 1 .. 0 |-> EntryOf(lb, off, num, n - 0 + i)]
        OBVIOUS
    <2> QED BY <1>5, <1>7, <2>1, <2>2
<1>9. ASSUME NEW j \in G PROVE j + 1 \in G
    <2>1. j \in Nat /\ (j <= n => f[left[n - j]] = [i \in 1 .. j |-> EntryOf(lb, off, num, n - j + i)])
        BY <1>7
    <2>2. CASE ~(j + 1 <= n)
        BY <1>7, <2>1, <2>2
    <2>3. CASE j + 1 <= n
        <3>1. PICK k \in 1 .. n : k = n - j
            BY <1>2, <2>1, <2>3
        <3>2. j <= n /\ n - (j + 1) = k - 1
            <4>1. n \in Nat
                BY <1>2
            <4> QED BY <2>1, <2>3, <3>1, <4>1
        <3>3. PICK s, t : s = f[left[k]] /\ t = f[left[k - 1]]
            OBVIOUS
        <3>4. t = << EntryOf(lb, off, num, k) >> \o s
            BY <1>6, <3>3
        <3>5. s = [i \in 1 .. j |-> EntryOf(lb, off, num, k + i)]
            BY <2>1, <3>1, <3>2, <3>3
        <3>6. s = [i \in 1 .. j |-> s[i]]
            BY <3>5
        <3>7. t = [i \in 1 .. j + 1 |-> IF i = 1 THEN EntryOf(lb, off, num, k) ELSE s[i - 1]]
            BY <2>1, <3>4, <3>6, InFront
        <3>8. ASSUME NEW i \in 1 .. j + 1
              PROVE  (IF i = 1 THEN EntryOf(lb, off, num, k) ELSE s[i - 1])
                       = EntryOf(lb, off, num, n - (j + 1) + i)
            <4>1. CASE i = 1
                <5>1. n - (j + 1) + i = k
                    BY <1>2, <2>1, <3>1, <4>1
                <5> QED BY <4>1, <5>1
            <4>2. CASE i # 1
                <5>1. i - 1 \in 1 .. j /\ n - (j + 1) + i = k + (i - 1)
                    BY <1>2, <2>1, <3>1, <4>2
                <5> QED BY <3>5, <4>2, <5>1
            <4> QED BY <4>1, <4>2
        <3>9. t = [i \in 1 .. j + 1 |-> EntryOf(lb, off, num, n - (j + 1) + i)]
            BY <3>7, <3>8
        <3>10. f[left[n - (j + 1)]] = [i \in 1 .. j + 1 |-> EntryOf(lb, off, num, n - (j + 1) + i)]
            BY <3>2, <3>3, <3>9
        <3> QED BY <1>7, <2>1, <3>10
    <2> QED BY <2>2, <2>3
<1>10. n \in G
    <2>1. G \in SUBSET Nat
        BY <1>7
    <2> QED BY <1>2, <1>8, <1>9, <2>1, NatInd
<1>11. f[left[0]] = [i \in 1 .. n |-> EntryOf(lb, off, num, i)]
    <2>1. f[left[n - n]] = [i \in 1 .. n |-> EntryOf(lb, off, num, n - n + i)]
        BY <1>2, <1>7, <1>10
    <2>2. n - n = 0 /\ \A i \in 1 .. n : n - n + i = i
        BY <1>2
    <2> QED BY <2>1, <2>2
<1> QED BY <1>1, <1>2, <1>11, FromIs DEF ListOf

\* The walk of get_next as a function of what is left before it.
BackTotal(lb, left) == TotalSize(get_field(lb, lb.buffer_start + left - FieldLen))
BackPtr(lb, left) ==
    After(lb.buffer_start + left - FieldLen, FieldLen) - BackTotal(lb, left)
BackNum(lb, left) == get_field(lb, BackPtr(lb, left) + FieldLen)
WalkStop(lb, seq_number, left) ==
    \/ left = 0
    \/ (BackNum(lb, left) = seq_number /\ left = lb.buffer_used)
    \/ BackNum(lb, left) = (seq_number + 1) % SeqMod \/ BackTotal(lb, left) > left
WalkVal(lb, seq_number, left) ==
    IF left = 0 THEN IF lb.buffer_used # 0 THEN lb.buffer_start ELSE NULL
    ELSE IF BackNum(lb, left) = seq_number /\ left = lb.buffer_used THEN NULL
    ELSE IF BackNum(lb, left) = (seq_number + 1) % SeqMod THEN BackPtr(lb, left)
    ELSE NULL
WalkBody(lb, seq_number, walk, left) ==
    LET total == TotalSize(get_field(lb, lb.buffer_start + left - FieldLen))
        rp    == After(lb.buffer_start + left - FieldLen, FieldLen) - total
        cur   == get_field(lb, rp + FieldLen)
    IN  IF left = 0
        THEN IF lb.buffer_used # 0 THEN lb.buffer_start ELSE NULL
        ELSE IF cur = seq_number /\ left = lb.buffer_used THEN NULL
        ELSE IF cur = (seq_number + 1) % SeqMod THEN rp
        ELSE IF total > left THEN NULL
        ELSE walk[left - total]
Walk(lb, seq_number) ==
    LET walk[left \in 0 .. lb.buffer_used] ==
            LET total == TotalSize(get_field(lb, lb.buffer_start + left - FieldLen))
                rp    == After(lb.buffer_start + left - FieldLen, FieldLen) - total
                cur   == get_field(lb, rp + FieldLen)
            IN  IF left = 0
                THEN IF lb.buffer_used # 0 THEN lb.buffer_start ELSE NULL
                ELSE IF cur = seq_number /\ left = lb.buffer_used THEN NULL
                ELSE IF cur = (seq_number + 1) % SeqMod THEN rp
                ELSE IF total > left THEN NULL
                ELSE walk[left - total]
    IN  walk
\* The walk of get_next ends, for each turn passes an entry.
LEMMA WalkIs ==
    ASSUME NEW lb \in Ring, NEW seq_number
    PROVE  /\ get_next(lb, seq_number) = Walk(lb, seq_number)[lb.buffer_used]
           /\ Walk(lb, seq_number) = [left \in 0 .. lb.buffer_used |->
                 IF WalkStop(lb, seq_number, left) THEN WalkVal(lb, seq_number, left)
                 ELSE Walk(lb, seq_number)[left - BackTotal(lb, left)]]
<1>1. PICK S, stop, val, next, rank :
         /\ S = 0 .. lb.buffer_used
         /\ stop = [left \in S |-> WalkStop(lb, seq_number, left)]
         /\ val = [left \in S |-> WalkVal(lb, seq_number, left)]
         /\ next = [left \in S |-> left - BackTotal(lb, left)]
         /\ rank = [left \in S |-> left]
    OBVIOUS
<1>2. lb.buffer_used \in Nat /\ lb.buffer_start \in Int
    BY DEF Ring
<1>3. Descends(S, stop, next, rank, lb.buffer_used)
    <2>1. rank \in [S -> 0 .. lb.buffer_used]
        BY <1>1
    <2>2. ASSUME NEW x \in S, ~stop[x] PROVE next[x] \in S /\ rank[next[x]] < rank[x]
        <3>1. PICK p \in Int : p = lb.buffer_start + x - FieldLen
            BY <1>1, <1>2 DEF FieldLen
        <3>2. get_field(lb, p) \in Nat \cup {-1}
            BY FieldIn
        <3>3. PICK t \in Int : t = BackTotal(lb, x) /\ t >= 5
            BY <3>1, <3>2 DEF BackTotal, TotalSize, FieldLen
        <3>4. ~(t > x) /\ next[x] = x - t
            BY <1>1, <2>2, <3>3 DEF WalkStop
        <3> QED BY <1>1, <1>2, <3>3, <3>4
    <2> QED BY <1>2, <2>1, <2>2 DEF Descends
<1>4. PICK f : Walks(f, S, stop, val, next)
    BY <1>3, WalkExists
<1>5. f = [left \in 0 .. lb.buffer_used |->
              IF WalkStop(lb, seq_number, left) THEN WalkVal(lb, seq_number, left)
              ELSE f[left - BackTotal(lb, left)]]
    <2>1. f = [left \in S |-> IF stop[left] THEN val[left] ELSE f[next[left]]]
        BY <1>4 DEF Walks
    <2>2. \A left \in S : (IF stop[left] THEN val[left] ELSE f[next[left]])
             = IF WalkStop(lb, seq_number, left) THEN WalkVal(lb, seq_number, left)
               ELSE f[left - BackTotal(lb, left)]
        BY <1>1
    <2> QED BY <1>1, <2>1, <2>2
<1>6. ASSUME NEW g, NEW left \in 0 .. lb.buffer_used
      PROVE  (IF WalkStop(lb, seq_number, left) THEN WalkVal(lb, seq_number, left)
              ELSE g[left - BackTotal(lb, left)])
             = WalkBody(lb, seq_number, g, left)
    <2>1. PICK t, r, c : t = BackTotal(lb, left) /\ r = BackPtr(lb, left) /\ c = BackNum(lb, left)
        OBVIOUS
    <2>2. WalkBody(lb, seq_number, g, left)
            = IF left = 0 THEN IF lb.buffer_used # 0 THEN lb.buffer_start ELSE NULL
              ELSE IF c = seq_number /\ left = lb.buffer_used THEN NULL
              ELSE IF c = (seq_number + 1) % SeqMod THEN r
              ELSE IF t > left THEN NULL ELSE g[left - t]
        BY <2>1, Zenon DEF WalkBody, BackTotal, BackPtr, BackNum
    <2>3. /\ WalkStop(lb, seq_number, left) <=>
                left = 0 \/ (c = seq_number /\ left = lb.buffer_used) \/ c = (seq_number + 1) % SeqMod \/ t > left
          /\ WalkVal(lb, seq_number, left)
                = IF left = 0 THEN IF lb.buffer_used # 0 THEN lb.buffer_start ELSE NULL
                  ELSE IF c = seq_number /\ left = lb.buffer_used THEN NULL
                  ELSE IF c = (seq_number + 1) % SeqMod THEN r ELSE NULL
        BY <2>1, Zenon DEF WalkStop, WalkVal
    <2>4. CASE left = 0
        BY <2>2, <2>3, <2>4
    <2>5. CASE left # 0 /\ c = seq_number /\ left = lb.buffer_used
        BY <2>2, <2>3, <2>5, Zenon
    <2>6. CASE left # 0 /\ ~(c = seq_number /\ left = lb.buffer_used) /\ c = (seq_number + 1) % SeqMod
        BY <2>2, <2>3, <2>6, Zenon
    <2>7. CASE left # 0 /\ ~(c = seq_number /\ left = lb.buffer_used) /\ c # (seq_number + 1) % SeqMod
        <3>1. CASE t > left
            BY <2>2, <2>3, <2>7, <3>1, Zenon
        <3>2. CASE ~(t > left)
            BY <2>1, <2>2, <2>3, <2>7, <3>2, Zenon
        <3> QED BY <3>1, <3>2
    <2> QED BY <2>4, <2>5, <2>6, <2>7
<1>7. \E g : g = [left \in 0 .. lb.buffer_used |-> WalkBody(lb, seq_number, g, left)]
    <2>1. f = [left \in 0 .. lb.buffer_used |-> WalkBody(lb, seq_number, f, left)]
        BY <1>5, <1>6
    <2> QED BY <2>1
<1>8. Walk(lb, seq_number)
        = [left \in 0 .. lb.buffer_used |-> WalkBody(lb, seq_number, Walk(lb, seq_number), left)]
    BY <1>7, Zenon DEF Walk, WalkBody
<1>9. get_next(lb, seq_number) = Walk(lb, seq_number)[lb.buffer_used]
    BY DEF get_next, Walk
<1> QED BY <1>6, <1>8, <1>9

\* What the walk finds before the end of the i-th entry.
LEMMA BackRead ==
    ASSUME NEW lb \in Ring, NEW n, NEW off, NEW num, Chain(lb, n, off, num), NEW i \in 1 .. n,
           NEW a \in 0 .. BufferSize, At(off, i - 1, a), NEW b \in 0 .. BufferSize, At(off, i, b)
    PROVE  /\ a + 6 <= b /\ BackTotal(lb, b) = b - a /\ Points(lb, BackPtr(lb, b), a)
           /\ BackNum(lb, b) = num[i]
<1>1. PICK p, s : p = lb.buffer_start + a /\ s = lb.buffer_start
    OBVIOUS
<1>2. Points(lb, p, a) /\ s \in 0 .. BufferSize - 1
    BY <1>1, StartPoints DEF Ring
<1>3. a + 6 <= b /\ BackTotal(lb, b) = b - a
    BY <1>2, ChainRead DEF BackTotal
<1>4. PICK q, j : q = lb.buffer_start + b - FieldLen /\ j = b - 2
    OBVIOUS
<1>5. Points(lb, q, j) /\ j \in 0 .. BufferSize /\ j + 2 = b
    <2>1. j \in 0 .. BufferSize /\ q = lb.buffer_start + j /\ j + 2 = b
        BY <1>1, <1>2, <1>3, <1>4 DEF FieldLen
    <2> QED BY <2>1, StartPoints
<1>6. PICK e : e = After(q, 2)
    OBVIOUS
<1>7. Points(lb, e, b) /\ e \in 1 .. BufferSize
    <2>1. j + 2 <= BufferSize
        BY <1>5
    <2>2. Points(lb, e, j + 2) /\ e \in 1 .. BufferSize
        BY <1>5, <1>6, <2>1, AfterPoints
    <2> QED BY <1>5, <2>2
<1>8. PICK r, d \in Int : d = a - b /\ r = e + d
    BY <1>7
<1>9. BackPtr(lb, b) = r
    BY <1>3, <1>4, <1>6, <1>7, <1>8 DEF BackPtr, FieldLen
<1>10. r \in Pointers /\ b + d = a /\ r + 2 \in Pointers
    BY <1>3, <1>7, <1>8 DEF Pointers
<1>11. Points(lb, r, a)
    BY <1>7, <1>8, <1>10, Moves
<1>12. PICK v : v = num[i]
    OBVIOUS
<1>13. Holds(lb, a + 2, v)
    <2>1. EntryAt(lb, off[i - 1], off[i], num[i])
        BY DEF Chain
    <2> QED BY <1>12, <2>1 DEF EntryAt, At, FieldLen
<1>14. get_field(lb, r + 2) = v
    <2>1. PICK h : h = a + 2
        OBVIOUS
    <2>2. h \in 0 .. BufferSize /\ h + FieldLen <= BufferSize
        BY <1>3, <2>1 DEF FieldLen
    <2>3. Points(lb, r + 2, h)
        <3>1. PICK c \in Int : c = 2
            OBVIOUS
        <3>2. a + c \in 0 .. BufferSize /\ r + c \in Pointers
            BY <1>10, <2>1, <2>2, <3>1
        <3>3. Points(lb, r + c, a + c)
            BY <1>11, <3>2, Moves
        <3> QED BY <2>1, <3>1, <3>3
    <2> QED BY <1>13, <2>1, <2>2, <2>3, GetField
<1> QED BY <1>3, <1>9, <1>11, <1>12, <1>14 DEF BackNum, FieldLen

\* get_next returns nothing if the number is the newest, else the newest entry
\* with the next number, else the oldest entry.
NextPlace(n, num, nx, i) ==
    \/ i \in 1 .. n /\ num[i] = nx /\ \A j \in i + 1 .. n : num[j] # nx
    \/ i = 1 /\ \A j \in 1 .. n : num[j] # nx
\* Where get_next leads, wherever the buffer ends.
LEMMA GetNext ==
    ASSUME NEW lb \in Ring, NEW n, NEW off, NEW num, Chain(lb, n, off, num),
           NEW seq_number, NEW nx, nx = (seq_number + 1) % SeqMod,
           NEW p, p = get_next(lb, seq_number)
    PROVE  /\ n = 0 \/ num[n] = seq_number => p = NULL
           /\ ~(n = 0 \/ num[n] = seq_number) =>
                 p # NULL /\ \E i \in 1 .. n : Points(lb, p, off[i - 1]) /\ NextPlace(n, num, nx, i)
<1>1. PICK f : f = Walk(lb, seq_number)
    OBVIOUS
<1>2. \A x \in 0 .. lb.buffer_used :
         f[x] = IF WalkStop(lb, seq_number, x) THEN WalkVal(lb, seq_number, x)
                ELSE f[x - BackTotal(lb, x)]
    <2>1. f = [x \in 0 .. lb.buffer_used |->
                 IF WalkStop(lb, seq_number, x) THEN WalkVal(lb, seq_number, x)
                 ELSE f[x - BackTotal(lb, x)]]
        BY <1>1, WalkIs
    <2> QED BY <2>1
<1>3. PICK u \in 0 .. BufferSize : u = lb.buffer_used
    BY DEF Ring
<1>4. n \in Nat /\ off[0] = 0 /\ off[n] = u /\ p = f[u]
    BY <1>1, <1>3, WalkIs DEF Chain
<1>5. ASSUME NEW i \in 1 .. n
      PROVE  /\ off[i] \in 1 .. u /\ off[i] <= u /\ (off[i] = u <=> i = n)
             /\ BackNum(lb, off[i]) = num[i] /\ BackTotal(lb, off[i]) = off[i] - off[i - 1]
             /\ Points(lb, BackPtr(lb, off[i]), off[i - 1])
             /\ ~(BackTotal(lb, off[i]) > off[i])
             /\ off[i] - BackTotal(lb, off[i]) = off[i - 1]
    <2>1. PICK a, b : a = off[i - 1] /\ b = off[i]
        OBVIOUS
    <2>2. a \in 0 .. BufferSize /\ b \in 0 .. BufferSize /\ At(off, i - 1, a) /\ At(off, i, b)
        BY <2>1, ChainBounds DEF At
    <2>3. /\ a + 6 <= b /\ BackTotal(lb, b) = b - a /\ Points(lb, BackPtr(lb, b), a)
          /\ BackNum(lb, b) = num[i]
        BY <2>2, BackRead
    <2>4. b <= u
        BY <1>4, <2>1, ChainBounds
    <2>5. b = u <=> i = n
        <3>1. i \in 0 .. n /\ n \in 0 .. n /\ (i = n \/ i < n)
            BY <1>4
        <3>2. i < n => b + 6 <= u
            BY <1>4, <2>1, <3>1 DEF Chain
        <3>3. i = n => b = u
            BY <1>4, <2>1
        <3> QED BY <1>4, <2>2, <3>1, <3>2, <3>3
    <2>6. b \in 1 .. u /\ ~(b - a > b) /\ b - (b - a) = a
        BY <2>2, <2>3, <2>4
    <2> QED BY <2>1, <2>3, <2>4, <2>5, <2>6
<1>6. CASE n = 0
    <2>1. u = 0
        BY <1>4, <1>6
    <2>2. WalkStop(lb, seq_number, u) /\ WalkVal(lb, seq_number, u) = NULL
        BY <1>3, <2>1 DEF WalkStop, WalkVal
    <2> QED BY <1>2, <1>3, <1>4, <1>6, <2>2
<1>7. CASE n # 0 /\ num[n] = seq_number
    <2>1. n \in 1 .. n
        BY <1>4, <1>7
    <2>2. u \in 1 .. u /\ BackNum(lb, u) = seq_number
        BY <1>4, <1>5, <1>7, <2>1
    <2>3. WalkStop(lb, seq_number, u) /\ WalkVal(lb, seq_number, u) = NULL
        BY <1>3, <2>2 DEF WalkStop, WalkVal
    <2> QED BY <1>2, <1>3, <1>4, <1>7, <2>3
<1>8. CASE n # 0 /\ num[n] # seq_number
    <2>1. n \in 1 .. n /\ 1 \in 1 .. n
        BY <1>4, <1>8
    <2> DEFINE Found(j) == \E i \in 1 .. n : Points(lb, f[off[j]], off[i - 1]) /\ NextPlace(j, num, nx, i)
    <2>2. PICK G : G = {j \in Nat : j <= n => Found(j)}
        OBVIOUS
    <2>3. 0 \in G
        <3>1. u \in 1 .. u
            BY <1>4, <1>5, <2>1
        <3>2. WalkStop(lb, seq_number, 0) /\ WalkVal(lb, seq_number, 0) = lb.buffer_start
            <4>1. lb.buffer_used # 0
                BY <1>3, <3>1
            <4> QED BY <4>1 DEF WalkStop, WalkVal
        <3>3. f[off[0]] = lb.buffer_start
            BY <1>2, <1>3, <1>4, <3>2
        <3>4. Points(lb, lb.buffer_start, 0)
            <4>1. lb.buffer_start \in Nat /\ lb.buffer_start + 0 = lb.buffer_start /\ 0 \in 0 .. BufferSize
                BY DEF Ring
            <4> QED BY <4>1, StartPoints
        <3>5. off[1 - 1] = 0 /\ NextPlace(0, num, nx, 1)
            BY <1>4 DEF NextPlace
        <3>6. Found(0)
            BY <2>1, <3>3, <3>4, <3>5
        <3> QED BY <2>2, <3>6
    <2>4. ASSUME NEW j \in G PROVE j + 1 \in G
        <3>1. j \in Nat /\ (j <= n => Found(j))
            BY <2>2
        <3>2. CASE ~(j + 1 <= n)
            BY <2>2, <3>1, <3>2
        <3>3. CASE j + 1 <= n
            <4>1. PICK k \in 1 .. n : k = j + 1
                BY <1>4, <3>1, <3>3
            <4>2. k - 1 = j /\ j <= n /\ Found(j)
                BY <1>4, <3>1, <3>3, <4>1
            <4>3. /\ off[k] \in 1 .. u /\ (off[k] = u <=> k = n) /\ BackNum(lb, off[k]) = num[k]
                  /\ Points(lb, BackPtr(lb, off[k]), off[k - 1]) /\ ~(BackTotal(lb, off[k]) > off[k])
                  /\ off[k] - BackTotal(lb, off[k]) = off[j]
                BY <1>5, <4>2
            <4>4. off[k] \in 0 .. lb.buffer_used /\ off[k] # 0
                BY <1>3, <4>3
            <4>5. ~(BackNum(lb, off[k]) = seq_number /\ off[k] = lb.buffer_used)
                BY <1>3, <1>8, <4>3
            <4>6. CASE num[k] = nx
                <5>1. WalkStop(lb, seq_number, off[k])
                    BY <4>3, <4>6 DEF WalkStop
                <5>2. WalkVal(lb, seq_number, off[k]) = BackPtr(lb, off[k])
                    BY <4>3, <4>4, <4>5, <4>6 DEF WalkVal
                <5>3. f[off[k]] = BackPtr(lb, off[k])
                    BY <1>2, <4>4, <5>1, <5>2
                <5>4. NextPlace(k, num, nx, k)
                    BY <4>6 DEF NextPlace
                <5>5. Found(k)
                    BY <4>3, <5>3, <5>4
                <5> QED BY <2>2, <3>1, <4>1, <5>5
            <4>7. CASE num[k] # nx
                <5>1. ~WalkStop(lb, seq_number, off[k])
                    BY <4>3, <4>4, <4>5, <4>7 DEF WalkStop
                <5>2. f[off[k]] = f[off[j]]
                    BY <1>2, <4>3, <4>4, <5>1
                <5>3. PICK i \in 1 .. n : Points(lb, f[off[j]], off[i - 1]) /\ NextPlace(j, num, nx, i)
                    BY <4>2
                <5>4. NextPlace(k, num, nx, i)
                    <6>1. \A x \in 1 .. k : x \in 1 .. j \/ x = k
                        BY <3>1, <4>1
                    <6>2. CASE i \in 1 .. j /\ num[i] = nx /\ \A x \in i + 1 .. j : num[x] # nx
                        BY <3>1, <4>1, <4>7, <6>2 DEF NextPlace
                    <6>3. CASE i = 1 /\ \A x \in 1 .. j : num[x] # nx
                        BY <4>7, <6>1, <6>3 DEF NextPlace
                    <6> QED BY <5>3, <6>2, <6>3 DEF NextPlace
                <5>5. Found(k)
                    BY <5>2, <5>3, <5>4
                <5> QED BY <2>2, <3>1, <4>1, <5>5
            <4> QED BY <4>6, <4>7
        <3> QED BY <3>2, <3>3
    <2>5. n \in G
        <3>1. G \in SUBSET Nat
            BY <2>2
        <3> HIDE DEF Found
        <3> QED BY <1>4, <2>3, <2>4, <3>1, NatInd
    <2>6. PICK i \in 1 .. n : Points(lb, f[off[n]], off[i - 1]) /\ NextPlace(n, num, nx, i)
        BY <1>4, <2>2, <2>5
    <2>7. Points(lb, p, off[i - 1])
        BY <1>4, <2>6
    <2>8. p # NULL
        BY <2>7 DEF Points, Pointers, NULL
    <2> QED BY <1>8, <2>6, <2>7, <2>8
<1> QED BY <1>6, <1>7, <1>8

-----------------------------------------------------------------------------
(* The room that entries take *)

\* The entries as a sequence.
LEMMA ListIs ==
    ASSUME NEW lb \in Ring, NEW n, NEW off, NEW num, Chain(lb, n, off, num),
           NEW s, s = ListOf(lb, n, off, num)
    PROVE  /\ n \in Nat /\ Len(s) = n /\ DOMAIN s = 1 .. n /\ s = [i \in 1 .. n |-> s[i]]
           /\ \A i \in 1 .. n : /\ s[i].seq = num[i] /\ s[i].data = Data(lb, off[i - 1], off[i])
                                /\ Len(s[i].data) = off[i] - off[i - 1] - 6
                                /\ s[i] = EntryOf(lb, off, num, i)
<1>1. n \in Nat /\ s = [i \in 1 .. n |-> EntryOf(lb, off, num, i)]
    BY DEF ListOf, Chain
<1>2. DOMAIN s = 1 .. n /\ s = [i \in 1 .. n |-> s[i]]
    BY <1>1
<1>3. Len(s) = n
    <2>1. s \in [1 .. n -> {s[i] : i \in 1 .. n}]
        BY <1>2
    <2> QED BY <1>1, <2>1
<1>4. ASSUME NEW i \in 1 .. n
      PROVE  /\ s[i].seq = num[i] /\ s[i].data = Data(lb, off[i - 1], off[i])
             /\ Len(s[i].data) = off[i] - off[i - 1] - 6 /\ s[i] = EntryOf(lb, off, num, i)
    <2>1. s[i] = EntryOf(lb, off, num, i)
        BY <1>1
    <2>2. s[i].seq = num[i] /\ s[i].data = Data(lb, off[i - 1], off[i])
        BY <2>1 DEF EntryOf
    <2>3. PICK size \in Nat : size = off[i] - off[i - 1] - 6
        BY ChainBounds
    <2>4. PICK d : d = Data(lb, off[i - 1], off[i])
        OBVIOUS
    <2>5. d = [j \in 1 .. size |-> Cell(lb, off[i - 1] + 4 + j - 1)]
        BY <2>3, <2>4 DEF Data, Bytes
    <2>6. d \in [1 .. size -> {d[j] : j \in 1 .. size}]
        BY <2>5
    <2>7. Len(d) = size
        BY <2>6
    <2> QED BY <2>1, <2>2, <2>3, <2>4, <2>7
<1> QED BY <1>1, <1>2, <1>3, <1>4

\* The entries of a chain take the room that the ring counts as used.
RoomOf(s) ==
    LET sum[n \in 0 .. Len(s)] ==
            IF n = 0 THEN 0 ELSE sum[n - 1] + TotalSize(0) + Len(s[n].data)
    IN  sum[Len(s)]
RoomSum(s) ==
    LET sum[n \in 0 .. Len(s)] ==
            IF n = 0 THEN 0 ELSE sum[n - 1] + TotalSize(0) + Len(s[n].data)
    IN  sum
\* buffer_used is the room that the entries take.
LEMMA RoomIsUsed ==
    ASSUME NEW lb \in Ring, NEW n, NEW off, NEW num, Chain(lb, n, off, num),
           NEW s, s = ListOf(lb, n, off, num)
    PROVE  RoomOf(s) = lb.buffer_used
<1>1. n \in Nat /\ Len(s) = n
    BY ListIs
<1>2. ASSUME NEW i \in 1 .. n
      PROVE  off[i] = off[i - 1] + TotalSize(0) + Len(s[i].data)
    <2>1. Len(s[i].data) = off[i] - off[i - 1] - 6 /\ TotalSize(0) = 6
        BY ListIs DEF TotalSize, FieldLen
    <2> QED BY <2>1, ChainBounds
<1>3. off = [i \in 0 .. Len(s) |-> IF i = 0 THEN 0 ELSE off[i - 1] + TotalSize(0) + Len(s[i].data)]
    <2>1. off = [i \in 0 .. n |-> off[i]]
        BY DEF Chain
    <2>2. off[0] = 0
        BY DEF Chain
    <2>3. \A i \in 0 .. n : off[i] = IF i = 0 THEN 0 ELSE off[i - 1] + TotalSize(0) + Len(s[i].data)
        <3>1. \A i \in 0 .. n : i = 0 \/ i \in 1 .. n
            BY <1>1
        <3> QED BY <1>2, <2>2, <3>1
    <2>4. off = [i \in 0 .. n |-> IF i = 0 THEN 0 ELSE off[i - 1] + TotalSize(0) + Len(s[i].data)]
        BY <2>1, <2>3
    <2> QED BY <1>1, <2>4
<1>4. \E f : f = [i \in 0 .. Len(s) |-> IF i = 0 THEN 0 ELSE f[i - 1] + TotalSize(0) + Len(s[i].data)]
    BY <1>3
<1>5. PICK f : f = RoomSum(s)
    OBVIOUS
<1>6. f = [i \in 0 .. Len(s) |-> IF i = 0 THEN 0 ELSE f[i - 1] + TotalSize(0) + Len(s[i].data)]
    BY <1>4, <1>5, Zenon DEF RoomSum
<1>7. f[0] = 0 /\ \A i \in 1 .. n : f[i] = f[i - 1] + TotalSize(0) + Len(s[i].data)
    BY <1>1, <1>6
<1>8. PICK G : G = {i \in Nat : i <= n => f[i] = off[i]}
    OBVIOUS
<1>9. 0 \in G
    BY <1>7, <1>8 DEF Chain
<1>10. ASSUME NEW i \in G PROVE i + 1 \in G
    <2>1. i \in Nat /\ (i <= n => f[i] = off[i])
        BY <1>8
    <2>2. CASE ~(i + 1 <= n)
        BY <1>8, <2>1, <2>2
    <2>3. CASE i + 1 <= n
        <3>1. PICK k \in 1 .. n : k = i + 1 /\ k - 1 = i /\ i <= n
            BY <1>1, <2>1, <2>3
        <3>2. f[k] = off[k]
            BY <1>2, <1>7, <2>1, <3>1
        <3> QED BY <1>8, <2>1, <3>1, <3>2
    <2> QED BY <2>2, <2>3
<1>11. f[n] = off[n]
    <2>1. G \in SUBSET Nat
        BY <1>8
    <2>2. n \in G
        BY <1>1, <1>9, <1>10, <2>1, NatInd
    <2> QED BY <1>1, <1>8, <2>2
<1>12. RoomOf(s) = RoomSum(s)[Len(s)]
    BY DEF RoomOf, RoomSum
<1> QED BY <1>1, <1>5, <1>11, <1>12 DEF Chain

-----------------------------------------------------------------------------
(* A ring of whole entries *)

\* What is true of a ring that only the functions of log_buff.c change, and
\* what the first of two rings becomes by them.
LogOK(lb) == lb \in Ring /\ \E n, off, num : Chain(lb, n, off, num)
IsPopped(lb, n, off, num, new, k) ==
    Chain(lb, n, off, num) /\ k \in 0 .. n /\ new = PopTo(lb, LeftOf(off, n)[k])
Grown(lb, new, can_pop) ==
    \E n, off, num, bytes, k, o, m :
        /\ Chain(lb, n, off, num) /\ IsAdded(lb, n, off, num, bytes, new, k, o, m)
        /\ ~can_pop => k = 0
Shrunk(lb, new) == \E n, off, num, k : IsPopped(lb, n, off, num, new, k)

\* A new ring is one.
LEMMA InitOK == LogOK(log_buffer_init) /\ Entries(log_buffer_init) = << >>
<1>1. PICK lb, off, num : lb = log_buffer_init /\ off = [i \in 0 .. 0 |-> 0] /\ num = [i \in 1 .. 0 |-> 0]
    OBVIOUS
<1>2. lb \in Ring /\ Chain(lb, 0, off, num)
    BY <1>1, RingInit, ChainInit
<1>3. Entries(lb) = ListOf(lb, 0, off, num)
    BY <1>2, EntriesAre
<1>4. ListOf(lb, 0, off, num) = << >>
    BY DEF ListOf
<1> QED BY <1>1, <1>2, <1>3, <1>4 DEF LogOK

\* So is what it becomes.
LEMMA PoppedOK ==
    ASSUME NEW lb \in Ring, NEW n, NEW off, NEW num, NEW new, NEW k, IsPopped(lb, n, off, num, new, k)
    PROVE  /\ LogOK(new) /\ new.seq_counter = lb.seq_counter /\ n \in Nat /\ k \in 0 .. n
           /\ Entries(lb) = ListOf(lb, n, off, num)
           /\ Entries(new) = [i \in 1 .. n - k |-> EntryOf(lb, off, num, i + k)]
<1>0. PICK left : left = LeftOf(off, n)
    OBVIOUS
<1>1. PICK d, u, l : d = off[k] /\ u = off[n] /\ l = left[k]
    OBVIOUS
<1>2. Chain(lb, n, off, num) /\ k \in 0 .. n /\ new = PopTo(lb, l) /\ n \in Nat
    BY <1>0, <1>1 DEF IsPopped, Chain
<1>3. /\ d \in 0 .. BufferSize /\ u \in 0 .. BufferSize /\ At(off, k, d) /\ At(off, n, u)
    BY <1>1, <1>2 DEF Chain, At
<1>4. lb.buffer_used = u
    BY <1>1, <1>2 DEF Chain
<1>5. left[k] = lb.buffer_used - off[k] /\ left[k] \in 0 .. BufferSize
    <2>1. /\ n \in Nat /\ left \in [0 .. n -> 0 .. BufferSize]
          /\ left[0] = lb.buffer_used /\ left[n] = 0
          /\ \A i \in 1 .. n : /\ left[i] + 6 <= left[i - 1]
                               /\ left[i - 1] - left[i] = off[i] - off[i - 1]
          /\ \A i \in 0 .. n : left[i] = lb.buffer_used - off[i] /\ left[i] <= lb.buffer_used
        <3>1. Chain(lb, n, off, num)
            BY <1>2
        <3> QED BY <1>0, <3>1, LeftIn
    <2> QED BY <1>2, <2>1
<1>6. l \in 0 .. BufferSize /\ l = u - d
    BY <1>1, <1>4, <1>5
<1>7. PICK o, m, q : o = LessOff(off, n, k) /\ m = LessNum(num, n, k) /\ q = n - k
    OBVIOUS
<1>8. /\ new \in Ring /\ new.seq_counter = lb.seq_counter /\ Chain(new, q, o, m)
      /\ ListOf(new, q, o, m) = [i \in 1 .. q |-> EntryOf(lb, off, num, i + k)]
    BY <1>2, <1>3, <1>6, <1>7, EntriesPopped
<1>9. Entries(new) = ListOf(new, q, o, m) /\ Entries(lb) = ListOf(lb, n, off, num)
    BY <1>2, <1>8, EntriesAre
<1> QED BY <1>2, <1>7, <1>8, <1>9 DEF LogOK

\* The same for one entry more.
LEMMA GrownOK ==
    ASSUME NEW lb \in Ring, NEW new, NEW can_pop, Grown(lb, new, can_pop)
    PROVE  LogOK(new)
BY DEF Grown, IsAdded, LogOK

\* The same for entries less.
LEMMA ShrunkOK ==
    ASSUME NEW lb \in Ring, NEW new, Shrunk(lb, new)
    PROVE  LogOK(new)
BY PoppedOK DEF Shrunk

\* The same for a number that is used up.
LEMMA CountedOK ==
    ASSUME NEW lb, LogOK(lb) PROVE LogOK(Counted(lb)) /\ Entries(Counted(lb)) = Entries(lb)
                                   /\ Counted(lb).seq_counter = (lb.seq_counter + 1) % SeqMod
<1>1. PICK n, off, num, new : Chain(lb, n, off, num) /\ new = Counted(lb)
    BY DEF LogOK
<1>2. /\ lb \in Ring /\ new \in Ring /\ new.seq_counter = (lb.seq_counter + 1) % SeqMod
      /\ Chain(new, n, off, num) /\ \A i : EntryOf(new, off, num, i) = EntryOf(lb, off, num, i)
    BY <1>1, CountedSame DEF LogOK
<1>3. Entries(new) = ListOf(new, n, off, num) /\ Entries(lb) = ListOf(lb, n, off, num)
    BY <1>1, <1>2, EntriesAre
<1>4. ListOf(new, n, off, num) = ListOf(lb, n, off, num)
    BY <1>2 DEF ListOf
<1> QED BY <1>1, <1>2, <1>3, <1>4 DEF LogOK

\* A part of a sequence.
LEMMA Part ==
    ASSUME NEW n \in Nat, NEW s, NEW k \in 0 .. n, NEW m \in k .. n
    PROVE  /\ SubSeq(s, k + 1, m) = [i \in 1 .. m - k |-> s[i + k]]
           /\ Len(SubSeq(s, k + 1, m)) = m - k
<1>1. PICK S : S = {s[i] : i \in 1 .. n}
    OBVIOUS
<1>2. PICK a : a = k + 1
    OBVIOUS
<1>3. a \in Int /\ m \in Int /\ m - a + 1 = m - k /\ (a <= m \/ m - k = 0) /\ m - k \in Nat
    BY <1>2
<1>4. \A i \in a .. m : s[i] \in S
    BY <1>1, <1>2
<1>5. PICK t : t = SubSeq(s, a, m)
    OBVIOUS
<1>6. /\ t \in Seq(S) /\ Len(t) = (IF a <= m THEN m - a + 1 ELSE 0)
      /\ \A i \in 1 .. m - a + 1 : t[i] = s[a + i - 1]
    BY <1>3, <1>4, <1>5, SubSeqProperties
<1>7. Len(t) = m - k
    BY <1>3, <1>6
<1>8. t = [i \in 1 .. m - k |-> t[i]]
    BY <1>6, <1>7
<1>9. \A i \in 1 .. m - k : t[i] = s[i + k]
    <2>1. \A i \in 1 .. m - k : a + i - 1 = i + k /\ i \in 1 .. m - a + 1
        BY <1>2, <1>3
    <2> QED BY <1>6, <2>1
<1>10. t = [i \in 1 .. m - k |-> s[i + k]]
    BY <1>8, <1>9
<1> QED BY <1>2, <1>5, <1>7, <1>10

\* A grown ring has one entry more, behind the longest part of the old ones
\* that leaves room for it.
GrownList(old, ents, seq, can_pop) ==
    \E k \in 0 .. Len(old) :
        LET kept == SubSeq(old, k + 1, Len(old))
        IN  /\ can_pop \/ k = 0
            /\ Len(ents) = Len(kept) + 1
            /\ SubSeq(ents, 1, Len(kept)) = kept
            /\ ents[Len(ents)].seq = seq
            /\ RoomOf(ents) <= BufferSize
            /\ k > 0 => RoomOf(ents) + TotalSize(0) + Len(old[k].data) > BufferSize
\* What push_entry does to the list of entries.
LEMMA GrownIs ==
    ASSUME NEW lb \in Ring, NEW new, NEW can_pop, Grown(lb, new, can_pop),
           NEW old, old = Entries(lb), NEW ents, ents = Entries(new)
    PROVE  /\ new.seq_counter = (lb.seq_counter + 1) % SeqMod
           /\ GrownList(old, ents, new.seq_counter, can_pop)
<1>1. PICK n, off, num, bytes, k, o, m :
         /\ Chain(lb, n, off, num) /\ IsAdded(lb, n, off, num, bytes, new, k, o, m)
         /\ ~can_pop => k = 0
    BY DEF Grown
<1>2. PICK q : q = n - k
    OBVIOUS
<1>3. /\ k \in 0 .. n /\ new \in Ring /\ new.seq_counter = (lb.seq_counter + 1) % SeqMod
      /\ Chain(new, q + 1, o, m)
      /\ ListOf(new, q + 1, o, m)
           = [i \in 1 .. q + 1 |-> IF i <= q THEN EntryOf(lb, off, num, i + k)
                                   ELSE [seq |-> new.seq_counter, data |-> bytes]]
      /\ k > 0 => new.buffer_used + (off[k] - off[k - 1]) > BufferSize
    BY <1>1, <1>2 DEF IsAdded
<1>4. old = ListOf(lb, n, off, num) /\ ents = ListOf(new, q + 1, o, m)
    BY <1>1, <1>3, EntriesAre
<1>5. /\ n \in Nat /\ Len(old) = n /\ old = [i \in 1 .. n |-> old[i]]
      /\ \A i \in 1 .. n : /\ Len(old[i].data) = off[i] - off[i - 1] - 6
                           /\ old[i] = EntryOf(lb, off, num, i)
    BY <1>1, <1>4, ListIs
<1>6. q \in Nat /\ q + 1 \in Nat
    BY <1>2, <1>3, <1>5
<1>7. Len(ents) = q + 1 /\ ents = [i \in 1 .. q + 1 |-> ents[i]]
    BY <1>3, <1>4, ListIs
<1>8. PICK kept : kept = SubSeq(old, k + 1, Len(old))
    OBVIOUS
<1>9. kept = [i \in 1 .. q |-> old[i + k]] /\ Len(kept) = q
    <2>1. n \in k .. n
        BY <1>3, <1>5
    <2>2. /\ SubSeq(old, k + 1, n) = [i \in 1 .. n - k |-> old[i + k]]
          /\ Len(SubSeq(old, k + 1, n)) = n - k
        <3>1. n \in Nat /\ k \in 0 .. n /\ n \in k .. n
            BY <1>3, <1>5, <2>1
        <3> QED BY <3>1, Part
    <2> QED BY <1>2, <1>5, <1>8, <2>2, Zenon
<1>10. \A i \in 1 .. q : ents[i] = old[i + k]
    <2>1. \A i \in 1 .. q : i + k \in 1 .. n /\ i \in 1 .. q + 1 /\ i <= q
        BY <1>2, <1>3, <1>5, <1>6
    <2> QED BY <1>3, <1>4, <1>5, <2>1
<1>11. SubSeq(ents, 1, Len(kept)) = kept
    <2>1. PICK z, w : z = 0 /\ w = q + 1
        OBVIOUS
    <2>2. z \in 0 .. w /\ q \in z .. w /\ w \in Nat /\ z + 1 = 1 /\ q - z = q
        BY <1>6, <2>1
    <2>3. SubSeq(ents, z + 1, q) = [i \in 1 .. q - z |-> ents[i + z]]
        BY <2>2, Part
    <2>4. \A i \in 1 .. q : i + z = i
        BY <2>1
    <2>5. SubSeq(ents, 1, q) = [i \in 1 .. q |-> ents[i]]
        BY <2>2, <2>3, <2>4
    <2> QED BY <1>9, <1>10, <2>5
<1>12. ents[q + 1].seq = new.seq_counter
    <2>1. q + 1 \in 1 .. q + 1 /\ ~(q + 1 <= q)
        BY <1>6
    <2>2. ents[q + 1] = [seq |-> new.seq_counter, data |-> bytes]
        BY <1>3, <1>4, <2>1
    <2> QED BY <2>2
<1>13. RoomOf(ents) = new.buffer_used /\ new.buffer_used \in 0 .. BufferSize
    BY <1>3, <1>4, RoomIsUsed DEF Ring
<1>14. k > 0 => RoomOf(ents) + TotalSize(0) + Len(old[k].data) > BufferSize
    <2> SUFFICES ASSUME k > 0 PROVE RoomOf(ents) + TotalSize(0) + Len(old[k].data) > BufferSize
        OBVIOUS
    <2>1. k \in 1 .. n
        BY <1>3, <1>5
    <2>2. Len(old[k].data) = off[k] - off[k - 1] - 6 /\ TotalSize(0) = 6
        BY <1>5, <2>1 DEF TotalSize, FieldLen
    <2>3. off[k] \in 0 .. BufferSize /\ off[k - 1] \in 0 .. BufferSize
        BY <1>1, <2>1, ChainBounds
    <2> QED BY <1>3, <1>13, <2>2, <2>3
<1>15. k \in 0 .. Len(old) /\ (can_pop \/ k = 0)
    BY <1>1, <1>3, <1>5
<1>16. RoomOf(ents) <= BufferSize /\ Len(ents) = Len(kept) + 1 /\ ents[Len(ents)].seq = new.seq_counter
    <2>1. RoomOf(ents) <= BufferSize
        BY <1>13
    <2> QED BY <1>7, <1>9, <1>12, <2>1, Zenon
<1> QED BY <1>3, <1>8, <1>11, <1>14, <1>15, <1>16, Zenon DEF GrownList

\* A shrunk ring has lost its oldest entries.
LEMMA ShrunkIs ==
    ASSUME NEW lb \in Ring, NEW new, Shrunk(lb, new),
           NEW old, old = Entries(lb), NEW ents, ents = Entries(new)
    PROVE  /\ new.seq_counter = lb.seq_counter /\ Len(ents) <= Len(old)
           /\ ents = SubSeq(old, 1 + Len(old) - Len(ents), Len(old))
<1>1. PICK n, off, num, k : IsPopped(lb, n, off, num, new, k)
    BY DEF Shrunk
<1>2. /\ new.seq_counter = lb.seq_counter /\ n \in Nat /\ k \in 0 .. n
      /\ old = ListOf(lb, n, off, num)
      /\ ents = [i \in 1 .. n - k |-> EntryOf(lb, off, num, i + k)]
    BY <1>1, PoppedOK
<1>3. /\ Len(old) = n /\ old = [i \in 1 .. n |-> old[i]]
      /\ \A i \in 1 .. n : old[i] = EntryOf(lb, off, num, i)
    BY <1>1, <1>2, ListIs DEF IsPopped
<1>4. PICK t : t = SubSeq(old, k + 1, n)
    OBVIOUS
<1>5. t = [i \in 1 .. n - k |-> old[i + k]] /\ Len(t) = n - k
    <2>1. n \in k .. n
        BY <1>2
    <2>2. /\ SubSeq(old, k + 1, n) = [i \in 1 .. n - k |-> old[i + k]]
          /\ Len(SubSeq(old, k + 1, n)) = n - k
        BY <1>2, <2>1, Part
    <2> QED BY <1>4, <2>2
<1>6. \A i \in 1 .. n - k : i + k \in 1 .. n
    BY <1>2
<1>7. ents = t
    BY <1>2, <1>3, <1>5, <1>6
<1>8. Len(ents) = n - k /\ n - k <= n /\ 1 + n - (n - k) = k + 1
    BY <1>2, <1>5, <1>7
<1> QED BY <1>2, <1>3, <1>4, <1>7, <1>8
=============================================================================
