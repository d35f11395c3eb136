------------------------------ MODULE LogBuffer ------------------------------
(***************************************************************************)
(* The driver's ring of variable-sized log entries                         *)
(* (Sandboxie/core/drv/log_buff.c).  Two users share it: the message log   *)
(* of api.c, which may drop old entries to make room, and the resource     *)
(* monitor of session.c, which may not.                                    *)
(*                                                                         *)
(* One cell of the model is one WCHAR (two bytes): every field and string  *)
(* that the driver puts into the ring has an even length, so a WCHAR is    *)
(* the finest place at which an entry can wrap.  A ULONG takes two cells   *)
(* and can therefore be split by the end of the buffer.  A cell is a pair  *)
(* <<v, k>>, the k-th part of the value v, so that two halves that do not  *)
(* belong together are seen not to be a value.                             *)
(*                                                                         *)
(* Pointers are offsets from buffer_data.  As in the code an offset may    *)
(* lie below 0 or at or above BufferSize until the next byte is accessed.  *)
(***************************************************************************)
EXTENDS Integers, Sequences, FiniteSetsExt

CONSTANTS BufferSize,  \* buffer_size, in cells
          SeqMod       \* a LOG_BUFFER_SEQ_T counts modulo SeqMod (2^32)

ASSUME BufferSizeAssumption == BufferSize \in Nat \ {0}
ASSUME SeqModAssumption == SeqMod \in Nat \ {0, 1}

\* sizeof(LOG_BUFFER_SIZE_T) = sizeof(LOG_BUFFER_SEQ_T) = sizeof(ULONG)
FieldLen == 2

\* [SIZE][SEQ][DATA size][SIZE]
TotalSize(size) == size + 3 * FieldLen

Uninit == <<-1, 0>>      \* a cell nobody has written yet
Garbage == -1            \* what a field reads as if its halves do not match
NULL == -2 * BufferSize  \* no pointer: below every offset the code computes

\* The cells of a ULONG, and the ULONG that some cells hold.
Field(v) == [k \in 1 .. FieldLen |-> <<v, k>>]
Value(cells) == IF cells = Field(cells[1][1]) THEN cells[1][1] ELSE Garbage

log_buffer_init == [seq_counter  |-> 0,
                    buffer_used  |-> 0,
                    buffer_start |-> 0,
                    buffer_data  |-> [c \in 0 .. BufferSize - 1 |-> Uninit]]

\* log_buffer_byte_at wraps a pointer once, in either direction, before the
\* access, and leaves it just behind the byte.
Wrap(p) == IF p >= BufferSize THEN p - BufferSize
           ELSE IF p < 0 THEN p + BufferSize ELSE p
After(p, n) == IF n = 0 THEN p ELSE ((Wrap(p) + n - 1) % BufferSize) + 1

\* The loops over log_buffer_byte_at: the ring after n bytes were pushed at
\* pointer p, and the n bytes got from pointer p.
push_bytes(lb, p, bytes) ==
    [lb EXCEPT !.buffer_data =
        [c \in DOMAIN @ |->
            LET i == (c - Wrap(p)) % BufferSize
            IN  IF i < Len(bytes) THEN bytes[i + 1] ELSE @[c]]]
get_bytes(lb, p, n) ==
    [i \in 1 .. n |-> lb.buffer_data[(Wrap(p) + i - 1) % BufferSize]]

get_field(lb, p) == Value(get_bytes(lb, p, FieldLen))

\* log_buffer_pop_entry drops the oldest entry, if there is one.  PopTo is
\* what one or more pops in a row do: they leave the newest left cells.
PopTo_KeepsStart(lb, left) ==       \* mutant: the newest entries are dropped
    [lb EXCEPT !.buffer_used = left]
PopTo(lb, left) ==
    LET start == lb.buffer_start + (lb.buffer_used - left)
    IN  [lb EXCEPT !.buffer_start = IF start >= BufferSize
                                    THEN start - BufferSize ELSE start,
                   !.buffer_used = left]
OldestSize(lb, left) ==
    TotalSize(get_field(lb, lb.buffer_start + (lb.buffer_used - left)))
pop_entry_NotLast(lb) ==            \* mutant: the last entry is never dropped
    IF lb.buffer_used <= OldestSize(lb, lb.buffer_used) THEN lb
    ELSE PopTo(lb, lb.buffer_used - OldestSize(lb, lb.buffer_used))
pop_entry(lb) ==
    IF lb.buffer_used = 0 THEN lb
    ELSE PopTo(lb, lb.buffer_used - OldestSize(lb, lb.buffer_used))

\* The while loop of log_buffer_push_entry: pop until total_size fits.
Fits(used, total) == BufferSize - used >= total
MakeRoom_Once(lb, total) ==         \* mutant: if in place of while
    IF Fits(lb.buffer_used, total) THEN lb ELSE pop_entry(lb)
MakeRoom(lb, total) ==
    LET kept[left \in 0 .. BufferSize] ==
            IF Fits(left, total) THEN left
            ELSE LET oldest == OldestSize(lb, left)
                 IN  IF oldest > left THEN left ELSE kept[left - oldest]
    IN  PopTo(lb, kept[lb.buffer_used])

\* log_buffer_push_entry: the ring afterwards and the pointer at which the
\* caller writes the entry's data, NULL if there is no room.  A sequence
\* number is used up even when the entry is refused for want of room.
push_entry(lb, size, can_pop) ==
    LET total   == TotalSize(size)
        counted == [lb EXCEPT !.seq_counter = (@ + 1) % SeqMod]
        room    == IF can_pop THEN MakeRoom(counted, total) ELSE counted
        wp0     == room.buffer_start + room.buffer_used
        sized   == push_bytes([room EXCEPT !.buffer_used = @ + total],
                              wp0, Field(size))
        wp1     == After(wp0, FieldLen)
        seqd    == push_bytes(sized, wp1, Field(room.seq_counter))
        wp2     == After(wp1, FieldLen)
    IN  IF total > BufferSize THEN [lb |-> lb, ptr |-> NULL]
        ELSE IF ~Fits(room.buffer_used, total) THEN [lb |-> room, ptr |-> NULL]
        ELSE [lb |-> push_bytes(seqd, wp2 + size, Field(size)), ptr |-> wp2]

\* log_buffer_get_next walks backwards from the newest entry.  It returns a
\* pointer to the entry that follows seq_number, the oldest entry when that
\* one is not in the ring, NULL when seq_number is the newest entry or the
\* ring is empty.
get_next_NoRestart(lb, seq_number) ==    \* mutant: no return to the oldest
    LET walk[left \in 0 .. lb.buffer_used] ==
            LET total == TotalSize(get_field(lb, lb.buffer_start + left - FieldLen))
                rp    == After(lb.buffer_start + left - FieldLen, FieldLen) - total
                cur   == get_field(lb, rp + FieldLen)
            IN  IF left = 0
                THEN NULL
                ELSE IF cur = seq_number /\ left = lb.buffer_used THEN NULL
                ELSE IF cur = (seq_number + 1) % SeqMod THEN rp
                ELSE IF total > left THEN NULL
                ELSE walk[left - total]
    IN  walk[lb.buffer_used]
get_next(lb, seq_number) ==
    LET walk[left \in 0 .. lb.buffer_used] ==
            LET total == TotalSize(get_field(lb, lb.buffer_start + left - FieldLen))
                rp    == After(lb.buffer_start + left - FieldLen, FieldLen) - total
                cur   == get_field(lb, rp + FieldLen)
            IN  IF left = 0
                THEN IF lb.buffer_used # 0 THEN lb.buffer_start ELSE NULL
                ELSE IF cur = seq_number /\ left = lb.buffer_used THEN NULL
                ELSE IF cur = (seq_number + 1) % SeqMod THEN rp
                ELSE IF total > left THEN NULL
                ELSE walk[left - total]
    IN  walk[lb.buffer_used]

-----------------------------------------------------------------------------
(* The entries that the ring holds, oldest first, each with its number and *)
(* data cells: read forwards by the leading SIZE fields.                   *)
Entries(lb) ==
    LET from[left \in 0 .. lb.buffer_used] ==
            LET p     == lb.buffer_start + lb.buffer_used - left
                size  == get_field(lb, p)
                seq   == get_field(lb, After(p, FieldLen))
                data  == get_bytes(lb, After(p, 2 * FieldLen), size)
            IN  IF left = 0 THEN << >>
                ELSE IF size = Garbage \/ TotalSize(size) > left
                     THEN << [seq |-> Garbage, data |-> << >>] >>
                ELSE << [seq |-> seq, data |-> data] >>
                     \o from[left - TotalSize(size)]
    IN  from[lb.buffer_used]
=============================================================================
