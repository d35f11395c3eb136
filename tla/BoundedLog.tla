----------------------------- MODULE BoundedLog ------------------------------
(***************************************************************************)
(* What the ring of log_buff.c promises: a first-in first-out queue of     *)
(* numbered entries, whose sizes together never exceed the capacity.       *)
(* Nothing is said here of bytes, pointers or wrapping.                    *)
(***************************************************************************)
EXTENDS Integers, Sequences

CONSTANTS Capacity,    \* room for entries and their headers
          Header,      \* the room an entry takes besides its data
          Modulus,     \* entries are numbered modulo Modulus
          CanPop       \* may an entry push old ones out?

VARIABLES entries,     \* [seq, data], oldest first
          counter      \* the number last given out

\* The room that a sequence of entries takes.
Room(s) ==
    LET sum[n \in 0 .. Len(s)] ==
            IF n = 0 THEN 0 ELSE sum[n - 1] + Header + Len(s[n].data)
    IN  sum[Len(s)]

Init == entries = << >> /\ counter = 0

\* A new entry takes the next number and goes to the end, behind the longest
\* suffix of the old entries that leaves room for it.
Push(old, new) ==
    /\ counter' = (counter + 1) % Modulus
    /\ \E k \in 0 .. Len(old) :
          LET kept == SubSeq(old, k + 1, Len(old))
          IN  /\ CanPop \/ k = 0
              /\ Len(new) = Len(kept) + 1
              /\ SubSeq(new, 1, Len(kept)) = kept
              /\ new[Len(new)].seq = counter'
              /\ Room(new) <= Capacity
              /\ k > 0 => Room(new) + Header + Len(old[k].data) > Capacity

\* A number is used up for an entry that finds no room.
Refuse(old, new) == ~CanPop /\ counter' = (counter + 1) % Modulus /\ new = old

\* Readers of a log that may not push entries out take the oldest ones, if any,
\* away.
Take(old, new) ==
    /\ ~CanPop
    /\ UNCHANGED counter
    /\ Len(new) <= Len(old)
    /\ new = SubSeq(old, 1 + Len(old) - Len(new), Len(old))

\* Such a log can be closed, and opened anew, at any time.
Reopen(new) == ~CanPop /\ new = << >> /\ counter' = 0

Next == \E old \in {entries}, new \in {entries'} :
            Push(old, new) \/ Refuse(old, new) \/ Take(old, new) \/ Reopen(new)
Spec == Init /\ [][Next]_<<entries, counter>>
=============================================================================
