------------------------------ MODULE Reorder -------------------------------
(* reorder_list of the SDIO and USB buses: frames that the firmware received *)
(* out of order and that wait for it to name a range of their ids, either in *)
(* the descriptor of a later packet or, after a time-out, in a message.      *)
EXTENDS Integers, Sequences, SequencesExt

CONSTANTS Tid, MaxId    \* MaxId: 4096, after which ids begin again with 1

ASSUME ReorderAssumption == MaxId \in Nat \ {0}

\* A range of ids; start 0 is no range
NoRange == [start |-> 0, len |-> 0]

ExceptHostId_Early(x) == IF x >= MaxId THEN x % MaxId ELSE x
ExceptHostId(x) == IF x > MaxId THEN x % MaxId ELSE x

Names(r, i, f) == f.id = ExceptHostId(r.start + i)

\* The frames of list that a range of tid t takes from it, id by id
Released(list, t, r) ==
    FlattenSeq([i \in 1..r.len |->
        SelectSeq(list, LAMBDA f : f.tid = t /\ Names(r, i - 1, f))])
Kept(list, t, r) ==
    SelectSeq(list, LAMBDA f : ~(f.tid = t /\ \E i \in 0..(r.len - 1) : Names(r, i, f)))

\* What the ranges of all tids leave of it
KeptByAll(list, ranges) ==
    SelectSeq(list, LAMBDA f :
        ~\E i \in 0..(ranges[f.tid].len - 1) : Names(ranges[f.tid], i, f))
=============================================================================
