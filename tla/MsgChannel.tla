----------------------------- MODULE MsgChannel -----------------------------
(***************************************************************************)
(* What the command manager and the mailbox promise together: commands     *)
(* wait in one queue and are handed to the firmware one at a time, in the  *)
(* order they were accepted.  A waiting command may be given up, and the   *)
(* channel may be reset.                                                   *)
(***************************************************************************)
EXTENDS Sequences, SequencesExt

CONSTANTS Cmd, NoCmd

VARIABLES
    waiting,    \* accepted commands that are not sent, oldest first
    slot        \* the command the firmware has not acknowledged, or NoCmd

Init == waiting = <<>> /\ slot = NoCmd

Accept == \E c \in Cmd : waiting' = Append(waiting, c) /\ UNCHANGED slot

Send ==
    /\ waiting # <<>> /\ slot = NoCmd
    /\ slot' = Head(waiting)
    /\ waiting' = Tail(waiting)

Acked == slot # NoCmd /\ slot' = NoCmd /\ UNCHANGED waiting

GiveUp == \E i \in DOMAIN waiting :
              waiting' = RemoveAt(waiting, i) /\ UNCHANGED slot

Reset == waiting' = <<>> /\ slot' = NoCmd

Next == Accept \/ Send \/ Acked \/ GiveUp \/ Reset

Spec == Init /\ [][Next]_<<waiting, slot>>
=============================================================================
