----------------------------- MODULE RxChannel ------------------------------
(* What the receive ring promises: the packets that the firmware publishes,  *)
(* numbered from 1, reach aml_rx_task in that order, each of them once.      *)
EXTENDS Naturals, Sequences

VARIABLES sent,     \* packets published
          handled   \* the packets that were handled, in order

Init == sent = 0 /\ handled = <<>>

Publish == sent' = sent + 1 /\ UNCHANGED handled

Handle ==
    /\ Len(handled) < sent
    /\ handled' = Append(handled, Len(handled) + 1)
    /\ UNCHANGED sent

Next == Publish \/ Handle

Spec == Init /\ [][Next]_<<sent, handled>>
=============================================================================
