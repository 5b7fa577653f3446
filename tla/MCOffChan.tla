----------------------------- MODULE MCOffChan -----------------------------
(* Instances of OffChan for TLC. *)
EXTENDS OffChan, TLC

CONSTANTS wlan0, p2p0

Limits(s, r, f, o, k) == [scans |-> s, rocs |-> r, frames |-> f, others |-> o, faults |-> k,
                          timeout |-> FALSE, stale |-> FALSE]
Cases == {Limits(2, 1, 0, 1, 1), Limits(2, 1, 0, 2, 0), Limits(1, 2, 1, 1, 0), Limits(0, 2, 2, 0, 1),
          Limits(0, 1, 3, 0, 0),
          [Limits(0, 2, 2, 0, 0) EXCEPT !.timeout = TRUE], [Limits(0, 1, 3, 0, 0) EXCEPT !.stale = TRUE]}
=============================================================================
