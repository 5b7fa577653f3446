------------------------------ MODULE MCTcpAck ------------------------------
(* Instances of TcpAck for TLC. *)
EXTENDS TcpAck, TLC

CONSTANTS t1, t2, f1, f2
B(a, t, f) == [acks |-> a, threads |-> t, faults |-> f]
FewBounds == {B(4, 2, 0), B(3, 2, 1), B(5, 1, 0)}
Symmetry == Permutations({t1, t2}) \cup Permutations({f1, f2})
=============================================================================
