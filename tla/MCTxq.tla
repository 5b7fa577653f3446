------------------------------- MODULE MCTxq -------------------------------
(* Instances of Txq for TLC: two queues of one station, or one queue of each *)
(* of two stations.                                                          *)
EXTENDS Txq

CONSTANTS s1, s2, q1, q2

Queues   == <<q1, q2>>
Priority == <<q2, q1>>

SameSta  == [q \in {q1, q2} |-> s1]
OwnSta   == (q1 :> s1) @@ (q2 :> s2)

AllLegacy == [q \in {q1, q2} |-> "LEGACY"]
MixedPs   == (q1 :> "UAPSD") @@ (q2 :> "LEGACY")
AllUapsd  == [q \in {q1, q2} |-> "UAPSD"]
=============================================================================
