----------------------------- MODULE MCRecovery -----------------------------
(* Instances of Recovery for TLC. *)
EXTENDS Recovery, TLC

CONSTANTS v1, v2

Types(t1, t2) == (v1 :> t1) @@ (v2 :> t2)
Case(buses, vifs, type, on, c, f) ==
    [bus: buses, vifs: {vifs}, type: {type}, on: {on}, calls: {c}, faults: {f}]
Ap  == Types("AP", "STA")
Sta == Types("STA", "AP")

\* An access point, a station, or both; each feature of the environment alone
Cases == Case({"USB", "PCIE"}, {v1}, Ap, {}, 4, 1)
    \cup Case({"SDIO"}, {v1, v2}, Sta, {}, 3, 1)
    \cup Case({"SDIO", "USB"}, {v1}, Sta, {}, 2, 2)
    \cup Case({"USB"}, {v1}, Sta, {"rx"}, 1, 1)
    \cup Case({"SDIO", "PCIE"}, {v1}, Sta, {"private"}, 2, 1)
    \cup Case({"SDIO"}, {v1}, Sta, {"private", "alloc"}, 1, 2)
    \cup Case({"SDIO"}, {v1}, Sta, {"torn"}, 1, 1)
=============================================================================
