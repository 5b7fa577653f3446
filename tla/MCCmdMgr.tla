------------------------------ MODULE MCCmdMgr ------------------------------
(* Instances of CmdMgr for TLC.                                             *)
EXTENDS CmdMgr, TLC

CONSTANTS c1, c2, c3, r1, r2

Two   == {c1, c2}
Three == {c1, c2, c3}

\* Symmetry of the commands: used only where no liveness is checked
Perms3 == Permutations(Three)

Req(nb, cfm, thr) == [nonblock |-> nb, cfm |-> cfm, thread |-> thr]

\* Blocking requests, with and without confirmation
BlockingReqs == { Req(FALSE, r1, FALSE), Req(FALSE, r2, FALSE), Req(FALSE, NoCfm, FALSE) }

\* Non-blocking requests that cmd_mgr_queue pushes itself
NonblockReqs == { Req(TRUE, r1, FALSE), Req(TRUE, NoCfm, FALSE) }

\* Each combination the driver sends: is_non_blocking_msg, aml_msg_send_mtheod
\* and the reqcfm argument of the callers of aml_send_msg
AllReqs == BlockingReqs \cup
    NonblockReqs \cup { Req(TRUE, r1, TRUE), Req(TRUE, NoCfm, TRUE) }

\* One request of each way to be pushed and completed, for the liveness runs
FewReqs == { Req(FALSE, r1, FALSE), Req(TRUE, NoCfm, TRUE) }

=============================================================================
