---------------------------- MODULE MCSchedBase ----------------------------
(* Two client threads of equal priority between the timer thread, the most *)
(* urgent, and the idle thread.                                            *)
EXTENDS SchedBase, TLC

CONSTANTS th1, th2, tmr, idle

MCThreads == {th1, th2, tmr, idle}

MCPriority == (tmr :> 0) @@ (th1 :> 1) @@ (th2 :> 1) @@ (idle :> 2)
=============================================================================
