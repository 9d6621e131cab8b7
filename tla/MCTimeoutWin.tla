---------------------------- MODULE MCTimeoutWin ----------------------------
(* Small values for the constants of TimeoutWin. *)
EXTENDS TimeoutWin

MCProcs == {"p1", "p2", "p3"}
MCLimits == {0, 1, 3}
MCEqual == {2}
=============================================================================
