----------------------------- MODULE MCPingPong -----------------------------
(* The ping thread and the main loop; four times, enough to tell a stamp     *)
(* from the one that overwrote it.                                          *)
EXTENDS PingPong

CONSTANTS main, pinger, t1, t2, t3, t4

MCSender == {main, pinger}
MCTime == {t1, t2, t3, t4}

=============================================================================
