------------------------------ MODULE MCTimer ------------------------------
(* Small instances of Timer: one call that re-arms itself besides            *)
(* timed_advert_maint's (a database sync), one that an akill entry owns.      *)
EXTENDS Timer, TLC

CONSTANTS maint, queue, akill

MCCalls == {maint, queue, akill}
MCPeriod == (maint :> 2) @@ (queue :> 0) @@ (akill :> 0)
MCDelays == {0, 1, 3}
=============================================================================
