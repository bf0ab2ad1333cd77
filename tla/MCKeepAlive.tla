---------------------------- MODULE MCKeepAlive ----------------------------
(* Small instance of KeepAlive for TLC.                                    *)
EXTENDS KeepAlive, TLC

\* A slow level and one faster than COM's own period.
MCPeriods == 0 :> 3 @@ 1 :> 1

\* Both levels slower than a tick.
MCSlowPeriods == 0 :> 3 @@ 1 :> 2

============================================================================
