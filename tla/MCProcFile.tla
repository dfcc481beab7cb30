----------------------------- MODULE MCProcFile -----------------------------
(* Loaded two jiffies before the counter wraps, or when it has just wrapped. *)
EXTENDS ProcFile

MCLoadTimes == {WordSize - 2, 0}

=============================================================================
