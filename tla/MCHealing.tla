------------------------------ MODULE MCHealing ------------------------------
(***************************************************************************)
(* A connector and a task that fail, and are paused and resumed.            *)
(***************************************************************************)
EXTENDS Healing, MCPoller

(* Nothing is deleted: what is gone needs no healing.                      *)
NothingDeleted ==
    {s \in Snapshots : \A t \in Targets : s[t] # "absent"}
=============================================================================
