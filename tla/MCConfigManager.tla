--------------------------- MODULE MCConfigManager ---------------------------
(***************************************************************************)
(* The two backoff delays, which validation ties together, and a startup-  *)
(* only field: enough for patches to be rejected for every reason.         *)
(***************************************************************************)
EXTENDS ConfigManager, TLC

AllConfigurations == [api : {"off", "on"}, baseDelay : 1..2, maxDelay : 1..2]

ValidConfigurations ==
    {c \in AllConfigurations : c.maxDelay >= c.baseDelay}

APIConfigOf == [c \in AllConfigurations |-> c.api]

(* One supplied field each, or a body that does not decode.                *)
SetBase(d) == [c \in AllConfigurations |-> [c EXCEPT !.baseDelay = d]]
SetMax(d) == [c \in AllConfigurations |-> [c EXCEPT !.maxDelay = d]]
SetAPI(v) == [c \in AllConfigurations |-> [c EXCEPT !.api = v]]
Malformed == [c \in AllConfigurations |-> Rejected]

Patches == {SetBase(1), SetBase(2), SetMax(1), SetAPI("on"), Malformed}
=============================================================================
