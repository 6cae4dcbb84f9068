------------------------------ MODULE ConfigCell ------------------------------
(***************************************************************************)
(* What config.Manager promises: one configuration, changed by one PATCH   *)
(* at a time, and watchers that are told when the copy they took is out of *)
(* date.  ConfigManager.tla is checked to implement it.                    *)
(***************************************************************************)
CONSTANTS
    Patchers, Watchers,
    Valid,      \* configurations that may be in effect
    APIConfig,  \* the part of a configuration that is startup-only
    Changes     \* what a PATCH does to a configuration

VARIABLES change, configuration, answer, copy, notified

vars == <<change, configuration, answer, copy, notified>>

Init ==
    /\ change \in [Patchers -> Changes]
    /\ configuration \in Valid
    /\ answer = [p \in Patchers |-> "pending"]
    /\ copy = [w \in Watchers |-> configuration]
    /\ notified = [w \in Watchers |-> FALSE]

(* README.md:261 and 267: "The complete resulting configuration must pass  *)
(* the same validation as startup", and the API's credentials stay.        *)
Allowed(new) == new \in Valid /\ APIConfig[new] = APIConfig[configuration]

Refuse(p) ==
    /\ answer[p] = "pending"
    /\ ~Allowed(change[p][configuration])
    /\ answer' = [answer EXCEPT ![p] = "rejected"]
    /\ UNCHANGED <<change, configuration, copy, notified>>

Patch(p) ==
    /\ answer[p] = "pending"
    /\ Allowed(change[p][configuration])
    /\ configuration' = change[p][configuration]
    /\ answer' = [answer EXCEPT ![p] = "accepted"]
    /\ notified' = [w \in Watchers |->
                      notified[w] \/ configuration' # configuration]
    /\ UNCHANGED <<change, copy>>

Refresh(w) ==
    /\ copy' = [copy EXCEPT ![w] = configuration]
    /\ notified' = [notified EXCEPT ![w] = FALSE]
    /\ UNCHANGED <<change, configuration, answer>>

Next == \/ \E p \in Patchers : Refuse(p) \/ Patch(p)
        \/ \E w \in Watchers : Refresh(w)

Spec == Init /\ [][Next]_vars
=============================================================================
