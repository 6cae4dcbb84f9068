------------------------------ MODULE MCPoller ------------------------------
(***************************************************************************)
(* Small clusters for TLC.  A connector or a task number is one element;   *)
(* keys are the strings TaskKeyFormat makes.                               *)
(***************************************************************************)
EXTENDS Poller, TLC

Backoffs(enabled, base, max, exponential) ==
    [enabled |-> enabled, baseDelay |-> base, maxDelay |-> max,
     exponential |-> exponential]

(* They differ in every field, and each pair in more than one.             *)
Growing == [interval |-> 1, requestTimeout |-> 2, restartFailedTasks |-> TRUE,
            backoff |-> Backoffs(TRUE, 1, 3, TRUE)]
Flat == [interval |-> 2, requestTimeout |-> 1, restartFailedTasks |-> TRUE,
         backoff |-> Backoffs(TRUE, 2, 3, FALSE)]
Off == [interval |-> 1, requestTimeout |-> 1, restartFailedTasks |-> FALSE,
        backoff |-> Backoffs(FALSE, 1, 3, TRUE)]

ThreeConfigurations == {Growing, Flat, Off}
OneConfiguration == {Growing}

OneConnector == {"a"}
KeysOfOne == {"a", "ConnectorName-a_TaskID-0"}
TaskKeyOfOne == <<"a", 0>> :> "ConnectorName-a_TaskID-0"
AllSnapshots == Snapshots

(* For the runs with liveness and with two tasks: a paused target differs  *)
(* from a missing one in the histories only, which need no liveness.       *)
BusySnapshots ==
    {s \in Snapshots : \A t \in Targets : s[t] \in {"RUNNING", "FAILED"}}

TwoTaskKeys == {"a", "ConnectorName-a_TaskID-0", "ConnectorName-a_TaskID-1"}
TwoTaskKey == <<"a", 0>> :> "ConnectorName-a_TaskID-0"
                @@ <<"a", 1>> :> "ConnectorName-a_TaskID-1"

(* A connector named like the key of another connector's task.             *)
CollidingConnectors == {"a", "ConnectorName-a_TaskID-0"}
CollidingKeys == CollidingConnectors
                   \cup {"ConnectorName-ConnectorName-a_TaskID-0_TaskID-0"}
CollidingTaskKey ==
    <<"a", 0>> :> "ConnectorName-a_TaskID-0"
    @@ <<"ConnectorName-a_TaskID-0", 0>>
         :> "ConnectorName-ConnectorName-a_TaskID-0_TaskID-0"
=============================================================================
