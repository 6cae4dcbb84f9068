--------------------------- MODULE MCClusterManager ---------------------------
(***************************************************************************)
(* Small sets of clusters and calls for TLC.                               *)
(***************************************************************************)
EXTENDS ClusterManager, TLC

CONSTANTS n1, n2, d1, d2, bad, r1, r2, r3

Operation(kind, name, def) == [kind |-> kind, name |-> name, definition |-> def]

(* Several handlers on one cluster: every kind of conflict.                *)
OneName == {n1}
Changes == {Operation("put", n1, d1), Operation("put", n1, d2),
            Operation("delete", n1, d1)}

(* Two clusters, of which GET makes one copy.                              *)
TwoNames == {n1, n2}
ChangesAndReads ==
    Changes \cup {Operation("put", n2, d1), Operation("delete", n2, d1),
                  Operation("get", n1, d1), Operation("put", n1, bad)}

TwoDefinitions == {d1, d2}
ThreeDefinitions == {d1, d2, bad}
TwoRequests == {r1, r2}
ThreeRequests == {r1, r2, r3}

Interchangeable == Permutations(ThreeRequests)
=============================================================================
