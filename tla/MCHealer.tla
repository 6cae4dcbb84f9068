------------------------------- MODULE MCHealer -------------------------------
(***************************************************************************)
(* Two PUTs on clusters that may share an endpoint, and for liveness one    *)
(* request of every kind on one cluster.                                   *)
(***************************************************************************)
EXTENDS Healer, TLC

CONSTANTS n1, n2, d1, d2, bad, r1, r2

Operation(kind, name, def) == [kind |-> kind, name |-> name, definition |-> def]

OneName == {n1}
TwoNames == {n1, n2}

(* A change, a removal, a read and a definition that is refused.           *)
OneOfEachKind == {Operation("put", n1, d1), Operation("delete", n1, d1),
                  Operation("get", n1, d1), Operation("put", n1, bad)}

(* Two PUTs of one endpoint, each creating, replacing or changing nothing. *)
PutsOfOneEndpoint == {Operation("put", n1, d1), Operation("put", n2, d1)}

TwoDefinitions == {d1, d2}
ThreeDefinitions == {d1, d2, bad}
OneRequest == {r1}
TwoRequests == {r1, r2}
TwoEndpoints == {1, 2}
EndpointOfEach == d1 :> 1 @@ d2 :> 2 @@ bad :> 2

Interchangeable == Permutations(TwoRequests)
=============================================================================
