--------------------------- MODULE ClusterRegistry ---------------------------
(***************************************************************************)
(* What the cluster API promises its callers (README.md, "Cluster          *)
(* management"): a map from names to definitions on which every request    *)
(* takes effect at one instant, and which Close empties for good.          *)
(* ClusterManager.tla is checked to implement it.                          *)
(***************************************************************************)
CONSTANTS Names, Requests, Definitions, ValidDefinitions, NoDefinition, Unread,
          Operations  \* records [kind, name, definition]

VARIABLES
    op,            \* what each request asks for
    registry,      \* name -> definition, or NoDefinition
    shuttingDown,  \* the application's context is canceled
    closed,        \* Close has taken effect
    answer,        \* per request
    listed         \* per request, the map a GET returned

vars == <<op, registry, shuttingDown, closed, answer, listed>>

Init ==
    /\ op \in [Requests -> Operations]
    /\ registry \in [Names -> Definitions \cup {NoDefinition}]
    /\ shuttingDown = FALSE
    /\ closed = FALSE
    /\ answer = [r \in Requests |-> "pending"]
    /\ listed = [r \in Requests |-> [n \in Names |-> Unread]]

Answered(r, a) ==
    /\ answer[r] = "pending"
    /\ answer' = [answer EXCEPT ![r] = a]
    /\ UNCHANGED <<op, shuttingDown, closed>>

(* A PUT of an invalid definition is refused as such, whatever else holds.  *)
Invalid(r) == op[r].kind = "put" /\ op[r].definition \notin ValidDefinitions

Put(r) ==
    LET old == registry[op[r].name]
    IN  /\ op[r].kind = "put"
        /\ ~Invalid(r)
        /\ ~closed
        /\ registry' = [registry EXCEPT ![op[r].name] = op[r].definition]
        /\ Answered(r, IF old = NoDefinition THEN "created"
                       ELSE IF old = op[r].definition THEN "unchanged"
                       ELSE "replaced")
        /\ UNCHANGED listed

Delete(r) ==
    LET old == registry[op[r].name]
    IN  /\ op[r].kind = "delete"
        /\ ~closed
        /\ registry' = [registry EXCEPT ![op[r].name] = NoDefinition]
        /\ Answered(r, IF old = NoDefinition THEN "notFound" ELSE "deleted")
        /\ UNCHANGED listed

Get(r) ==
    /\ op[r].kind = "get"
    /\ listed' = [listed EXCEPT ![r] = registry]
    /\ Answered(r, "listed")
    /\ UNCHANGED registry

Refuse(r) ==
    /\ op[r].kind # "get"
    /\ \/ Invalid(r) /\ Answered(r, "invalid")
       \/ ~Invalid(r) /\ (closed \/ shuttingDown) /\ Answered(r, "unavailable")
    /\ UNCHANGED <<registry, listed>>

ShutDown ==
    /\ shuttingDown' = TRUE
    /\ UNCHANGED <<op, registry, closed, answer, listed>>

Close ==
    /\ closed' = TRUE
    /\ registry' = [n \in Names |-> NoDefinition]
    /\ UNCHANGED <<op, shuttingDown, answer, listed>>

Next == \/ \E r \in Requests : Put(r) \/ Delete(r) \/ Get(r) \/ Refuse(r)
        \/ ShutDown
        \/ Close

Spec == Init /\ [][Next]_vars
=============================================================================
