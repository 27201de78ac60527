---------------------------- MODULE Permissions ----------------------------
(***************************************************************************)
(* The permission vocabulary of internal/app/broker.go: capabilities,     *)
(* scopes, grants, requests, and the two pure decisions taken over them,   *)
(* validScope and grantMatches.  IDs, labels and reasons are opaque.       *)
(***************************************************************************)
CONSTANTS
    Clients,       \* MCP connection IDs
    Windows,       \* stable window IDs
    Workspaces,    \* workspace IDs
    Applications,  \* launchable application names
    None           \* "no value"; not a member of any other set

ASSUME NoneAssumption ==
    None \notin Clients \cup Windows \cup Workspaces \cup Applications

Capabilities == {"observe", "control", "record", "launch"}

Scopes ==
    [kind : {"window"}, id : Windows]
        \cup [kind : {"workspace"}, id : Workspaces]
        \cup [kind : {"application"}, id : Applications]

WindowScope(w) == [kind |-> "window", id |-> w]

(* validScope: which kind of scope each capability accepts. *)
ValidScope(cap, scope) ==
    \/ cap = "observe" /\ scope.kind \in {"window", "workspace"}
    \/ cap \in {"control", "record"} /\ scope.kind = "window"
    \/ cap = "launch" /\ scope.kind = "application"

(* A grant or a request: only ever made for a valid scope. *)
Grants ==
    {g \in [client : Clients, cap : Capabilities, scope : Scopes] :
        ValidScope(g.cap, g.scope)}

RequestStates == {"pending", "granted", "denied", "cancelled"}

Requests ==
    {r \in [client : Clients, cap : Capabilities, scope : Scopes, state : RequestStates] :
        ValidScope(r.cap, r.scope)}

(* Faulty: compares the kinds of the scopes but not their IDs. *)
BadGrantMatches(g, client, cap, scope, ws) ==
    /\ g.client = client
    /\ g.cap = cap \/ (cap = "observe" /\ g.cap \in {"control", "record"})
    /\ g.scope.kind = scope.kind

(* grantMatches: g covers capability cap on scope for client.  A control or *)
(* record grant includes viewing; a workspace grant includes viewing the    *)
(* windows that are on the workspace now (ws is None without a window).     *)
GrantMatches(g, client, cap, scope, ws) ==
    /\ g.client = client
    /\ g.cap = cap \/ (cap = "observe" /\ g.cap \in {"control", "record"})
    /\ \/ g.scope = scope
       \/ /\ cap = "observe"
          /\ scope.kind = "window"
          /\ g.scope.kind = "workspace"
          /\ g.scope.id = ws
=============================================================================
