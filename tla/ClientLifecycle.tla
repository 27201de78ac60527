-------------------------- MODULE ClientLifecycle --------------------------
(***************************************************************************)
(* What the broker may assume of any transport that brings it clients, and *)
(* what both transports have to implement: calls are made by connected     *)
(* clients, and a client is disconnected when none of its calls runs.      *)
(***************************************************************************)
CONSTANTS Clients, Callers, None

VARIABLES
    connected,   \* clients the broker knows
    busy         \* caller -> the client whose call it runs, or None

vars == <<connected, busy>>

Init ==
    /\ connected = {}
    /\ busy = [k \in Callers |-> None]

Connect(c) ==
    /\ connected' = connected \cup {c}
    /\ UNCHANGED busy

(* The first call of a client may be what connects it. *)
Begin(k, c) ==
    /\ busy[k] = None
    /\ busy' = [busy EXCEPT ![k] = c]
    /\ connected' \in {connected, connected \cup {c}}
    /\ c \in connected'

End(k) ==
    /\ busy[k] # None
    /\ busy' = [busy EXCEPT ![k] = None]
    /\ UNCHANGED connected

Disconnect(c) ==
    /\ c \in connected
    /\ \A k \in Callers : busy[k] # c
    /\ connected' = connected \ {c}
    /\ UNCHANGED busy

Next ==
    \/ \E c \in Clients : Connect(c) \/ Disconnect(c)
    \/ \E k \in Callers : End(k) \/ \E c \in Clients : Begin(k, c)

Spec == Init /\ [][Next]_vars
=============================================================================
