--------------------------- MODULE AuthorityProps ---------------------------
(***************************************************************************)
(* What the broker and the guard promise together.                         *)
(***************************************************************************)
EXTENDS Authority

(* A clear, or the revoke of token x, that is still to be sent, is being   *)
(* retried, or was exchanged without an answer.                            *)
ClearComing ==
    \/ sweep
    \/ Clear \in pending
    \/ \E t \in Threads : Clear \in todo[t] \/ reply[t] = [op |-> Clear, ok |-> FALSE]

RevokeComing(x) ==
    \/ x \in pending
    \/ \E t \in Threads : x \in todo[t] \/ reply[t] = [op |-> x, ok |-> FALSE]

Outstanding(x) == ClearComing \/ RevokeComing(x)

(* The next thing call k does may be a delivery the guard accepts. *)
CanDeliver(k) == pc[k] = "send" /\ tok[k] \in DOMAIN leases

(* With the broker paused, or without a supervisor, no grant, no request   *)
(* awaiting a decision and no share picker survives: clearLocked, and the  *)
(* conditions under which decide, selectShare and permit commit.           *)
PausedHoldsNothing ==
    paused \/ uis = {} =>
        /\ DOMAIN grants = {}
        /\ \A r \in DOMAIN requests : requests[r].state # "pending"
        /\ picker = None

(* A connection that has gone leaves no grant, no request to decide, no    *)
(* picker for itself and no recording that is not cancelled: disconnect    *)
(* against the decisions, shares and record calls in flight.               *)
DisconnectedHoldsNothing ==
    \A c \in Clients \ clients :
        /\ \A t \in DOMAIN grants : grants[t].client # c
        /\ \A r \in DOMAIN requests :
              requests[r].client = c => requests[r].state # "pending"
        /\ picker = None \/ picker.client # c
        /\ \A r \in Running : rec[r].client = c => r \in cancelled

(* What the two rest on: the request a handler is deciding is still the    *)
(* one it copied, under the same ID; a record call that has its permission *)
(* belongs to a client that is connected.                                  *)
JobsMatch ==
    \A u \in UIs :
        pc[u] \in Deciding /\ job[u].picker = None /\ job[u].request \in DOMAIN requests =>
            requests[job[u].request].client = job[u].client

PermittedConnected ==
    \A r \in Recorders : rec[r].phase = "permitted" => rec[r].client \in clients

HoldsInv ==
    /\ TypeOK
    /\ PausedHoldsNothing
    /\ DisconnectedHoldsNothing
    /\ JobsMatch
    /\ PermittedConnected

(* Once a pause has been confirmed by the guard (nothing is left to clear) *)
(* no input call, wherever it was when the user paused, can still deliver. *)
PauseStopsInput ==
    paused /\ ~ClearComing => \A k \in Calls : ~CanDeliver(k)

(* A call that was permitted by a grant can deliver only while that grant, *)
(* for the window it acts on, stands, or while the guard has yet to        *)
(* confirm that it was taken back: input's check and the guard's lease     *)
(* check together, against revoke, expiry, mode changes and disconnect.    *)
RevocationStopsInput ==
    \A k \in Calls :
        CanDeliver(k) /\ ~call[k].yolo =>
            \/ Outstanding(tok[k])
            \/ /\ tok[k] \in DOMAIN grants
               /\ GrantMatches(grants[tok[k]], call[k].client, "control",
                               WindowScope(call[k].window), None)

(* Once no cleanup is outstanding, in approve mode a call can deliver only *)
(* what a grant of its client allows: expiry or revocation "blocks later   *)
(* transactions" (SECURITY.md), including those of a call that was         *)
(* permitted in YOLO mode and goes on in approve mode.                     *)
ConfirmedRevocationStopsInput ==
    \A k \in Calls :
        mode = "approve" /\ CanDeliver(k) =>
            \/ \E x \in Tokens : Outstanding(x)
            \/ \E t \in DOMAIN grants :
                  GrantMatches(grants[t], call[k].client, "control",
                               WindowScope(call[k].window), None)

(* The calls that hold a temporary YOLO lease. *)
Borrowed(x) == \E k \in Calls : pc[k] # "idle" /\ call[k].yolo /\ tok[k] = x

(* No lease the broker knows of is forgotten: a lease belongs to a grant   *)
(* for its window, to a decision or a YOLO call in progress, or is being   *)
(* taken back.                                                             *)
LeaseAccounted ==
    \A x \in DOMAIN leases :
        leases[x].told =>
            \/ /\ x \in DOMAIN grants
               /\ grants[x].cap = "control"
               /\ grants[x].scope = WindowScope(leases[x].window)
            \/ \E u \in UIs : pc[u] = "publish" /\ tok[u] = x
            \/ Borrowed(x)
            \/ Outstanding(x)

(* The authority that there is, as PermissionContract sees it.             *)
Deciders == {u \in UIs : pc[u] \in Deciding}

Decided ==
    [x \in {tok[u] : u \in Deciders} |-> NewGrant(CHOOSE u \in Deciders : tok[u] = x)]

Borrowers == {k \in Calls : pc[k] # "idle" /\ call[k].yolo}

Temporary == {tok[k] : k \in Borrowers} \ {None}

Heard == {x \in DOMAIN leases : leases[x].told}

KnownLeases == [x \in Heard |-> leases[x].window]

(* A lease that is nobody's and is not being taken back is forgotten: the  *)
(* contract has no such leases. *)
Ending ==
    {x \in Heard : /\ x \notin DOMAIN grants \cup Temporary
                   /\ \A u \in Deciders : tok[u] # x
                   /\ Outstanding(x)}

Open == ~paused /\ uis # {}

Contract == INSTANCE PermissionContract WITH
    open <- Open,
    certain <- pending = {},
    decided <- Decided,
    granted <- grants,
    temporary <- Temporary,
    ending <- Ending,
    leases <- KnownLeases

(* Whatever interleaves, a token's authority goes one way: what was taken  *)
(* back is never granted again, nothing is granted while the broker is     *)
(* closed or uncertain, and a lease is for the window that was decided     *)
(* (decide, selectShare, cleanupGuard, input).                             *)
ImplementsContract == Contract!Spec

(* A delivery reaches the window the call was permitted for, although the  *)
(* guard takes the window from the lease alone.                            *)
DeliveryHitsItsWindow ==
    \A k \in Calls : CanDeliver(k) => leases[tok[k]].window = call[k].window

(* At most one grant comes out of one decision: a grant appears only in    *)
(* the step that settles a pending request or uses up the picker, and a    *)
(* settled request never becomes anything else.                            *)
GrantNeedsDecision ==
    \/ DOMAIN grants' \subseteq DOMAIN grants
    \/ \E r \in DOMAIN requests \cap DOMAIN requests' :
          requests[r].state = "pending" /\ requests'[r].state = "granted"
    \/ picker # None /\ picker' = None

SettledStaysSettled ==
    \A r \in DOMAIN requests \cap DOMAIN requests' :
        requests[r].state # "pending" => requests'[r] = requests[r]

OneGrantPerDecision == [][GrantNeedsDecision /\ SettledStaysSettled]_vars

(* While a cleanup is unconfirmed nothing new is granted and no input call *)
(* passes its permission check.                                            *)
UncertaintyBlocks ==
    [][pending # {} => /\ DOMAIN grants' \subseteq DOMAIN grants
                       /\ \A k \in Calls : pc'[k] = "send" => pc[k] = "send"]_vars

(* No more recordings run at a time than record allows. *)
RecordingsBounded == Cardinality(Running) <= MaxRecording

(* A recording that was cancelled, or whose client has gone, stops,        *)
(* whatever mode the broker is in: none registers behind a disconnect.     *)
CancelledRecordingEnds ==
    \A r \in Recorders :
        (r \in cancelled \/ (r \in Running /\ rec[r].client \notin clients))
            ~> (rec[r].phase = "stopped")

(* Every supervisor command and every disconnect returns, whoever holds    *)
(* backendMu and whatever the guard answers.                               *)
CommandsReturn ==
    /\ \A u \in UIs : (pc[u] \notin {"closed", "ready"}) ~> (pc[u] \in {"closed", "ready"})
    /\ \A c \in Clients : (pc[c] \in {"lock", "cleanup"}) ~> (pc[c] = "closed")

(* Every input call returns: one that holds inputMu while it waits for     *)
(* backendMu waits for nobody who waits for inputMu.                       *)
CallsReturn == \A k \in Calls : (pc[k] # "idle") ~> (pc[k] = "idle")

(* Uncertainty about the guard is eventually resolved by the retries. *)
CleanupConfirmed == (pending # {}) ~> (pending = {})

(* An expired control grant loses its lease in the guard, even one the     *)
(* compositor's own clock would have kept.                                 *)
ExpiryReachesGuard ==
    \A t \in Tokens : (t \in DOMAIN grants /\ t \in expired) ~> (t \notin DOMAIN leases)

(* The clear that follows an expiry "removes any compositor lease whose     *)
(* individual revoke reply was lost" (broker.go): not that of a grant in   *)
(* force.                                                                  *)
ClearSparesGrants ==
    [][reply[Maint] = None /\ reply'[Maint] # None /\ reply'[Maint].op = Clear =>
          \A t \in DOMAIN grants \ expired :
              t \in DOMAIN leases => t \in DOMAIN leases']_vars
=============================================================================
