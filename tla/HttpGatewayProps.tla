------------------------- MODULE HttpGatewayProps -------------------------
(***************************************************************************)
(* What the OAuth provider and the HTTP gateway promise.                   *)
(***************************************************************************)
EXTENDS HttpGateway

(* The documented bounds on what the provider keeps (AUTH.md), although    *)
(* they are looked at in other sections than the one that cleans up.       *)
LimitsHold ==
    /\ Cardinality(DOMAIN apps) <= MaxApps
    /\ Cardinality(DOMAIN pending) <= MaxPending
    /\ Cardinality(DOMAIN codes) <= MaxCodes
    /\ Cardinality(DOMAIN tokens) <= MaxTokens

(* Every refresh token kept, used or not, has an access token of its own   *)
(* that is kept as long: the refresh history cannot outgrow the access     *)
(* tokens, and its own limit of 1024 is never what stops a client.         *)
RefreshWithinAccess ==
    /\ Cardinality(DOMAIN refresh) <= Cardinality(DOMAIN tokens)
    /\ \A f \in DOMAIN refresh : \E x \in DOMAIN tokens : tokens[x] = refresh[f].conn

(* One approval at the console makes at most one connection: an approved   *)
(* authorization has one code, and a code is exchanged once, by token.     *)
CodeYieldsOneConnection ==
    /\ \A c, d \in DOMAIN born : born[c] = born[d] => c = d
    /\ \A q, r \in DOMAIN pending : pending[q].code # None /\ pending[q].code = pending[r].code => q = r

(* Rotation: of a connection's refresh tokens one at most is unused, so    *)
(* that of two clients that hold a copy one is found out.                  *)
OneLiveRefresh ==
    \A f, g \in DOMAIN refresh :
        /\ refresh[f].conn.id = refresh[g].conn.id
        /\ ~refresh[f].used /\ ~refresh[g].used
        => f = g

(* A revoked connection has no token of either kind, then and ever after:  *)
(* revokeConnection against exchanges and refreshes that run between a     *)
(* handler's look at the family and its deletion.                          *)
NoResurrection ==
    /\ \A x \in DOMAIN tokens : tokens[x].id \notin revoked
    /\ \A f \in DOMAIN refresh : refresh[f].conn.id \notin revoked

(* No more than 64 peers and reservations: admitMCP checks, newServer      *)
(* fills the place in later.                                               *)
PeersBounded == Cardinality(DOMAIN peers) <= MaxPeers

(* No place is lost: a reservation belongs to a request under way, a peer  *)
(* to a watcher that will give its place back.                             *)
EveryPlaceOwned ==
    \A i \in DOMAIN peers :
        IF peers[i] = "reserved"
        THEN \E p \in Posts : At(p, "reserved") /\ post[p].peer = i
        ELSE watcher[i] \in {"waiting", "watching", "closing", "remove"}

Telling(c) == \E v \in Revokers : revoker[v] # None /\ revoker[v].id = c

(* When the revocation of a connection has returned, a client of it that   *)
(* the console could give permission to, or that has some, is on its way   *)
(* out: TellGateway against requests verified before the revocation.       *)
RevokedNotRecipients ==
    \A i \in recipients :
        owner[i] \in revoked /\ ~Telling(owner[i]) =>
            i \in cancelled \/ watcher[i] \in {"remove", "disconnect"}

(* A session in use is ended by the gateway only for the revocation or the *)
(* expiry of the connection that opened it, and never for another's.       *)
EndedForCause ==
    \A i \in PeerIds :
        watcher[i] = "watching" /\ watcher'[i] = "closing" => owner[i] \in revoked \cup over

OthersKeepTheirSessions == [][EndedForCause]_vars

(* The watcher and the timer against a first call: a recipient has a       *)
(* watcher that has yet to disconnect it, and a call that is being served  *)
(* keeps its watcher from disconnecting.                                   *)
RecipientsWatched ==
    /\ \A i \in recipients : watcher[i] \notin {"none", "done"}
    /\ \A p \in Posts :
          At(p, "serving") =>
              /\ post[p].peer \in recipients
              /\ watcher[post[p].peer] \in {"waiting", "watching", "closing"}

(* The gateway brings the broker clients the way the broker needs them.    *)
Lifecycle == INSTANCE ClientLifecycle
    WITH Clients <- PeerIds, Callers <- Posts, connected <- recipients,
         busy <- [p \in Posts |-> IF At(p, "serving") THEN post[p].peer ELSE None]

ImplementsLifecycle == Lifecycle!Spec

Gone(i) == watcher[i] \in {"none", "done"}

(* A probe that never calls a tool, and a reservation, end.  *)
ProbesEnd ==
    \A i \in PeerIds : (i \in DOMAIN peers /\ i \notin activated) ~>
                       (i \notin DOMAIN peers \/ i \in activated)

(* After a revocation, or after the hour that was approved, the sessions   *)
(* of a connection end for good, those still being admitted included.      *)
SessionsEnd ==
    \A c \in Conns :
        c \in revoked \cup over ~> [](\A i \in PeerIds : owner[i] = c => Gone(i))
=============================================================================
