------------------------ MODULE HttpGatewayInvariant ------------------------
(***************************************************************************)
(* The inductive invariant behind the properties of the OAuth provider and *)
(* the HTTP gateway.                                                       *)
(***************************************************************************)
EXTENDS HttpGatewayProps

(* A value in use has been drawn; the code of a connection is used up. *)
DrawnOnce ==
    /\ DOMAIN pending \cup DOMAIN codes \cup DOMAIN tokens \cup DOMAIN refresh
          \cup DOMAIN born \subseteq drawn
    /\ \A q \in DOMAIN pending : pending[q].code \in drawn \cup {None}
    /\ \A c \in DOMAIN born : born[c] \in drawn \ DOMAIN codes

(* Tokens and revocations are of connections that were made; a revocation  *)
(* tells the gateway after it has deleted the family.                      *)
FamiliesKnown ==
    /\ \A x \in DOMAIN tokens : tokens[x].id \in DOMAIN born
    /\ \A f \in DOMAIN refresh : refresh[f].conn.id \in DOMAIN born
    /\ \A v \in Revokers : revoker[v] # None => revoker[v].id \in DOMAIN born
    /\ \A v \in Revokers :
          revoker[v] # None /\ revoker[v].stage = "tell" => revoker[v].id \in revoked
    /\ revoked \subseteq DOMAIN born

(* Each refresh token has an access token of its own, of its connection. *)
Paired ==
    \E m \in Injection(DOMAIN refresh, DOMAIN tokens) :
        \A f \in DOMAIN refresh : tokens[m[f]] = refresh[f].conn

OAuthInv ==
    /\ DrawnOnce
    /\ FamiliesKnown
    /\ NoResurrection
    /\ CodeYieldsOneConnection
    /\ OneLiveRefresh
-----------------------------------------------------------------------------
Watched(i) == watcher[i] \in {"waiting", "watching", "closing"}
Past(i) == watcher[i] \in {"remove", "disconnect", "done"}

Admits(p, i) == post[p].stage \in Admitting /\ post[p].peer = i
Calls(p, i) == post[p].stage \in Calling /\ post[p].peer = i

(* Requests that open sessions do not share peers. *)
AdmittedApart ==
    \A p, q \in Posts : \A i \in PeerIds : Admits(p, i) /\ Admits(q, i) => p = q

AdmittedPlace ==
    \A p \in Posts : \A i \in PeerIds :
        Admits(p, i) =>
            /\ session[i] = "none"
            /\ At(p, "reserved") => /\ watcher[i] = "none"
                                    /\ i \in DOMAIN peers /\ peers[i] = "reserved"
            /\ At(p, "created") => watcher[i] # "none"

PlaceOwner ==
    \A i \in DOMAIN peers :
        \/ peers[i] = "reserved" /\ \E p \in Posts : At(p, "reserved") /\ Admits(p, i)
        \/ peers[i] = "peer" /\ (Watched(i) \/ watcher[i] = "remove")

WatchedPlace ==
    \A i \in PeerIds :
        Watched(i) \/ watcher[i] = "remove" => i \in DOMAIN peers /\ peers[i] = "peer"

PlacesInv == AdmittedApart /\ AdmittedPlace /\ PlaceOwner /\ WatchedPlace

CancelledRevoked == \A i \in cancelled : owner[i] \in revoked

(* Before newServer has made it, a peer has nothing. *)
Unmade ==
    \A i \in PeerIds :
        watcher[i] = "none" => session[i] = "none" /\ i \notin recipients \cup cancelled

(* A session whose watcher has gone was opened after the revocation of its *)
(* connection.                                                             *)
Orphans ==
    \A i \in PeerIds :
        Past(i) /\ (session[i] \in {"open", "closing"} \/ \E p \in Posts : Admits(p, i)) =>
            owner[i] \in revoked

(* Calls keep their session and with it the watcher. *)
CallsKeepSession ==
    \A p \in Posts : \A i \in PeerIds :
        Calls(p, i) =>
            /\ session[i] # "none"
            /\ Past(i) => At(p, "calling") /\ session[i] = "closed"
            /\ At(p, "serving") => session[i] # "closed" /\ i \in activated

ActivatedOnce == \A i \in activated : watcher[i] = "done" \/ i \in recipients

RecipientsStay == \A i \in recipients : watcher[i] # "done"

SessionsInv ==
    /\ CancelledRevoked
    /\ Unmade
    /\ Orphans
    /\ CallsKeepSession
    /\ ActivatedOnce
    /\ RecipientsStay

(* A peer created by a request that was verified before the revocation of  *)
(* its connection and missed by it has no call.                            *)
MissedInv ==
    \A i \in PeerIds :
        Watched(i) /\ owner[i] \in revoked /\ ~Telling(owner[i]) /\ i \notin cancelled =>
            /\ i \notin recipients
            /\ \A p \in Posts : ~Calls(p, i)

GatewayInv == PlacesInv /\ SessionsInv /\ MissedInv
=============================================================================
