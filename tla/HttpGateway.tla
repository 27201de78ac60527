---------------------------- MODULE HttpGateway ----------------------------
(***************************************************************************)
(* The HTTP MCP endpoint of internal/app/http.go over the OAuth provider:  *)
(* admission of peers, their sessions in the MCP library, the watcher      *)
(* goroutine that ends each of them, and revocation.                       *)
(*                                                                         *)
(* Critical sections under h.mu and b.mu are one step.  The MCP library is *)
(* external: it opens a session for a peer newServer returned, takes no    *)
(* call for a session that is closing, and closes it when the calls it     *)
(* accepted have returned.  It binds a session to the principal that       *)
(* opened it.                                                              *)
(***************************************************************************)
EXTENDS OAuth

CONSTANTS
    PeerIds,    \* IDs of peers, which are also their client IDs
    Posts,      \* POST requests to /mcp under way
    MaxPeers,   \* peers and reservations (64)
    Guarded     \* is OAuth on

ASSUME GatewayAssumption ==
    /\ None \notin PeerIds
    /\ Guarded \in BOOLEAN
    /\ MaxPeers \in Nat
    /\ IsFiniteSet(PeerIds)

VARIABLES
    peers,       \* h.peers: "reserved" for nil, "peer" otherwise
    owner,       \* peer -> the connection that opened it
    watcher,     \* peer -> where its watcher goroutine is
    cancelled,   \* peers whose context is cancelled
    activated,   \* peers whose activate.Do has run
    session,     \* peer -> its session in the MCP library
    recipients,  \* peers in b.clients
    post         \* request -> where it is

peerVars == <<peers, owner, watcher, cancelled, activated, session, recipients>>
gatewayVars == <<peerVars, post>>
vars == <<oauthVars, gatewayVars>>
-----------------------------------------------------------------------------
(* "waiting" and "watching" are the two selects, "closing" is Close and    *)
(* Wait, "remove" and "disconnect" the deferred calls.                     *)
WatcherStates == {"none", "waiting", "watching", "closing", "remove", "disconnect", "done"}
Admitting == {"reserved", "created"}   \* requests that open a session
Calling == {"calling", "serving"}      \* requests of an open session
PostStates == {"idle", "verified"} \cup Admitting \cup Calling

Requests == [stage : PostStates, peer : PeerIds \cup {None},
             principal : Conns \cup {None}]

GatewayTypeOK ==
    /\ IsMap(peers, PeerIds, {"reserved", "peer"})
    /\ owner \in [PeerIds -> Conns \cup {None}]
    /\ watcher \in [PeerIds -> WatcherStates]
    /\ cancelled \subseteq PeerIds
    /\ activated \subseteq PeerIds
    /\ session \in [PeerIds -> {"none", "open", "closing", "closed"}]
    /\ recipients \subseteq PeerIds
    /\ post \in [Posts -> Requests]
    /\ \A p \in Posts : post[p].stage \in Admitting \cup Calling => post[p].peer \in PeerIds

TypeOK == OAuthTypeOK /\ GatewayTypeOK

Idle == [stage |-> "idle", peer |-> None, principal |-> None]

(* newHTTPGateway *)
Init ==
    /\ OAuthInit
    /\ peers = Empty
    /\ owner = [i \in PeerIds |-> None]
    /\ watcher = [i \in PeerIds |-> "none"]
    /\ cancelled = {}
    /\ activated = {}
    /\ session = [i \in PeerIds |-> "none"]
    /\ recipients = {}
    /\ post = [p \in Posts |-> Idle]

(* Who RequireBearerToken lets through, and as whom. *)
Principals == IF Guarded THEN Valid ELSE {None}

At(p, stage) == post[p].stage = stage
Goto(p, stage) == post' = [post EXCEPT ![p].stage = stage]
Finish(p) == post' = [post EXCEPT ![p] = Idle]

(* randomID: an ID nothing refers to. *)
FreshPeer(i) ==
    /\ watcher[i] \in {"none", "done"}
    /\ session[i] \in {"none", "closed"}
    /\ i \notin DOMAIN peers \cup recipients
    /\ \A p \in Posts : post[p].peer # i
-----------------------------------------------------------------------------
(* A POST without a session ID has passed RequireBearerToken. *)
PostInitialize(p, c) ==
    /\ At(p, "idle")
    /\ c \in Principals
    /\ post' = [post EXCEPT ![p] = [stage |-> "verified", peer |-> None, principal |-> c]]
    /\ UNCHANGED <<oauthVars, peerVars>>

(* admitMCP: a place for the peer to come. *)
Reserve(p, i) ==
    /\ At(p, "verified")
    /\ Cardinality(DOMAIN peers) < MaxPeers
    /\ FreshPeer(i)
    /\ peers' = Put(peers, i, "reserved")
    /\ owner' = [owner EXCEPT ![i] = None]
    /\ watcher' = [watcher EXCEPT ![i] = "none"]
    /\ session' = [session EXCEPT ![i] = "none"]
    /\ cancelled' = cancelled \ {i}
    /\ activated' = activated \ {i}
    /\ post' = [post EXCEPT ![p].stage = "reserved", ![p].peer = i]
    /\ UNCHANGED <<oauthVars, recipients>>

Overload(p) ==
    /\ At(p, "verified")
    /\ Cardinality(DOMAIN peers) >= MaxPeers
    /\ Finish(p)
    /\ UNCHANGED <<oauthVars, peerVars>>

(* Faulty: the place stays taken. *)
BadAbandon(p) == At(p, "reserved") /\ Finish(p) /\ UNCHANGED <<oauthVars, peerVars>>

(* The library answers without asking for a server; the deferred call of   *)
(* admitMCP gives the place back.                                          *)
Abandon(p) ==
    /\ At(p, "reserved")
    /\ peers' = Restrict(peers, DOMAIN peers \ {post[p].peer})
    /\ Finish(p)
    /\ UNCHANGED <<oauthVars, owner, watcher, cancelled, activated, session, recipients>>

(* Faulty: the peer's ID and its principal are swapped. *)
SwappedCreate(p) ==
    /\ At(p, "reserved")
    /\ LET i == post[p].peer
       IN  /\ peers' = Put(peers, i, "peer")
           /\ owner' = [owner EXCEPT ![i] = i]
           /\ watcher' = [watcher EXCEPT ![i] = "waiting"]
    /\ Goto(p, "created")
    /\ UNCHANGED <<oauthVars, cancelled, activated, session, recipients>>

(* newServer, with the principal verified above. *)
Create(p) ==
    /\ At(p, "reserved")
    /\ LET i == post[p].peer
       IN  /\ peers' = Put(peers, i, "peer")
           /\ owner' = [owner EXCEPT ![i] = post[p].principal]
           /\ watcher' = [watcher EXCEPT ![i] = "waiting"]
    /\ Goto(p, "created")
    /\ UNCHANGED <<oauthVars, cancelled, activated, session, recipients>>

(* The library connects a session to the server, or fails to; the client   *)
(* learns the session ID from the answer.                                  *)
Open(p) ==
    /\ At(p, "created")
    /\ session' = [session EXCEPT ![post[p].peer] = "open"]
    /\ Finish(p)
    /\ UNCHANGED <<oauthVars, peers, owner, watcher, cancelled, activated, recipients>>

OpenFails(p) ==
    /\ At(p, "created")
    /\ Finish(p)
    /\ UNCHANGED <<oauthVars, peerVars>>
-----------------------------------------------------------------------------

(* A tool call to a session: the token is good now, and of the session's   *)
(* principal.                                                              *)
PostCall(p, i) ==
    /\ At(p, "idle")
    /\ session[i] = "open"
    /\ owner[i] \in Principals
    /\ post' = [post EXCEPT ![p] = [stage |-> "calling", peer |-> i, principal |-> owner[i]]]
    /\ UNCHANGED <<oauthVars, peerVars>>

(* The session takes the call; the middleware makes the peer a recipient,  *)
(* once.                                                                   *)
Serve(p) ==
    /\ At(p, "calling")
    /\ LET i == post[p].peer
       IN  /\ session[i] = "open"
           /\ activated' = activated \cup {i}
           /\ recipients' = IF i \in activated THEN recipients ELSE recipients \cup {i}
    /\ Goto(p, "serving")
    /\ UNCHANGED <<oauthVars, peers, owner, watcher, cancelled, session>>

Refuse(p) ==
    /\ At(p, "calling")
    /\ session[post[p].peer] # "open"
    /\ Finish(p)
    /\ UNCHANGED <<oauthVars, peerVars>>

Return(p) ==
    /\ At(p, "serving")
    /\ Finish(p)
    /\ UNCHANGED <<oauthVars, peerVars>>

(* DELETE, or five idle minutes. *)
SessionEnds(i) ==
    /\ session[i] = "open"
    /\ session' = [session EXCEPT ![i] = "closing"]
    /\ UNCHANGED <<oauthVars, peers, owner, watcher, cancelled, activated, recipients, post>>

(* Close returns when the calls that the session took have returned. *)
SessionCloses(i) ==
    /\ session[i] = "closing"
    /\ \A p \in Posts : At(p, "serving") => post[p].peer # i
    /\ session' = [session EXCEPT ![i] = "closed"]
    /\ UNCHANGED <<oauthVars, peers, owner, watcher, cancelled, activated, recipients, post>>
-----------------------------------------------------------------------------
(* The watcher of newServer. *)

Watch(i, from, to) == watcher[i] = from /\ watcher' = [watcher EXCEPT ![i] = to]

WatchReady(i) ==
    /\ i \in activated
    /\ Watch(i, "waiting", "watching")
    /\ UNCHANGED <<oauthVars, peers, owner, cancelled, activated, session, recipients, post>>

(* Start to close the session of peer i, if it is open. *)
Close(i) ==
    session' = [session EXCEPT ![i] = IF session[i] = "open" THEN "closing" ELSE session[i]]

(* Faulty: there is no timer. *)
PatientWatchGiveUp(i) ==
    /\ i \in cancelled
    /\ Watch(i, "waiting", IF session[i] = "none" THEN "remove" ELSE "closing")
    /\ Close(i)
    /\ UNCHANGED <<oauthVars, peers, owner, cancelled, activated, recipients, post>>

(* The context or the ten second timer, which may win against a call.  The *)
(* timer outlasts the library's connecting of the session.                 *)
WatchGiveUp(i) ==
    /\ \/ i \in cancelled
       \/ \A p \in Posts : At(p, "created") => post[p].peer # i
    /\ Watch(i, "waiting", IF session[i] = "none" THEN "remove" ELSE "closing")
    /\ Close(i)
    /\ UNCHANGED <<oauthVars, peers, owner, cancelled, activated, recipients, post>>

(* Faulty: the watcher does not wait for the session to close. *)
BadWatchStop(i) ==
    /\ i \in cancelled \/ owner[i] \in over
    /\ Watch(i, "watching", "remove")
    /\ Close(i)
    /\ UNCHANGED <<oauthVars, peers, owner, cancelled, activated, recipients, post>>

(* Faulty: the expiry of the connection is not watched. *)
DeafWatchStop(i) ==
    /\ i \in cancelled
    /\ Watch(i, "watching", "closing")
    /\ Close(i)
    /\ UNCHANGED <<oauthVars, peers, owner, cancelled, activated, recipients, post>>

(* The context, or the connection's expiry. *)
WatchStop(i) ==
    /\ i \in cancelled \/ owner[i] \in over
    /\ Watch(i, "watching", "closing")
    /\ Close(i)
    /\ UNCHANGED <<oauthVars, peers, owner, cancelled, activated, recipients, post>>

(* The session is over. *)
WatchDone(i) ==
    /\ session[i] = "closed"
    /\ Watch(i, "watching", "remove") \/ Watch(i, "closing", "remove")
    /\ UNCHANGED <<oauthVars, peers, owner, cancelled, activated, session, recipients, post>>

RemovePeer(i) ==
    /\ Watch(i, "remove", "disconnect")
    /\ peers' = Restrict(peers, DOMAIN peers \ {i})
    /\ UNCHANGED <<oauthVars, owner, cancelled, activated, session, recipients, post>>

(* b.disconnect: see Authority for the rest of it. *)
Disconnect(i) ==
    /\ Watch(i, "disconnect", "done")
    /\ recipients' = recipients \ {i}
    /\ UNCHANGED <<oauthVars, peers, owner, cancelled, activated, session, post>>

Told(v) == revoker' = [revoker EXCEPT ![v] = None]

(* Faulty: only peers in use are cancelled. *)
BadTellGateway(v) ==
    /\ revoker[v] # None /\ revoker[v].stage = "tell"
    /\ cancelled' = cancelled \cup
          {i \in DOMAIN peers \cap activated : owner[i] = revoker[v].id}
    /\ Told(v)
    /\ UNCHANGED <<tableVars, worldVars, peers, owner, watcher, activated, session,
                   recipients, post>>

(* Faulty: the principal is not compared. *)
RudeTellGateway(v) ==
    /\ revoker[v] # None /\ revoker[v].stage = "tell"
    /\ cancelled' = cancelled \cup {i \in DOMAIN peers : peers[i] = "peer"}
    /\ Told(v)
    /\ UNCHANGED <<tableVars, worldVars, peers, owner, watcher, activated, session,
                   recipients, post>>

(* revokePrincipal: reservations have no principal yet and are skipped. *)
TellGateway(v) ==
    /\ revoker[v] # None /\ revoker[v].stage = "tell"
    /\ cancelled' = cancelled \cup
          {i \in DOMAIN peers : peers[i] = "peer" /\ owner[i] = revoker[v].id}
    /\ Told(v)
    /\ UNCHANGED <<tableVars, worldVars, peers, owner, watcher, activated, session,
                   recipients, post>>
-----------------------------------------------------------------------------
Admission(p) ==
    \/ \E i \in PeerIds : Reserve(p, i)
    \/ Overload(p)
    \/ Abandon(p) \/ Create(p)
    \/ Open(p) \/ OpenFails(p)

Handling(p) == Serve(p) \/ Refuse(p) \/ Return(p)

Request(p) ==
    \/ \E c \in Conns \cup {None} : PostInitialize(p, c)
    \/ \E i \in PeerIds : PostCall(p, i)

Watching(i) ==
    \/ WatchReady(i) \/ WatchGiveUp(i) \/ WatchStop(i) \/ WatchDone(i)
    \/ RemovePeer(i) \/ Disconnect(i)

Next ==
    \/ OAuthNext /\ UNCHANGED gatewayVars
    \/ \E p \in Posts : Request(p) \/ Admission(p) \/ Handling(p)
    \/ \E i \in PeerIds : SessionEnds(i) \/ SessionCloses(i) \/ Watching(i)
    \/ \E v \in Revokers : TellGateway(v)

Spec == Init /\ [][Next]_vars

(* Fairness.  Requests and watchers that can go on do, calls return        *)
(* (Authority's CallsReturn), timers fire, and the library closes a        *)
(* session that it can close.  Clients, browsers, the person at the        *)
(* console and deadlines owe nothing.                                      *)
Fairness ==
    /\ \A p \in Posts : WF_vars(Admission(p)) /\ WF_vars(Handling(p))
    /\ \A i \in PeerIds : WF_vars(Watching(i)) /\ WF_vars(SessionCloses(i))
    /\ \A v \in Revokers : WF_vars(DropFamily(v) /\ UNCHANGED gatewayVars) /\ WF_vars(TellGateway(v))

FairSpec == Spec /\ Fairness
=============================================================================
